----------------------------- MODULE KDictProofs ----------------------------
(***************************************************************************)
(* What TLAPS proves of KDict.tla for every set of keys, every length of   *)
(* the unsorted tail and every batch that is merged.                       *)
(***************************************************************************)
EXTENDS KDict, FiniteSetTheorems, SequenceTheorems, TLAPS

(* A pair is not the empty value of `sought'.                              *)
LEMMA EntryType ==
  /\ \A k \in Key, v \in Value \cup {Removed} : [key |-> k, value |-> v] \in Entry
  /\ \A e \in Entry : e # <<>> /\ e.key \in Key /\ e.value \in Value \cup {Removed}
<1>1. \A k \in Key, v \in Value \cup {Removed} : [key |-> k, value |-> v] \in Entry
  BY DEF Entry
<1>2. ASSUME NEW e \in Entry PROVE e # <<>>
  <2>1. DOMAIN e = {"key", "value"}
    BY DEF Entry
  <2>2. DOMAIN <<>> = {}
    OBVIOUS
  <2> QED
    BY <2>1, <2>2
<1> QED
  BY <1>1, <1>2 DEF Entry

(* The keys are integers within half the range.                            *)
LEMMA KeyType ==
  /\ Half \in Nat \ {0}
  /\ \A k \in Key : k \in Int /\ -Half <= k /\ k < Half
BY DictAssumption

(* The batches: pairs of the types of the dictionary, each key once.       *)
LEMMA BatchType ==
  ASSUME NEW b \in Batch
  PROVE  /\ b \in Seq(Entry) /\ b # <<>> /\ Len(b) \in Nat \ {0}
         /\ \A j \in 1 .. Len(b) : b[j] \in Entry /\ b[j].value \in Value
         /\ \A j, k \in 1 .. Len(b) : b[j].key = b[k].key => j = k
<1>1. b \in Seq([key : Key, value : Value]) /\ b # <<>>
  BY DictAssumption
<1>2. [key : Key, value : Value] \subseteq Entry
  BY DEF Entry
<1>3. /\ Len(b) \in Nat /\ DOMAIN b = 1 .. Len(b)
      /\ b \in [1 .. Len(b) -> [key : Key, value : Value]]
  BY <1>1, LenProperties
<1>4. b \in [1 .. Len(b) -> Entry]
  BY <1>2, <1>3
<1>5. b \in Seq(Entry)
  BY <1>3, <1>4, SeqDef
<1>6. \A j, k \in 1 .. Len(b) : b[j].key = b[k].key => j = k
  BY <1>3, DictAssumption
<1>7. Len(b) # 0
  BY <1>1, EmptySeq
<1> QED
  BY <1>1, <1>3, <1>4, <1>5, <1>6, <1>7

(* comprKeyVal is 0 of equal keys only, so what it does not put out of     *)
(* order is in the order of the search (DictAssumption).                   *)
LEMMA ComprOrders ==
  ASSUME NEW a \in Key, NEW b \in Key, a # b, compr(a, b) <= 0
  PROVE  a < b
<1> DEFINE d == a - b + Half
           m == 2 * Half
<1>1. /\ a \in Int /\ b \in Int /\ Half \in Nat /\ Half > 0
      /\ -Half <= a /\ a < Half /\ -Half <= b /\ b < Half
  BY KeyType
<1>2. d \in Int /\ m \in Nat /\ m > 0 /\ -m < d - Half /\ d - Half < m
  BY <1>1
<1>3. CASE compr(a, b) < 0
  BY <1>3, DictAssumption
<1>4. CASE compr(a, b) = 0
  <2>1. d % m = Half
    BY <1>1, <1>2, <1>4 DEF compr
  <2> HIDE DEF d, m
  <2>2. d = m * (d \div m) + (d % m)
    BY <1>2
  <2>3. d \div m \in Int
    BY <1>2
  <2>4. d - Half = m * (d \div m)
    BY <2>1, <2>2, <2>3, <1>1, <1>2
  <2>5. ASSUME NEW q \in Int, q >= 1 PROVE m * q >= m
    BY <2>5, <1>2
  <2>6. ASSUME NEW q \in Int, q <= -1 PROVE m * q <= -m
    BY <2>6, <1>2
  <2>7. d \div m = 0
    BY <2>3, <2>4, <2>5, <2>6, <1>2
  <2>8. d - Half = 0
    BY <2>4, <2>7, <1>2
  <2> QED
    BY <2>8, <1>1 DEF d
<1>5. compr(a, b) \in Int
  BY <1>1, <1>2 DEF compr
<1> QED
  BY <1>3, <1>4, <1>5

(* A sorting has the same pairs, each once, in the order of their keys     *)
(* (qsort_i).                                                              *)
LEMMA SortingKeeps ==
  ASSUME NEW s \in Seq(Entry), NEW t \in Sortings(s),
         \A j, k \in 1 .. Len(s) : s[j].key = s[k].key => j = k
  PROVE  /\ t \in Seq(Entry) /\ Len(t) = Len(s)
         /\ \A j \in 1 .. Len(s) : \E k \in 1 .. Len(s) : t[j] = s[k]
         /\ \A k \in 1 .. Len(s) : \E j \in 1 .. Len(s) : t[j] = s[k]
         /\ \A j, k \in 1 .. Len(s) : j < k => t[j].key < t[k].key
<1> DEFINE D == 1 .. Len(s)
<1>1. Len(s) \in Nat /\ DOMAIN s = D /\ s \in [D -> Entry]
  BY LenProperties
<1>2. /\ t \in [D -> Range(s)] /\ IsInjective(t)
      /\ \A j, k \in D : j < k => compr(t[j].key, t[k].key) <= 0
  BY <1>1 DEF Sortings
<1>3. \A j \in D : s[j] \in Range(s)
  BY <1>1 DEF Range
<1>4. \A r \in Range(s) : \E k \in D : r = s[k]
  BY <1>1 DEF Range
<1>5. IsFiniteSet(D)
  BY <1>1, FS_Interval
<1>6. s \in Bijection(D, Range(s))
  <2>1. s \in [D -> Range(s)]
    BY <1>1, <1>3
  <2>2. IsInjective(s)
    BY <1>1 DEF IsInjective
  <2> QED
    BY <2>1, <2>2, <1>4 DEF Bijection, Injection, Surjection
<1>7. IsFiniteSet(Range(s)) /\ Cardinality(Range(s)) = Cardinality(D)
  BY <1>5, <1>6, FS_Bijection DEF ExistsBijection
<1>8. t \in Injection(D, Range(s))
  BY <1>2 DEF Injection
<1>9. t \in Surjection(D, Range(s))
  BY <1>7, <1>8, FS_Injection
<1>10. \A j \in D : \E k \in D : t[j] = s[k]
  BY <1>2, <1>4
<1>11. \A k \in D : \E j \in D : t[j] = s[k]
  BY <1>3, <1>9 DEF Surjection
<1>12. t \in [D -> Entry] /\ DOMAIN t = D
  BY <1>1, <1>2, <1>10
<1>13. t \in Seq(Entry) /\ Len(t) = Len(s)
  BY <1>1, <1>12, SeqDef, LenProperties
<1>14. ASSUME NEW j \in D, NEW k \in D, j < k PROVE t[j].key < t[k].key
  <2>1. t[j] # t[k]
    BY <1>1, <1>2, <1>12, <1>14 DEF IsInjective
  <2>2. PICK p \in D, q \in D : t[j] = s[p] /\ t[k] = s[q]
    BY <1>10
  <2>3. t[j].key # t[k].key
    BY <2>1, <2>2
  <2>4. t[j].key \in Key /\ t[k].key \in Key
    BY <1>12, EntryType
  <2>5. compr(t[j].key, t[k].key) <= 0
    BY <1>2, <1>14
  <2> QED
    BY <2>3, <2>4, <2>5, ComprOrders
<1> QED
  BY <1>10, <1>11, <1>13, <1>14

----------------------------------------------------------------------------
(* The array.                                                              *)

DictInv ==
  /\ items \in Seq(Entry)
  /\ sortedData \in 0 .. Len(items)
  /\ capacity \in Nat
  /\ Unique /\ Ordered /\ Fits

LEMMA DictType ==
  ASSUME DictInv
  PROVE  /\ Len(items) \in Nat /\ DOMAIN items = 1 .. Len(items)
         /\ items \in [1 .. Len(items) -> Entry]
         /\ \A j \in 1 .. Len(items) : items[j] \in Entry
         /\ \A j, k \in 1 .. Len(items) : items[j].key = items[k].key => j = k
         /\ sortedData \in Nat /\ sortedData <= Len(items)
         /\ (items = <<>> <=> Len(items) = 0)
BY LenProperties, EmptySeq DEF DictInv, Unique

(* What is added fits (KDict_Ensure).                                      *)
LEMMA RoomFits ==
  ASSUME DictInv, NEW n \in Nat
  PROVE  Room(n) \in Nat /\ Len(items) + n <= Room(n)
BY DictType DEF DictInv, Fits, Room

(* An Add of a key that is not there keeps the array sound, with or        *)
(* without the sort, and adds that pair only (KDict_Add).                  *)
LEMMA AddKeeps ==
  ASSUME DictInv, NEW e \in Entry, e.key \notin Keys, Add(e)
  PROVE  /\ DictInv'
         /\ Len(items') = Len(items) + 1
         /\ \A j \in 1 .. Len(items) : \E k \in 1 .. Len(items') : items'[k] = items[j]
         /\ \E k \in 1 .. Len(items') : items'[k] = e
         /\ \A k \in 1 .. Len(items') :
              items'[k] = e \/ \E j \in 1 .. Len(items) : items'[k] = items[j]
<1> DEFINE n == Len(items)
           s == Append(items, e)
<1>1. /\ n \in Nat /\ DOMAIN items = 1 .. n
      /\ \A j \in 1 .. n : items[j] \in Entry
      /\ \A j, k \in 1 .. n : items[j].key = items[k].key => j = k
      /\ sortedData \in Nat /\ sortedData <= n
      /\ items \in Seq(Entry)
  BY DictType DEF DictInv
<1>2. /\ s \in Seq(Entry) /\ Len(s) = n + 1
      /\ \A j \in 1 .. n : s[j] = items[j]
      /\ s[n + 1] = e
  BY <1>1, AppendProperties
<1>3. \A j \in 1 .. n : items[j].key # e.key
  BY <1>1 DEF Keys
<1>4. \A j, k \in 1 .. n + 1 : s[j].key = s[k].key => j = k
  BY <1>1, <1>2, <1>3
<1>5. capacity' \in Nat /\ n + 1 <= capacity'
  BY RoomFits DEF Add
<1> HIDE DEF s
<1>6. CASE n - sortedData > TailMax
  <2>1. items' \in Sortings(s) /\ sortedData' = n + 1
    BY <1>6 DEF Add, s
  <2>2. /\ items' \in Seq(Entry) /\ Len(items') = n + 1
        /\ \A j \in 1 .. n + 1 : \E k \in 1 .. n + 1 : items'[j] = s[k]
        /\ \A k \in 1 .. n + 1 : \E j \in 1 .. n + 1 : items'[j] = s[k]
        /\ \A j, k \in 1 .. n + 1 : j < k => items'[j].key < items'[k].key
    <3>1. \A j, k \in 1 .. Len(s) : s[j].key = s[k].key => j = k
      BY <1>2, <1>4
    <3>2. /\ items' \in Seq(Entry) /\ Len(items') = Len(s)
          /\ \A j \in 1 .. Len(s) : \E k \in 1 .. Len(s) : items'[j] = s[k]
          /\ \A k \in 1 .. Len(s) : \E j \in 1 .. Len(s) : items'[j] = s[k]
          /\ \A j, k \in 1 .. Len(s) : j < k => items'[j].key < items'[k].key
      BY ONLY <1>2, <2>1, <3>1, SortingKeeps
    <3> QED
      BY <1>2, <3>2
  <2>3. \A j \in 1 .. n + 1 : items'[j].key \in Int
    <3>1. \A j \in 1 .. n + 1 : items'[j] \in Entry
      BY <2>2, ElementOfSeq
    <3> QED
      BY <3>1, EntryType, KeyType
  <2>4. DOMAIN items' = 1 .. n + 1
    BY <2>2, LenProperties
  <2>5. Unique'
    <3>1. ASSUME NEW j \in 1 .. n + 1, NEW k \in 1 .. n + 1, j # k
          PROVE  items'[j].key # items'[k].key
      <4>1. j < k \/ k < j
        BY <1>1, <3>1
      <4>2. \A a, b \in Int : a < b \/ b < a => a # b
        OBVIOUS
      <4>3. items'[j].key < items'[k].key \/ items'[k].key < items'[j].key
        BY <2>2, <4>1
      <4> QED
        BY <2>3, <4>2, <4>3
    <3> QED
      BY <2>4, <3>1 DEF Unique
  <2>6. Ordered'
    BY <2>1, <2>2 DEF Ordered
  <2>7. Fits'
    BY <1>1, <1>5, <2>1, <2>2, DictAssumption DEF Fits
  <2>8. DictInv'
    BY <1>1, <1>5, <2>1, <2>2, <2>5, <2>6, <2>7 DEF DictInv
  <2>9. \A k \in 1 .. n + 1 :
          items'[k] = e \/ \E j \in 1 .. n : items'[k] = items[j]
    <3>1. \A k \in 1 .. n + 1 : k = n + 1 \/ k \in 1 .. n
      BY <1>1
    <3> QED
      BY <1>2, <2>2, <3>1
  <2>10. \A j \in 1 .. n : \E k \in 1 .. n + 1 : items'[k] = items[j]
    <3>1. \A j \in 1 .. n : j \in 1 .. n + 1
      BY <1>1
    <3> QED
      BY <1>2, <2>2, <3>1
  <2>11. \E k \in 1 .. n + 1 : items'[k] = e
    <3>1. n + 1 \in 1 .. n + 1
      BY <1>1
    <3> QED
      BY <1>2, <2>2, <3>1
  <2> QED
    BY <2>2, <2>8, <2>9, <2>10, <2>11
<1>7. CASE ~(n - sortedData > TailMax)
  <2>1. items' = s /\ sortedData' = sortedData
    BY <1>7 DEF Add, s
  <2>2. DOMAIN items' = 1 .. n + 1
    BY <1>2, <2>1, LenProperties
  <2>3. Unique'
    BY <1>4, <2>1, <2>2 DEF Unique
  <2>4. Ordered'
    BY <1>1, <1>2, <2>1 DEF Ordered, DictInv
  <2>5. Fits'
    BY <1>1, <1>2, <1>5, <1>7, <2>1, DictAssumption DEF Fits
  <2>6. DictInv'
    BY <1>1, <1>2, <1>5, <2>1, <2>3, <2>4, <2>5 DEF DictInv
  <2>7. \A k \in 1 .. n + 1 :
          items'[k] = e \/ \E j \in 1 .. n : items'[k] = items[j]
    BY <1>1, <1>2, <2>1
  <2> QED
    BY <1>1, <1>2, <2>1, <2>6, <2>7
<1> QED
  BY <1>6, <1>7

(* A pair that is there gets another value in its place.                   *)
LEMMA OverwriteKeeps ==
  ASSUME DictInv, NEW j \in 1 .. Len(items), NEW v \in Value \cup {Removed}, Overwrite(j, v)
  PROVE  /\ DictInv'
         /\ Len(items') = Len(items)
         /\ \A k \in 1 .. Len(items) : items'[k].key = items[k].key
         /\ \A k \in 1 .. Len(items) :
              items'[k].value = IF k = j THEN v ELSE items[k].value
<1> DEFINE n == Len(items)
<1>1. /\ n \in Nat /\ DOMAIN items = 1 .. n
      /\ items \in [1 .. n -> Entry]
      /\ \A k, l \in 1 .. n : items[k].key = items[l].key => k = l
      /\ sortedData \in Nat /\ sortedData <= n
      /\ items \in Seq(Entry)
  BY DictType DEF DictInv
<1>2. /\ items' = [items EXCEPT ![j].value = v]
      /\ sortedData' = sortedData /\ capacity' = capacity
  BY DEF Overwrite
<1>3. [items[j] EXCEPT !.value = v] \in Entry
  BY <1>1 DEF Entry
<1>4. items' \in [1 .. n -> Entry]
  BY <1>1, <1>2, <1>3
<1>5. items' \in Seq(Entry) /\ Len(items') = n /\ DOMAIN items' = 1 .. n
  BY <1>1, <1>4, SeqDef, LenProperties
<1>6. \A k \in 1 .. n : items'[k].key = items[k].key
  BY <1>1, <1>2 DEF Entry
<1>7. \A k \in 1 .. n : items'[k].value = IF k = j THEN v ELSE items[k].value
  BY <1>1, <1>2 DEF Entry
<1>8. Unique' /\ Ordered' /\ Fits'
  <2>1. Unique'
    BY <1>1, <1>5, <1>6 DEF Unique
  <2>2. Ordered'
    BY <1>1, <1>2, <1>5, <1>6 DEF Ordered, DictInv
  <2>3. Fits'
    BY <1>1, <1>2, <1>5 DEF Fits, DictInv
  <2> QED
    BY <2>1, <2>2, <2>3
<1>9. DictInv'
  BY <1>2, <1>5, <1>8 DEF DictInv
<1> QED
  BY <1>5, <1>6, <1>7, <1>9

----------------------------------------------------------------------------
(* The calls.                                                              *)

CallType ==
  /\ op \in {"none", "get", "set", "remove", "keep", "override"}
  /\ pc \in {"idle", "probe", "scan", "merge", "rest"}
  /\ sought \in Entry \cup {<<>>}
  /\ min \in Nat /\ max \in Nat
  /\ kvs \in Batch \cup {<<>>} /\ i \in Nat /\ foundItems \subseteq DOMAIN kvs
  /\ answer \in {<<>>} \cup (Key \X (Value \cup {Removed, Absent}))

LEMMA InvParts == IInv <=> DictInv /\ CallType /\ Excluded /\ Merging
BY DEF IInv, TypeOK, DictInv, CallType

LEMMA InvPartsNext == IInv' <=> DictInv' /\ CallType' /\ Excluded' /\ Merging'
BY DEF IInv, TypeOK, DictInv, CallType

(* What is compared is in the array, and is what is sought when it hits.   *)
LEMMA LookingInside ==
  ASSUME IInv, Looking
  PROVE  /\ Position \in 1 .. Len(items)
         /\ pc \in {"probe", "scan"} /\ op # "none" /\ sought \in Entry
         /\ Hit => items[Position].key = sought.key
<1>1. DictInv /\ CallType /\ Excluded
  BY InvParts
<1>2. Len(items) \in Nat /\ sortedData \in Nat /\ sortedData <= Len(items)
  BY <1>1, DictType
<1>3. pc \in {"probe", "scan"} /\ op # "none" /\ sought \in Entry
  BY <1>1 DEF Looking, Excluded, CallType
<1>4. CASE pc = "probe"
  <2>1. min \in Nat /\ max \in Nat /\ min < max /\ max <= sortedData
    BY <1>1, <1>4 DEF Looking, Excluded, CallType
  <2>2. (max + min) \div 2 \in Nat /\ (max + min) \div 2 < max
    BY <2>1
  <2> QED
    BY <1>2, <1>3, <1>4, <2>1, <2>2 DEF Position, Hit
<1>5. CASE pc = "scan"
  BY <1>1, <1>2, <1>3, <1>5 DEF Looking, CallType, Position, Hit
<1> QED
  BY <1>3, <1>4, <1>5

(* A search that ends without a hit has excluded every pair.               *)
LEMMA MissAbsent ==
  ASSUME IInv, Miss
  PROVE  sought \in Entry /\ sought.key \notin Keys
<1>1. DictInv /\ CallType /\ Excluded
  BY InvParts
<1>2. DOMAIN items = 1 .. Len(items)
  BY <1>1, DictType
<1> QED
  BY <1>1, <1>2 DEF Miss, Excluded, CallType, Keys

(* An access to a pair that is there keeps the array.                      *)
LEMMA WriteKeeps ==
  ASSUME IInv, Hit, NEW v \in Value \cup {Removed}, Overwrite(Position, v)
  PROVE  /\ DictInv'
         /\ Len(items') = Len(items)
         /\ Keys' = Keys
<1>1. DictInv /\ Position \in 1 .. Len(items)
  BY InvParts, LookingInside DEF Hit
<1>2. /\ DictInv'
      /\ Len(items') = Len(items)
      /\ \A k \in 1 .. Len(items) : items'[k].key = items[k].key
  BY <1>1, OverwriteKeeps
<1>3. DOMAIN items = 1 .. Len(items) /\ DOMAIN items' = 1 .. Len(items)
  BY <1>1, <1>2, LenProperties DEF DictInv
<1> QED
  BY <1>2, <1>3 DEF Keys

(* Nothing is under way after a return.                                    *)
LEMMA ReturnKeeps ==
  ASSUME IInv, Return, DictInv',
         answer' \in {<<>>} \cup (Key \X (Value \cup {Removed, Absent}))
  PROVE  IInv'
<1>1. CallType'
  BY DEF Return, CallType
<1>2. Excluded'
  BY DEF Return, Excluded
<1>3. Merging'
  BY DEF Return, Merging
<1> QED
  BY <1>1, <1>2, <1>3, InvPartsNext

(* A search begins with nothing excluded.                                  *)
LEMMA SeekExcludes ==
  ASSUME DictInv, NEW e \in Entry, Seek(e), UNCHANGED dict, op' # "none",
         op' = "set" => e.value \in Value
  PROVE  Excluded' /\ sought' \in Entry \cup {<<>>} /\ min' \in Nat /\ max' \in Nat
BY DictType, EntryType DEF Seek, dict, Excluded

(* The steps of a search.                                                  *)
LEMMA SearchStep ==
  ASSUME IInv, Probe \/ LeaveSorted \/ Scan
  PROVE  IInv'
<1>1. DictInv /\ CallType /\ Excluded /\ Merging
  BY InvParts
<1>2. /\ Len(items) \in Nat /\ sortedData \in Nat /\ sortedData <= Len(items)
      /\ \A j \in 1 .. Len(items) : items[j].key \in Int
  BY <1>1, DictType, EntryType, KeyType
<1>3. /\ UNCHANGED <<items, sortedData, capacity, op, sought, kvs, i, foundItems, answer>>
      /\ pc \in {"probe", "scan"} /\ pc' \in {"probe", "scan"}
  BY DEF Probe, LeaveSorted, Scan, dict, merge
<1>4. /\ sought \in Entry /\ sought # <<>> /\ op # "none" /\ sought.key \in Int
      /\ op = "set" => sought.value \in Value
  BY <1>1, <1>3, EntryType, KeyType DEF Excluded, CallType
<1>5. DictInv'
  BY <1>1, <1>3 DEF DictInv, Unique, Ordered, Fits
<1>6. Merging'
  BY <1>1, <1>3 DEF Merging, Keys
<1>7. min' \in Nat /\ max' \in Nat /\ Excluded'
  <2>1. CASE Probe
    <3> DEFINE p == (max + min) \div 2
    <3>1. /\ pc = "probe" /\ min \in Nat /\ max \in Nat
          /\ min < max /\ max <= sortedData
          /\ \A j \in 1 .. min : items[j].key < sought.key
          /\ \A j \in max + 1 .. sortedData : items[j].key > sought.key
      BY <1>1, <2>1 DEF Probe, Excluded, CallType
    <3>2. p \in Nat /\ min <= p /\ p < max
      BY <3>1
    <3>3. \A j, k \in 1 .. sortedData : j < k => items[j].key < items[k].key
      BY <1>1 DEF DictInv, Ordered
    <3>4. pc' = "probe"
      BY <2>1, <3>1 DEF Probe
    <3>7. \/ items[p + 1].key < sought.key /\ min' = p + 1 /\ UNCHANGED max
          \/ items[p + 1].key > sought.key /\ max' = p /\ UNCHANGED min
      BY <2>1 DEF Probe
    <3> HIDE DEF p
    <3>5. CASE items[p + 1].key < sought.key /\ min' = p + 1 /\ UNCHANGED max
      <4>1. \A j \in 1 .. p + 1 : items[j].key < sought.key
        <5>1. ASSUME NEW j \in 1 .. p + 1 PROVE items[j].key < sought.key
          <6>1. j = p + 1 \/ items[j].key < items[p + 1].key
            BY <3>1, <3>2, <3>3, <1>2
          <6>2. items[j].key \in Int /\ items[p + 1].key \in Int
            BY <3>1, <3>2, <1>2
          <6> QED
            BY <6>1, <6>2, <3>5, <1>4
        <5> QED
          BY <5>1
      <4> QED
        BY <1>2, <1>3, <1>4, <3>1, <3>2, <3>4, <3>5, <4>1 DEF Excluded
    <3>6. CASE items[p + 1].key > sought.key /\ max' = p /\ UNCHANGED min
      <4>1. \A j \in p + 1 .. sortedData : items[j].key > sought.key
        <5>1. ASSUME NEW j \in p + 1 .. sortedData PROVE items[j].key > sought.key
          <6>1. j = p + 1 \/ items[p + 1].key < items[j].key
            BY <3>1, <3>2, <3>3, <1>2
          <6>2. items[j].key \in Int /\ items[p + 1].key \in Int
            BY <3>1, <3>2, <1>2
          <6> QED
            BY <6>1, <6>2, <3>6, <1>4
        <5> QED
          BY <5>1
      <4> QED
        BY <1>2, <1>3, <1>4, <3>1, <3>2, <3>4, <3>6, <4>1 DEF Excluded
    <3> QED
      BY <3>5, <3>6, <3>7
  <2>2. CASE LeaveSorted
    <3>1. /\ pc = "probe" /\ min \in Nat /\ max \in Nat
          /\ min = max /\ max <= sortedData
          /\ \A j \in 1 .. min : items[j].key < sought.key
          /\ \A j \in max + 1 .. sortedData : items[j].key > sought.key
      BY <1>1, <2>2 DEF LeaveSorted, Excluded, CallType
    <3>2. \A j \in 1 .. sortedData : items[j].key # sought.key
      <4>1. ASSUME NEW j \in 1 .. sortedData PROVE items[j].key # sought.key
        <5>1. items[j].key \in Int
          BY <1>2
        <5>2. j \in 1 .. min \/ j \in max + 1 .. sortedData
          BY <3>1, <1>2
        <5>3. items[j].key < sought.key \/ items[j].key > sought.key
          BY <3>1, <5>2
        <5> QED
          BY <5>1, <5>3, <1>4
      <4> QED
        BY <4>1
    <3>3. pc' = "scan" /\ min' = sortedData /\ max' = max
      BY <2>2 DEF LeaveSorted
    <3> QED
      BY <1>2, <1>3, <1>4, <3>1, <3>2, <3>3 DEF Excluded
  <2>3. CASE Scan
    <3>1. /\ pc = "scan" /\ min \in Nat /\ max \in Nat
          /\ sortedData <= min /\ min < Len(items)
          /\ \A j \in 1 .. min : items[j].key # sought.key
          /\ items[min + 1].key # sought.key
      BY <1>1, <2>3 DEF Scan, Looking, Hit, Position, Excluded, CallType
    <3>2. pc' = "scan" /\ min' = min + 1 /\ max' = max
      BY <2>3, <3>1 DEF Scan
    <3>3. \A j \in 1 .. min + 1 : items[j].key # sought.key
      <4>1. \A j \in 1 .. min + 1 : j = min + 1 \/ j \in 1 .. min
        BY <3>1
      <4> QED
        BY <3>1, <4>1
    <3> QED
      BY <1>2, <1>3, <1>4, <3>1, <3>2, <3>3 DEF Excluded
  <2> QED
    BY <2>1, <2>2, <2>3
<1>8. CallType'
  BY <1>1, <1>3, <1>7 DEF CallType
<1> QED
  BY <1>5, <1>6, <1>7, <1>8, InvPartsNext

(* Where a call or a merge ends.                                           *)
LEMMA CallStep ==
  ASSUME IInv, Get \/ Set \/ Remove
  PROVE  IInv'
<1>1. DictInv /\ CallType
  BY InvParts
<1>2. Return
  BY DEF Get, Set, Remove
<1>3. CASE Get
  <2>1. DictInv'
    BY <1>1, <1>3 DEF Get, dict, DictInv, Unique, Ordered, Fits
  <2>2. CASE Hit /\ answer' = <<sought.key, items[Position].value>>
    <3>1. Position \in 1 .. Len(items) /\ sought \in Entry
      BY <2>2, LookingInside DEF Hit
    <3>2. items[Position] \in Entry
      BY <1>1, <3>1, DictType
    <3>3. answer' \in Key \X (Value \cup {Removed, Absent})
      BY <2>2, <3>1, <3>2, EntryType
    <3> QED
      BY <1>2, <2>1, <3>3, ReturnKeeps
  <2>3. CASE Miss /\ answer' = <<sought.key, Absent>>
    <3>1. answer' \in Key \X (Value \cup {Removed, Absent})
      BY <2>3, MissAbsent, EntryType
    <3> QED
      BY <1>2, <2>1, <3>1, ReturnKeeps
  <2> QED
    BY <1>3, <2>2, <2>3 DEF Get
<1>4. CASE Set
  <2>1. CASE Hit /\ Overwrite(Position, sought.value)
    <3>1. sought.value \in Value \cup {Removed}
      BY <2>1, LookingInside, EntryType DEF Hit
    <3>2. DictInv'
      BY <2>1, <3>1, WriteKeeps
    <3> QED
      BY <1>1, <1>2, <1>4, <3>2, ReturnKeeps DEF Set, CallType
  <2>2. CASE Miss /\ Add(sought)
    <3>1. DictInv'
      BY <1>1, <2>2, MissAbsent, AddKeeps
    <3> QED
      BY <1>1, <1>2, <1>4, <3>1, ReturnKeeps DEF Set, CallType
  <2> QED
    BY <1>4, <2>1, <2>2 DEF Set
<1>5. CASE Remove
  <2>1. DictInv'
    <3>1. CASE Hit /\ Overwrite(Position, Removed)
      BY <3>1, WriteKeeps
    <3>2. CASE UNCHANGED dict
      BY <1>1, <3>2 DEF dict, DictInv, Unique, Ordered, Fits
    <3> QED
      BY <1>5, <3>1, <3>2 DEF Remove
  <2> QED
    BY <1>1, <1>2, <1>5, <2>1, ReturnKeeps DEF Remove, CallType
<1> QED
  BY <1>3, <1>4, <1>5

(* What a merge knows between two of its pairs.                            *)
LEMMA MergeType ==
  ASSUME IInv, op \in {"keep", "override"}
  PROVE  /\ kvs \in Batch /\ kvs # <<>> /\ i \in Nat
         /\ Len(kvs) \in Nat /\ DOMAIN kvs = 1 .. Len(kvs)
         /\ i \in 1 .. Len(kvs) + 1
         /\ \A j \in 1 .. Len(kvs) : kvs[j] \in Entry
         /\ \A j, k \in 1 .. Len(kvs) : kvs[j].key = kvs[k].key => j = k
         /\ foundItems \subseteq 1 .. Len(kvs)
<1>1. CallType /\ Merging
  BY InvParts
<1>2. kvs \in Batch /\ kvs # <<>> /\ i \in Nat /\ i \in 1 .. Len(kvs) + 1
  BY <1>1 DEF Merging, CallType
<1>3. DOMAIN kvs = 1 .. Len(kvs)
  BY <1>2, BatchType, LenProperties
<1> QED
  BY <1>1, <1>2, <1>3, BatchType DEF CallType

(* The steps of a merge before its second loop.                            *)
LEMMA MergeStep ==
  ASSUME IInv, MergeEmpty \/ MergeLookup \/ MergeFound \/ MergeRest
  PROVE  IInv'
<1>1. DictInv /\ CallType /\ Excluded /\ Merging
  BY InvParts
<1>2. op \in {"keep", "override"}
  BY <1>1 DEF MergeEmpty, MergeLookup, MergeFound, MergeRest, Merging
<1>3. /\ kvs \in Batch /\ kvs # <<>> /\ i \in Nat
      /\ Len(kvs) \in Nat /\ DOMAIN kvs = 1 .. Len(kvs)
      /\ i \in 1 .. Len(kvs) + 1
      /\ \A j \in 1 .. Len(kvs) : kvs[j] \in Entry
      /\ \A j, k \in 1 .. Len(kvs) : kvs[j].key = kvs[k].key => j = k
      /\ foundItems \subseteq 1 .. Len(kvs)
  BY <1>2, MergeType
<1>4. CASE MergeEmpty
  <2>1. /\ kvs \in Seq(Entry) /\ Len(kvs) \in Nat \ {0}
    BY <1>3, BatchType
  <2>2. /\ items' \in Seq(Entry) /\ Len(items') = Len(kvs)
        /\ \A j, k \in 1 .. Len(kvs) : j < k => items'[j].key < items'[k].key
        /\ sortedData' = Len(kvs)
    BY <1>3, <1>4, <2>1, SortingKeeps DEF MergeEmpty
  <2>3. DOMAIN items' = 1 .. Len(kvs)
    BY <2>2, LenProperties
  <2>4. \A j \in 1 .. Len(kvs) : items'[j].key \in Int
    BY <2>2, ElementOfSeq, EntryType, KeyType
  <2>5. Unique'
    <3>1. ASSUME NEW j \in 1 .. Len(kvs), NEW k \in 1 .. Len(kvs), j # k
          PROVE  items'[j].key # items'[k].key
      <4>1. j < k \/ k < j
        BY <1>3, <3>1
      <4>2. \A a, b \in Int : a < b \/ b < a => a # b
        OBVIOUS
      <4>3. items'[j].key < items'[k].key \/ items'[k].key < items'[j].key
        BY <2>2, <4>1
      <4> QED
        BY <2>4, <4>2, <4>3
    <3> QED
      BY <2>3, <3>1 DEF Unique
  <2>6. Ordered'
    BY <2>2 DEF Ordered
  <2>7. capacity' \in Nat /\ Len(kvs) <= capacity'
    <3>1. Len(items) = 0
      BY <1>1, <1>4, DictType DEF MergeEmpty
    <3> QED
      BY <1>1, <1>3, <1>4, <3>1, RoomFits DEF MergeEmpty
  <2>8. Fits'
    BY <1>3, <2>2, <2>7, DictAssumption DEF Fits
  <2>9. DictInv'
    BY <1>3, <2>2, <2>5, <2>6, <2>7, <2>8 DEF DictInv
  <2> QED
    BY <1>1, <1>4, <2>9, ReturnKeeps DEF MergeEmpty, CallType
<1>5. CASE MergeLookup
  <2>1. /\ UNCHANGED <<items, sortedData, capacity, op, kvs, i, foundItems, answer>>
        /\ Seek(kvs[i]) /\ pc = "merge" /\ items # <<>> /\ i \in 1 .. Len(kvs)
    BY <1>3, <1>5 DEF MergeLookup, dict, merge
  <2>2. kvs[i] \in Entry /\ pc' = "probe" /\ sought' = kvs[i]
    BY <1>3, <2>1 DEF Seek
  <2>3. DictInv'
    BY <1>1, <2>1 DEF DictInv, Unique, Ordered, Fits
  <2>4. Excluded' /\ sought' \in Entry \cup {<<>>} /\ min' \in Nat /\ max' \in Nat
    BY <1>1, <1>2, <2>1, <2>2, SeekExcludes DEF dict
  <2>5. CallType'
    BY <1>1, <2>1, <2>2, <2>4 DEF CallType
  <2>6. Merging'
    BY <1>1, <1>2, <2>1, <2>2 DEF Merging, Keys
  <2> QED
    BY <2>3, <2>4, <2>5, <2>6, InvPartsNext
<1>6. CASE MergeFound
  <2>1. /\ pc \in {"probe", "scan"} /\ pc' = "merge"
        /\ UNCHANGED <<op, kvs, answer>> /\ i' = i + 1
        /\ sought' = <<>> /\ min' = 0 /\ max' = 0
    BY <1>6 DEF MergeFound, Hit, Looking, Miss
  <2>2. i <= Len(kvs) /\ sought = kvs[i] /\ i \in 1 .. Len(kvs)
    BY <1>1, <1>2, <1>3, <2>1 DEF Merging
  <2>3. /\ DictInv' /\ Keys' = Keys /\ foundItems' \subseteq 1 .. i
        /\ \A j \in 1 .. i : j \in foundItems' <=> kvs[j].key \in Keys
    <3>1. foundItems \subseteq 1 .. i - 1
      BY <1>1, <1>2, <2>1 DEF Merging
    <3>2. \A j \in 1 .. i - 1 : j \in foundItems <=> kvs[j].key \in Keys
      BY <1>1, <1>2, <1>3, <2>1 DEF Merging
    <3>3. \A j \in 1 .. i : j = i \/ j \in 1 .. i - 1
      BY <1>3
    <3>4. i \notin 1 .. i - 1 /\ 1 .. i - 1 \subseteq 1 .. i
      BY <1>3
    <3>5. CASE Hit /\ foundItems' = foundItems \cup {i}
      <4>1. DictInv' /\ Keys' = Keys
        <5>1. CASE Overwrite(Position, sought.value)
          <6>1. sought.value \in Value \cup {Removed}
            BY <3>5, LookingInside, EntryType DEF Hit
          <6> QED
            BY <3>5, <5>1, <6>1, WriteKeeps
        <5>2. CASE UNCHANGED dict
          BY <1>1, <5>2 DEF dict, DictInv, Unique, Ordered, Fits, Keys
        <5>3. Overwrite(Position, sought.value) \/ UNCHANGED dict
          BY <1>6 DEF MergeFound, Miss
        <5> QED
          BY <5>1, <5>2, <5>3
      <4>2. kvs[i].key \in Keys
        <5>1. Position \in 1 .. Len(items) /\ items[Position].key = sought.key
          BY <3>5, LookingInside DEF Hit
        <5> QED
          BY <1>1, <2>2, <5>1, DictType DEF Keys
      <4> QED
        BY <1>3, <3>1, <3>2, <3>3, <3>4, <3>5, <4>1, <4>2
    <3>6. CASE Miss /\ UNCHANGED <<foundItems, dict>>
      <4>1. DictInv' /\ Keys' = Keys
        BY <1>1, <3>6 DEF dict, DictInv, Unique, Ordered, Fits, Keys
      <4>2. kvs[i].key \notin Keys
        BY <2>2, <3>6, MissAbsent
      <4> QED
        BY <1>3, <3>1, <3>2, <3>3, <3>4, <3>6, <4>1, <4>2
    <3> QED
      BY <1>6, <3>5, <3>6 DEF MergeFound
  <2>4. 1 .. i \subseteq 1 .. Len(kvs) /\ i' \in 1 .. Len(kvs) + 1 /\ i' - 1 = i
    BY <1>3, <2>1, <2>2
  <2>5. CallType'
    BY <1>1, <1>3, <2>1, <2>3, <2>4 DEF CallType
  <2>6. Excluded'
    BY <2>1 DEF Excluded
  <2>7. Merging'
    <3>1. \A j \in DOMAIN kvs : j < i' => j \in 1 .. i
      BY <1>3, <2>1, <2>2
    <3> QED
      BY <1>2, <1>3, <2>1, <2>3, <2>4, <3>1 DEF Merging
  <2> QED
    BY <2>3, <2>5, <2>6, <2>7, InvPartsNext
<1>7. CASE MergeRest
  <2>1. /\ UNCHANGED <<items, sortedData, capacity, op, sought, min, max>>
        /\ UNCHANGED <<kvs, foundItems, answer>>
        /\ pc = "merge" /\ pc' = "rest" /\ i' = 1 /\ items # <<>> /\ i > Len(kvs)
    BY <1>7 DEF MergeRest, dict, search
  <2>2. DictInv'
    BY <1>1, <2>1 DEF DictInv, Unique, Ordered, Fits
  <2>3. CallType'
    BY <1>1, <1>3, <2>1 DEF CallType
  <2>4. Excluded'
    BY <2>1 DEF Excluded
  <2>5. Merging'
    <3>1. \A j \in DOMAIN kvs : j < i /\ ~(j < 1)
      BY <1>3, <2>1
    <3>2. \A j \in DOMAIN kvs : kvs[j].key \in Keys <=> j \in foundItems
      BY <1>1, <1>2, <2>1, <3>1 DEF Merging
    <3>3. Keys' = Keys
      BY <2>1 DEF Keys
    <3>4. 1 \in 1 .. Len(kvs) + 1
      BY <1>3
    <3> QED
      BY <1>2, <1>3, <2>1, <3>1, <3>2, <3>3, <3>4 DEF Merging
  <2> QED
    BY <2>2, <2>3, <2>4, <2>5, InvPartsNext
<1> QED
  BY <1>4, <1>5, <1>6, <1>7

(* The second loop: what was not found is added once.                      *)
LEMMA RestStep ==
  ASSUME IInv, MergeAdd \/ MergeEnd
  PROVE  IInv'
<1>1. DictInv /\ CallType /\ Excluded /\ Merging
  BY InvParts
<1>2. pc = "rest" /\ op \in {"keep", "override"}
  BY <1>1 DEF MergeAdd, MergeEnd, Merging
<1>3. /\ kvs \in Batch /\ kvs # <<>> /\ i \in Nat
      /\ Len(kvs) \in Nat /\ DOMAIN kvs = 1 .. Len(kvs)
      /\ i \in 1 .. Len(kvs) + 1
      /\ \A j \in 1 .. Len(kvs) : kvs[j] \in Entry
      /\ \A j, k \in 1 .. Len(kvs) : kvs[j].key = kvs[k].key => j = k
      /\ foundItems \subseteq 1 .. Len(kvs)
  BY <1>2, MergeType
<1>4. /\ items # <<>>
      /\ \A j \in 1 .. Len(kvs) : kvs[j].key \in Keys <=> j \in foundItems \/ j < i
  BY <1>1, <1>2, <1>3 DEF Merging
<1>5. CASE MergeAdd
  <2>1. /\ UNCHANGED <<op, pc, sought, min, max, kvs, foundItems, answer>>
        /\ i' = i + 1 /\ i \in 1 .. Len(kvs)
    BY <1>3, <1>5 DEF MergeAdd, search
  <2>2. /\ DictInv' /\ items' # <<>>
        /\ Keys' = Keys \cup {kvs[i].key}
    <3>1. CASE i \in foundItems
      <4>1. UNCHANGED <<items, sortedData, capacity>>
        BY <1>5, <3>1 DEF MergeAdd, dict
      <4>2. kvs[i].key \in Keys
        BY <1>4, <2>1, <3>1
      <4>3. DictInv'
        BY <1>1, <4>1 DEF DictInv, Unique, Ordered, Fits
      <4>4. Keys' = Keys
        BY <4>1 DEF Keys
      <4> QED
        BY <1>4, <4>1, <4>2, <4>3, <4>4
    <3>2. CASE i \notin foundItems
      <4>1. Add(kvs[i]) /\ kvs[i] \in Entry /\ kvs[i].key \notin Keys
        BY <1>3, <1>4, <1>5, <2>1, <3>2 DEF MergeAdd
      <4>2. /\ DictInv'
            /\ Len(items') = Len(items) + 1
            /\ \A j \in 1 .. Len(items) : \E k \in 1 .. Len(items') : items'[k] = items[j]
            /\ \E k \in 1 .. Len(items') : items'[k] = kvs[i]
            /\ \A k \in 1 .. Len(items') :
                 items'[k] = kvs[i] \/ \E j \in 1 .. Len(items) : items'[k] = items[j]
        BY <1>1, <4>1, AddKeeps
      <4>3. DOMAIN items = 1 .. Len(items) /\ DOMAIN items' = 1 .. Len(items') /\ Len(items) \in Nat
        BY <1>1, <4>2, LenProperties DEF DictInv
      <4>4. ASSUME NEW x \in Keys' PROVE x \in Keys \cup {kvs[i].key}
        <5>1. PICK k \in 1 .. Len(items') : x = items'[k].key
          BY <4>3 DEF Keys
        <5>2. items'[k] = kvs[i] \/ \E j \in 1 .. Len(items) : items'[k] = items[j]
          BY <4>2
        <5> QED
          BY <4>3, <5>1, <5>2 DEF Keys
      <4>5. Keys \subseteq Keys' /\ kvs[i].key \in Keys'
        <5>1. ASSUME NEW x \in Keys PROVE x \in Keys'
          <6>1. PICK j \in 1 .. Len(items) : x = items[j].key
            BY <4>3 DEF Keys
          <6>2. PICK k \in 1 .. Len(items') : items'[k] = items[j]
            BY <4>2
          <6> QED
            BY <4>3, <6>1, <6>2 DEF Keys
        <5>2. kvs[i].key \in Keys'
          BY <4>2, <4>3 DEF Keys
        <5> QED
          BY <5>1, <5>2
      <4>6. items' # <<>>
        BY <4>2, <4>3, EmptySeq
      <4> QED
        BY <4>2, <4>4, <4>5, <4>6
    <3> QED
      BY <3>1, <3>2
  <2>3. i' \in 1 .. Len(kvs) + 1 /\ i' \in Nat
    BY <1>3, <2>1
  <2>4. CallType'
    BY <1>1, <2>1, <2>3 DEF CallType
  <2>5. Excluded'
    BY <1>2, <2>1 DEF Excluded
  <2>6. Merging'
    <3>1. ASSUME NEW j \in 1 .. Len(kvs)
          PROVE  kvs[j].key \in Keys' <=> j \in foundItems \/ j < i'
      <4>1. j < i + 1 <=> j < i \/ j = i
        BY <1>3, <2>1
      <4>2. kvs[j].key = kvs[i].key => j = i
        BY <1>3, <2>1
      <4> QED
        BY <1>4, <2>1, <2>2, <4>1, <4>2
    <3> QED
      BY <1>2, <1>3, <2>1, <2>2, <2>3, <3>1 DEF Merging
  <2> QED
    BY <2>2, <2>4, <2>5, <2>6, InvPartsNext
<1>6. CASE MergeEnd
  <2>1. DictInv'
    BY <1>1, <1>6 DEF MergeEnd, dict, DictInv, Unique, Ordered, Fits
  <2> QED
    BY <1>1, <1>6, <2>1, ReturnKeeps DEF MergeEnd, CallType
<1> QED
  BY <1>5, <1>6

(* The start of a call.                                                    *)
LEMMA StartStep ==
  ASSUME IInv,
         \/ \E o \in {"get", "set", "remove"}, e \in Entry :
              (o = "set" => e.value \in Value) /\ Call(o, e)
         \/ \E o \in {"keep", "override"}, b \in Batch : CallMerge(o, b)
  PROVE  IInv'
<1>1. DictInv /\ CallType /\ Excluded /\ Merging
  BY InvParts
<1>2. UNCHANGED <<items, sortedData, capacity>> /\ pc = "idle" /\ op = "none"
  BY <1>1 DEF Call, CallMerge, dict, Merging
<1>3. DictInv'
  BY <1>1, <1>2 DEF DictInv, Unique, Ordered, Fits
<1>4. ASSUME NEW o \in {"get", "set", "remove"}, NEW e \in Entry, Call(o, e),
             o = "set" => e.value \in Value
      PROVE  IInv'
  <2>1. /\ op' = o /\ Seek(e) /\ answer' = <<>> /\ pc' = "probe"
        /\ UNCHANGED <<kvs, i, foundItems>>
    BY <1>4 DEF Call, Seek, merge
  <2>2. Excluded' /\ sought' \in Entry \cup {<<>>} /\ min' \in Nat /\ max' \in Nat
    BY <1>1, <1>2, <1>4, <2>1, SeekExcludes DEF dict
  <2>3. CallType'
    BY <1>1, <2>1, <2>2 DEF CallType
  <2>4. Merging'
    BY <1>1, <1>2, <2>1 DEF Merging
  <2> QED
    BY <1>3, <2>2, <2>3, <2>4, InvPartsNext
<1>5. ASSUME NEW o \in {"keep", "override"}, NEW b \in Batch, CallMerge(o, b)
      PROVE  IInv'
  <2>1. /\ op' = o /\ pc' = "merge" /\ kvs' = b /\ answer' = <<>>
        /\ UNCHANGED <<sought, min, max, i, foundItems>>
    BY <1>5 DEF CallMerge, search
  <2>2. i = 1 /\ foundItems = {}
    BY <1>1, <1>2 DEF Merging
  <2>3. b \in Seq(Entry) /\ b # <<>> /\ Len(b) \in Nat \ {0}
    BY BatchType
  <2>4. CallType'
    BY <1>1, <2>1, <2>2 DEF CallType
  <2>5. Excluded'
    BY <2>1 DEF Excluded
  <2>6. Merging'
    <3>1. DOMAIN b = 1 .. Len(b)
      BY <2>3, LenProperties
    <3> QED
      BY <2>1, <2>2, <2>3, <3>1 DEF Merging
  <2> QED
    BY <1>3, <2>4, <2>5, <2>6, InvPartsNext
<1> QED
  BY <1>4, <1>5

(* Every step keeps the invariant.                                         *)
LEMMA InvStep == IInv /\ [Next]_vars => IInv'
<1> SUFFICES ASSUME IInv, [Next]_vars PROVE IInv'
  OBVIOUS
<1>1. ASSUME NEW k \in Key, NEW v \in Value, Call("set", [key |-> k, value |-> v])
      PROVE  IInv'
  BY <1>1, EntryType, StartStep
<1>2. ASSUME NEW k \in Key, NEW o \in {"get", "remove"},
             Call(o, [key |-> k, value |-> Removed])
      PROVE  IInv'
  BY <1>2, EntryType, StartStep
<1>3. CASE Probe \/ LeaveSorted \/ Scan
  BY <1>3, SearchStep
<1>4. CASE Get \/ Set \/ Remove
  BY <1>4, CallStep
<1>5. CASE \E o \in {"keep", "override"}, b \in Batch : CallMerge(o, b)
  BY <1>5, StartStep
<1>6. CASE MergeEmpty \/ MergeLookup \/ MergeFound \/ MergeRest
  BY <1>6, MergeStep
<1>7. CASE MergeAdd \/ MergeEnd
  BY <1>7, RestStep
<1>8. CASE UNCHANGED vars
  BY <1>8 DEF vars, dict, search, merge, IInv, TypeOK, Unique, Ordered, Fits, Excluded,
                 Merging, Keys
<1> QED
  BY <1>1, <1>2, <1>3, <1>4, <1>5, <1>6, <1>7, <1>8 DEF Next

LEMMA InvInit == Init => IInv
<1> SUFFICES ASSUME Init PROVE IInv
  OBVIOUS
<1>1. items \in Seq(Entry) /\ Len(items) = 0 /\ DOMAIN items = {}
  BY EmptySeq DEF Init
<1>2. DictInv
  BY <1>1, DictAssumption DEF Init, DictInv, Unique, Ordered, Fits
<1>3. CallType /\ Excluded /\ Merging
  BY DEF Init, CallType, Excluded, Merging
<1> QED
  BY <1>2, <1>3, InvParts

(* The array is sorted in front, holds a key once and never more than      *)
(* there is room for, and a search under way has excluded what it has      *)
(* passed, whatever was set, removed and merged before                     *)
(* (KDict_Add, KDict_GetNULL, KDict_MergeData).                            *)
THEOREM SearchIsSound == Spec => []IInv
BY InvInit, InvStep, PTL DEF Spec

----------------------------------------------------------------------------
(* The map.                                                                *)

(* What the map holds of a key is what the one pair of that key holds.     *)
LEMMA ContentReads ==
  ASSUME DictInv
  PROVE  /\ DOMAIN Content = Key
         /\ \A j \in 1 .. Len(items) : Content[items[j].key] = items[j].value
         /\ \A k \in Key : k \notin Keys => Content[k] = Absent
<1>1. /\ DOMAIN items = 1 .. Len(items)
      /\ \A j \in 1 .. Len(items) : items[j].key \in Key
      /\ \A j, k \in 1 .. Len(items) : items[j].key = items[k].key => j = k
  BY DictType, EntryType
<1>2. ASSUME NEW j \in 1 .. Len(items) PROVE Content[items[j].key] = items[j].value
  <2>1. items[j].key \in Keys
    BY <1>1 DEF Keys
  <2>2. (CHOOSE l \in DOMAIN items : items[l].key = items[j].key) = j
    BY <1>1
  <2> QED
    BY <1>1, <2>1, <2>2 DEF Content
<1> QED
  BY <1>2 DEF Content

LEMMA ContentReadsNext ==
  ASSUME DictInv'
  PROVE  /\ DOMAIN Content' = Key
         /\ \A j \in 1 .. Len(items') : Content'[items'[j].key] = items'[j].value
         /\ \A k \in Key : k \notin Keys' => Content'[k] = Absent
<1>1. /\ DOMAIN items' = 1 .. Len(items')
      /\ \A j \in 1 .. Len(items') : items'[j].key \in Key
      /\ \A j, k \in 1 .. Len(items') : items'[j].key = items'[k].key => j = k
  <2>1. items' \in Seq(Entry) /\ Unique'
    BY DEF DictInv
  <2> QED
    BY <2>1, LenProperties, ElementOfSeq, EntryType DEF Unique
<1>2. ASSUME NEW j \in 1 .. Len(items') PROVE Content'[items'[j].key] = items'[j].value
  <2>1. items'[j].key \in Keys'
    BY <1>1 DEF Keys
  <2>2. (CHOOSE l \in DOMAIN items' : items'[l].key = items'[j].key) = j
    BY <1>1
  <2> QED
    BY <1>1, <2>1, <2>2 DEF Content
<1> QED
  BY <1>2 DEF Content

(* An Overwrite puts the value under the key of its pair.                  *)
LEMMA WritePuts ==
  ASSUME IInv, Hit, NEW v \in Value \cup {Removed}, Overwrite(Position, v)
  PROVE  Content' = [Content EXCEPT ![sought.key] = v]
<1>1. DictInv /\ Position \in 1 .. Len(items) /\ items[Position].key = sought.key
  BY InvParts, LookingInside DEF Hit
<1>2. /\ DictInv'
      /\ Len(items') = Len(items)
      /\ \A k \in 1 .. Len(items) : items'[k].key = items[k].key
      /\ \A k \in 1 .. Len(items) :
           items'[k].value = IF k = Position THEN v ELSE items[k].value
  BY <1>1, OverwriteKeeps
<1>3. Keys' = Keys
  BY WriteKeeps
<1>4. DOMAIN items = 1 .. Len(items)
      /\ \A j, k \in 1 .. Len(items) : items[j].key = items[k].key => j = k
  BY <1>1, DictType
<1>5. /\ DOMAIN Content = Key /\ DOMAIN Content' = Key
      /\ \A j \in 1 .. Len(items) : Content[items[j].key] = items[j].value
      /\ \A j \in 1 .. Len(items) : Content'[items[j].key] = items'[j].value
      /\ \A k \in Key : k \notin Keys => Content[k] = Absent /\ Content'[k] = Absent
  BY <1>1, <1>2, <1>3, ContentReads, ContentReadsNext
<1>6. ASSUME NEW k \in Key
      PROVE  Content'[k] = IF k = sought.key THEN v ELSE Content[k]
  <2>1. CASE k \in Keys
    <3>1. PICK j \in 1 .. Len(items) : k = items[j].key
      BY <1>4, <2>1 DEF Keys
    <3>2. k = sought.key <=> j = Position
      BY <1>1, <1>4, <3>1
    <3> QED
      BY <1>2, <1>5, <3>1, <3>2
  <2>2. CASE k \notin Keys
    <3>1. k # sought.key
      BY <1>1, <1>4, <2>2 DEF Keys
    <3> QED
      BY <1>5, <2>2, <3>1
  <2> QED
    BY <2>1, <2>2
<1>7. Content = [k \in Key |-> Content[k]] /\ Content' = [k \in Key |-> Content'[k]]
  BY DEF Content
<1> QED
  BY <1>6, <1>7

(* An Add puts the value under its key, sorted or not.                     *)
LEMMA AddPuts ==
  ASSUME DictInv, NEW e \in Entry, e.key \notin Keys, Add(e)
  PROVE  /\ Content' = [Content EXCEPT ![e.key] = e.value]
         /\ Content[e.key] = Absent
<1>1. /\ DictInv'
      /\ \A j \in 1 .. Len(items) : \E k \in 1 .. Len(items') : items'[k] = items[j]
      /\ \E k \in 1 .. Len(items') : items'[k] = e
      /\ \A k \in 1 .. Len(items') :
           items'[k] = e \/ \E j \in 1 .. Len(items) : items'[k] = items[j]
  BY AddKeeps
<1>2. DOMAIN items = 1 .. Len(items) /\ DOMAIN items' = 1 .. Len(items')
  BY <1>1, LenProperties DEF DictInv
<1>3. /\ \A j \in 1 .. Len(items) : Content[items[j].key] = items[j].value
      /\ \A j \in 1 .. Len(items') : Content'[items'[j].key] = items'[j].value
      /\ \A k \in Key : k \notin Keys => Content[k] = Absent
      /\ \A k \in Key : k \notin Keys' => Content'[k] = Absent
  BY <1>1, ContentReads, ContentReadsNext
<1>4. e.key \in Key
  BY EntryType
<1>5. Content'[e.key] = e.value
  BY <1>1, <1>3
<1>6. ASSUME NEW k \in Key, k # e.key PROVE Content'[k] = Content[k]
  <2>1. CASE k \in Keys
    <3>1. PICK j \in 1 .. Len(items) : k = items[j].key
      BY <1>2, <2>1 DEF Keys
    <3>2. PICK l \in 1 .. Len(items') : items'[l] = items[j]
      BY <1>1
    <3> QED
      BY <1>3, <3>1, <3>2
  <2>2. CASE k \notin Keys
    <3>1. k \notin Keys'
      <4>1. SUFFICES ASSUME k \in Keys' PROVE FALSE
        OBVIOUS
      <4>2. PICK l \in 1 .. Len(items') : k = items'[l].key
        BY <1>2, <4>1 DEF Keys
      <4>3. PICK j \in 1 .. Len(items) : items'[l] = items[j]
        BY <1>1, <1>6, <4>2
      <4> QED
        BY <1>2, <2>2, <4>2, <4>3 DEF Keys
    <3> QED
      BY <1>3, <2>2, <3>1
  <2> QED
    BY <2>1, <2>2
<1>7. Content = [k \in Key |-> Content[k]] /\ Content' = [k \in Key |-> Content'[k]]
  BY DEF Content
<1> QED
  BY <1>3, <1>4, <1>5, <1>6, <1>7

(* The pairs a merge has still to see to.                                  *)
LEMMA PendingReads ==
  ASSUME IInv, op \in {"keep", "override"}
  PROVE  /\ DOMAIN Pending = {kvs[j].key : j \in Open}
         /\ \A j \in Open : j \in 1 .. Len(kvs) /\ Pending[kvs[j].key] = kvs[j].value
<1>1. /\ DOMAIN kvs = 1 .. Len(kvs) /\ Len(kvs) \in Nat /\ i \in 1 .. Len(kvs) + 1
      /\ \A j, k \in 1 .. Len(kvs) : kvs[j].key = kvs[k].key => j = k
  BY MergeType
<1>2. Open \subseteq 1 .. Len(kvs)
  BY <1>1 DEF Open
<1>3. ASSUME NEW j \in Open PROVE Pending[kvs[j].key] = kvs[j].value
  <2>1. (CHOOSE l \in Open : kvs[l].key = kvs[j].key) = j
    BY <1>1, <1>2
  <2> QED
    BY <2>1 DEF Pending
<1> QED
  BY <1>2, <1>3 DEF Pending

(* No pair is pending outside a merge.                                     *)
LEMMA NothingPending ==
  /\ Open = {} => Pending = Map!NoPairs
  /\ Open' = {} => Pending' = Map!NoPairs
  /\ op \notin {"keep", "override"} => Open = {}
  /\ op' \notin {"keep", "override"} => Open' = {}
<1>1. ASSUME Open = {} PROVE Pending = Map!NoPairs
  <2>1. {kvs[j].key : j \in Open} = {}
    BY <1>1
  <2> QED
    BY <2>1 DEF Pending, Map!NoPairs
<1>2. ASSUME Open' = {} PROVE Pending' = Map!NoPairs
  <2>1. {kvs'[j].key : j \in Open'} = {}
    BY <1>2
  <2> QED
    BY <2>1 DEF Pending, Map!NoPairs
<1> QED
  BY <1>1, <1>2 DEF Open

(* The pairs that are left when Open loses one of its positions.           *)
LEMMA PendingShrinks ==
  ASSUME IInv, IInv', op \in {"keep", "override"}, NEW j \in Open,
         UNCHANGED <<op, kvs>>, Open' = Open \ {j}
  PROVE  /\ kvs[j].key \in DOMAIN Pending /\ Pending[kvs[j].key] = kvs[j].value
         /\ Pending' = [k \in DOMAIN Pending \ {kvs[j].key} |-> Pending[k]]
<1>1. /\ DOMAIN kvs = 1 .. Len(kvs) /\ Len(kvs) \in Nat /\ i \in 1 .. Len(kvs) + 1
      /\ \A l, k \in 1 .. Len(kvs) : kvs[l].key = kvs[k].key => l = k
  BY MergeType
<1>2. /\ DOMAIN Pending = {kvs[l].key : l \in Open}
      /\ \A l \in Open : l \in 1 .. Len(kvs) /\ Pending[kvs[l].key] = kvs[l].value
  BY PendingReads
<1>3. {kvs[l].key : l \in Open'} = DOMAIN Pending \ {kvs[j].key}
  BY <1>1, <1>2
<1>4. Pending' = [k \in DOMAIN Pending \ {kvs[j].key} |->
                    kvs[CHOOSE l \in Open' : kvs[l].key = k].value]
  BY <1>3 DEF Pending
<1>5. ASSUME NEW k \in DOMAIN Pending \ {kvs[j].key}
      PROVE  kvs[CHOOSE l \in Open' : kvs[l].key = k].value = Pending[k]
  <2>1. PICK m \in Open' : k = kvs[m].key
    BY <1>3
  <2>2. m \in Open
    BY <2>1
  <2>3. (CHOOSE l \in Open' : kvs[l].key = k) = m
    BY <1>1, <1>2, <2>1
  <2> QED
    BY <1>2, <2>1, <2>2, <2>3
<1> QED
  BY <1>2, <1>4, <1>5

(* Steps that change neither the array, nor which merge is under way and   *)
(* what it has done, are invisible.                                        *)
LEMMA SilentStep ==
  ASSUME UNCHANGED <<items, op, kvs, answer>>, Open' = Open
  PROVE  UNCHANGED Map!vars
BY DEF Map!vars, Content, Keys, Mode, Pending

(* A call that is not a merge, and the steps of its search.                *)
LEMMA LookupRefines ==
  ASSUME IInv, IInv',
         \/ \E o \in {"get", "set", "remove"}, e \in Entry : Call(o, e)
         \/ Probe \/ LeaveSorted \/ Scan
  PROVE  [Map!Next]_(Map!vars)
<1>1. CallType /\ Merging
  BY InvParts
<1>2. CASE \E o \in {"get", "set", "remove"}, e \in Entry : Call(o, e)
  <2>1. /\ op = "none" /\ op' \in {"get", "set", "remove"} /\ answer' = <<>>
        /\ UNCHANGED items
    BY <1>1, <1>2 DEF Call, Merging, dict
  <2>2. Pending = Map!NoPairs /\ Pending' = Map!NoPairs
    BY <2>1, NothingPending
  <2>3. Mode = "none" /\ Mode' = "none"
    BY <2>1 DEF Mode
  <2>4. Content' = Content
    BY <2>1 DEF Content, Keys
  <2>5. Map!Forget
    BY <2>1, <2>2, <2>3, <2>4 DEF Map!Forget
  <2> QED
    BY <2>5 DEF Map!Next
<1>3. CASE Probe \/ LeaveSorted \/ Scan
  <2>1. UNCHANGED <<items, op, kvs, foundItems, answer>> /\ pc # "rest" /\ pc' # "rest"
    BY <1>3 DEF Probe, LeaveSorted, Scan, dict, merge
  <2>2. Open' = Open
    BY <2>1 DEF Open
  <2> QED
    BY <2>1, <2>2, SilentStep
<1> QED
  BY <1>2, <1>3

(* The ends of a Get, a Set and a Remove.                                  *)
LEMMA ReturnRefines ==
  ASSUME IInv, IInv', Get \/ Set \/ Remove
  PROVE  [Map!Next]_(Map!vars)
<1>1. DictInv /\ CallType /\ Excluded
  BY InvParts
<1>2. op \in {"get", "set", "remove"} /\ op' = "none"
  BY DEF Get, Set, Remove, Return
<1>3. Mode = "none" /\ Mode' = "none"
  BY <1>2 DEF Mode
<1>4. Pending = Map!NoPairs /\ Pending' = Map!NoPairs
  BY <1>2, NothingPending
<1>5. /\ DOMAIN items = 1 .. Len(items)
      /\ \A j \in 1 .. Len(items) : items[j] \in Entry
  BY <1>1, DictType
<1>6. /\ \A j \in 1 .. Len(items) : Content[items[j].key] = items[j].value
      /\ \A k \in Key : k \notin Keys => Content[k] = Absent
  BY <1>1, ContentReads
<1>7. /\ Hit => /\ sought \in Entry /\ sought.key \in Key
                /\ Position \in 1 .. Len(items)
                /\ Content[sought.key] = items[Position].value
                /\ Content[sought.key] \in Value \cup {Removed}
      /\ Miss => /\ sought \in Entry /\ sought.key \in Key /\ sought.key \notin Keys
                 /\ Content[sought.key] = Absent
  <2>1. CASE Hit
    <3>1. Position \in 1 .. Len(items) /\ sought \in Entry /\ items[Position].key = sought.key
      BY <2>1, LookingInside DEF Hit
    <3>2. items[Position] \in Entry /\ Content[items[Position].key] = items[Position].value
      BY <1>5, <1>6, <3>1
    <3>3. ~Miss
      BY <2>1, <1>1 DEF Hit, Looking, Miss, CallType, DictInv
    <3> QED
      BY <3>1, <3>2, <3>3, EntryType
  <2>2. CASE Miss
    BY <1>6, <2>2, MissAbsent, EntryType DEF Hit, Looking, Miss
  <2> QED
    BY <2>1, <2>2
<1>8. CASE Get
  <2>1. Content' = Content
    BY <1>8 DEF Get, dict, Content, Keys
  <2>2. sought.key \in Key /\ answer' = <<sought.key, Content[sought.key]>>
    BY <1>7, <1>8 DEF Get
  <2>3. Map!Lookup(sought.key)
    BY <1>3, <1>4, <2>1, <2>2 DEF Map!Lookup
  <2> QED
    BY <2>2, <2>3 DEF Map!Next
<1>9. CASE Set
  <2>1. sought.key \in Key /\ sought \in Entry
    BY <1>7, <1>9 DEF Set
  <2>2. sought.value \in Value
    <3>1. pc \in {"probe", "scan"} /\ op = "set"
      BY <1>9 DEF Set, Hit, Looking, Miss
    <3> QED
      BY <1>1, <3>1 DEF Excluded
  <2>3. Content' = [Content EXCEPT ![sought.key] = sought.value]
    <3>1. CASE Hit /\ Overwrite(Position, sought.value)
      BY <2>2, <3>1, WritePuts
    <3>2. CASE Miss /\ Add(sought)
      BY <1>1, <1>7, <3>2, AddPuts
    <3> QED
      BY <1>9, <3>1, <3>2 DEF Set
  <2>4. answer' = answer
    BY <1>9 DEF Set
  <2>5. Map!Put(sought.key, sought.value)
    BY <1>3, <1>4, <2>3, <2>4 DEF Map!Put
  <2> QED
    BY <2>1, <2>2, <2>5 DEF Map!Next
<1>10. CASE Remove
  <2>1. answer' = answer
    BY <1>10 DEF Remove
  <2>2. CASE Hit /\ Overwrite(Position, Removed)
    <3>1. Content' = [Content EXCEPT ![sought.key] = Removed]
      BY <2>2, WritePuts
    <3>2. sought.key \in Key /\ Content[sought.key] # Absent
      BY <1>7, <2>2, DictAssumption
    <3>3. Map!Delete(sought.key)
      BY <1>3, <1>4, <2>1, <3>1, <3>2 DEF Map!Delete
    <3> QED
      BY <3>2, <3>3 DEF Map!Next
  <2>3. CASE UNCHANGED dict
    <3>1. Content' = Content
      BY <2>3 DEF dict, Content, Keys
    <3> QED
      BY <1>3, <1>4, <2>1, <3>1 DEF Map!vars
  <2> QED
    BY <1>10, <2>2, <2>3 DEF Remove
<1> QED
  BY <1>8, <1>9, <1>10

(* The steps of a merge.  A pair that is there is dropped, or put over     *)
(* what is there; one that is not there is added by the second loop.       *)
LEMMA MergeRefines ==
  ASSUME IInv, IInv',
         \/ \E o \in {"keep", "override"}, b \in Batch : CallMerge(o, b)
         \/ MergeEmpty \/ MergeLookup \/ MergeFound \/ MergeRest \/ MergeAdd \/ MergeEnd
  PROVE  [Map!Next]_(Map!vars)
<1>1. DictInv /\ CallType /\ Excluded /\ Merging
  BY InvParts
<1>2. ASSUME NEW o \in {"keep", "override"}, NEW b \in Batch, CallMerge(o, b)
      PROVE  [Map!Next]_(Map!vars)
  <2>1. /\ op = "none" /\ op' = o /\ kvs' = b /\ answer' = <<>> /\ pc' = "merge"
        /\ UNCHANGED items
    BY <1>1, <1>2 DEF CallMerge, Merging, dict
  <2>2. Mode = "none" /\ Mode' = o
    BY <2>1 DEF Mode
  <2>3. Content' = Content
    BY <2>1 DEF Content, Keys
  <2>4. /\ \A j \in 1 .. Len(b) : b[j] \in Entry /\ b[j].value \in Value
        /\ \A j, k \in 1 .. Len(b) : b[j].key = b[k].key => j = k
        /\ DOMAIN b = 1 .. Len(b)
    BY BatchType, LenProperties
  <2> DEFINE K == {b[j].key : j \in Open'}
  <2>5. Open' \subseteq 1 .. Len(b)
    BY <2>1, <2>4 DEF Open
  <2>6. K \subseteq Key
    BY <2>4, <2>5, EntryType
  <2>7. Pending' = [k \in K |-> b[CHOOSE j \in Open' : b[j].key = k].value]
    BY <2>1 DEF Pending
  <2>8. ASSUME NEW k \in K PROVE b[CHOOSE j \in Open' : b[j].key = k].value \in Value
    <3>1. \E j \in Open' : b[j].key = k
      OBVIOUS
    <3>2. (CHOOSE j \in Open' : b[j].key = k) \in Open'
      BY <3>1
    <3> QED
      BY <2>4, <2>5, <3>2
  <2>9. Pending' \in [K -> Value]
    BY <2>7, <2>8
  <2>10. Map!BeginMerge
    BY <2>1, <2>2, <2>3, <2>6, <2>9 DEF Map!BeginMerge
  <2> QED
    BY <2>10 DEF Map!Next
<1>3. ASSUME op \in {"keep", "override"}
      PROVE  /\ DOMAIN kvs = 1 .. Len(kvs) /\ Len(kvs) \in Nat
             /\ i \in Nat /\ i \in 1 .. Len(kvs) + 1
             /\ \A j \in 1 .. Len(kvs) : kvs[j] \in Entry
             /\ \A j, k \in 1 .. Len(kvs) : kvs[j].key = kvs[k].key => j = k
             /\ foundItems \subseteq 1 .. Len(kvs)
             /\ Mode = op /\ Mode # "none"
             /\ pc # "rest" => foundItems \subseteq 1 .. i - 1
             /\ \A j \in 1 .. Len(kvs) : pc # "rest" /\ j < i =>
                  (kvs[j].key \in Keys <=> j \in foundItems)
             /\ \A j \in 1 .. Len(kvs) : pc = "rest" =>
                  (kvs[j].key \in Keys <=> j \in foundItems \/ j < i)
  <2>1. /\ DOMAIN kvs = 1 .. Len(kvs) /\ Len(kvs) \in Nat
        /\ i \in Nat /\ i \in 1 .. Len(kvs) + 1
        /\ \A j \in 1 .. Len(kvs) : kvs[j] \in Entry
        /\ \A j, k \in 1 .. Len(kvs) : kvs[j].key = kvs[k].key => j = k
        /\ foundItems \subseteq 1 .. Len(kvs)
    BY <1>3, MergeType
  <2>2. Mode = op /\ Mode # "none"
    BY <1>3 DEF Mode
  <2> QED
    BY <1>1, <1>3, <2>1, <2>2 DEF Merging
<1>4. CASE MergeEmpty
  <2>1. /\ items = <<>> /\ pc = "merge" /\ op \in {"keep", "override"}
        /\ items' \in Sortings(kvs) /\ op' = "none" /\ answer' = answer
    BY <1>1, <1>4 DEF MergeEmpty, Return, Merging
  <2>2. Keys = {}
    BY <2>1 DEF Keys
  <2>3. \A k \in Key : Content[k] = Absent
    BY <1>1, <2>2, ContentReads
  <2>4. Open = 1 .. Len(kvs)
    <3>1. \A j \in foundItems : j \in 1 .. i - 1 /\ j \in 1 .. Len(kvs)
      BY <1>3, <2>1
    <3>2. foundItems = {}
      BY <1>3, <2>1, <2>2, <3>1
    <3> QED
      BY <1>3, <2>1, <3>2 DEF Open
  <2>5. /\ DOMAIN Pending = {kvs[j].key : j \in Open}
        /\ \A j \in Open : Pending[kvs[j].key] = kvs[j].value
    BY <2>1, PendingReads
  <2>6. Pending' = Map!NoPairs /\ Mode' = "none"
    BY <2>1, NothingPending DEF Mode
  <2>7. kvs \in Seq(Entry)
    BY <1>1, <1>3, <2>1, BatchType DEF Merging, CallType
  <2>8. /\ \A j \in 1 .. Len(kvs) : \E k \in 1 .. Len(kvs) : items'[j] = kvs[k]
        /\ \A k \in 1 .. Len(kvs) : \E j \in 1 .. Len(kvs) : items'[j] = kvs[k]
        /\ Len(items') = Len(kvs) /\ items' \in Seq(Entry)
    BY <1>3, <2>1, <2>7, SortingKeeps
  <2>9. DictInv'
    BY InvPartsNext
  <2>10. /\ DOMAIN Content' = Key
         /\ \A j \in 1 .. Len(items') : Content'[items'[j].key] = items'[j].value
         /\ \A k \in Key : k \notin Keys' => Content'[k] = Absent
    BY <2>9, ContentReadsNext
  <2>11. ASSUME NEW k \in 1 .. Len(kvs) PROVE Content'[kvs[k].key] = kvs[k].value
    <3>1. PICK j \in 1 .. Len(kvs) : items'[j] = kvs[k]
      BY <2>8
    <3>2. Content'[items'[j].key] = items'[j].value
      BY <2>8, <2>10
    <3> QED
      BY <3>1, <3>2
  <2>12. ASSUME NEW x \in Keys' PROVE x \in DOMAIN Pending
    <3>1. DOMAIN items' = 1 .. Len(kvs)
      BY <2>8, LenProperties
    <3>2. PICK j \in 1 .. Len(kvs) : x = items'[j].key
      BY <3>1 DEF Keys
    <3>3. PICK k \in 1 .. Len(kvs) : items'[j] = kvs[k]
      BY <2>8
    <3> QED
      BY <2>4, <2>5, <3>2, <3>3
  <2>13. ASSUME NEW k \in Key
         PROVE  Content'[k] = IF k \in DOMAIN Pending THEN Pending[k] ELSE Content[k]
    <3>1. CASE k \in DOMAIN Pending
      <4>1. PICK j \in 1 .. Len(kvs) : k = kvs[j].key
        BY <2>4, <2>5, <3>1
      <4> QED
        BY <2>4, <2>5, <2>11, <3>1, <4>1
    <3>2. CASE k \notin DOMAIN Pending
      BY <2>3, <2>10, <2>12, <3>2
    <3> QED
      BY <3>1, <3>2
  <2>14. Content' = [k \in Key |-> Content'[k]]
    BY DEF Content
  <2>15. Content' = [k \in Key |->
            IF k \in DOMAIN Pending /\ (Mode = "override" \/ Content[k] = Absent)
            THEN Pending[k] ELSE Content[k]]
    BY <2>3, <2>13, <2>14
  <2>16. /\ Pending' = [k \in DOMAIN Pending \ DOMAIN Pending |-> Pending[k]]
         /\ DOMAIN Pending' = {}
    BY <2>6 DEF Map!NoPairs
  <2>17. Map!Merge(DOMAIN Pending)
    BY <1>3, <2>1, <2>6, <2>15, <2>16 DEF Map!Merge
  <2> QED
    BY <2>17 DEF Map!Next
<1>5. CASE MergeLookup
  <2>1. UNCHANGED <<items, op, kvs, foundItems, answer>> /\ pc # "rest" /\ pc' # "rest"
    BY <1>5 DEF MergeLookup, Seek, dict, merge
  <2>2. Open' = Open
    BY <2>1 DEF Open
  <2> QED
    BY <2>1, <2>2, SilentStep
<1>6. CASE MergeFound
  <2>1. /\ pc \in {"probe", "scan"} /\ pc' = "merge" /\ op \in {"keep", "override"}
        /\ UNCHANGED <<op, kvs, answer>>
    BY <1>6 DEF MergeFound, Hit, Looking, Miss
  <2>2. i \in 1 .. Len(kvs) /\ sought = kvs[i]
    BY <1>1, <1>3, <2>1 DEF Merging
  <2>3. CASE Hit /\ foundItems' = foundItems \cup {i}
    <3>1. i \in Open /\ Open' = Open \ {i}
      <4>1. i \notin foundItems
        BY <1>3, <2>1, <2>2
      <4> QED
        BY <1>3, <2>1, <2>2, <2>3, <4>1 DEF Open
    <3>2. /\ kvs[i].key \in DOMAIN Pending /\ Pending[kvs[i].key] = kvs[i].value
          /\ Pending' = [k \in DOMAIN Pending \ {kvs[i].key} |-> Pending[k]]
      BY <2>1, <3>1, PendingShrinks
    <3>3. kvs[i] \in Entry
      BY <1>3, <2>1, <2>2
    <3>4. Content[kvs[i].key] # Absent
      <4>1. Position \in 1 .. Len(items) /\ items[Position].key = sought.key
        BY <2>3, LookingInside DEF Hit
      <4>2. items[Position] \in Entry
        BY <1>1, <4>1, DictType
      <4>3. Content[items[Position].key] = items[Position].value
        BY <1>1, <4>1, ContentReads
      <4> QED
        BY <2>2, <4>1, <4>2, <4>3, EntryType, DictAssumption
    <3>5. Content' = [k \in Key |->
             IF k \in {kvs[i].key} /\ (Mode = "override" \/ Content[k] = Absent)
             THEN Pending[k] ELSE Content[k]]
      <4>1. DOMAIN Content = Key /\ Content = [k \in Key |-> Content[k]]
        BY DEF Content
      <4>2. CASE op = "override"
        <5>1. Overwrite(Position, sought.value)
          BY <1>6, <2>3, <4>2 DEF MergeFound, Overrides, Miss, Hit, Looking
        <5>2. Content' = [Content EXCEPT ![kvs[i].key] = kvs[i].value]
          BY <2>2, <2>3, <3>3, <5>1, WritePuts, EntryType
        <5> QED
          BY <1>3, <2>1, <3>2, <4>1, <4>2, <5>2
      <4>3. CASE op = "keep"
        <5>1. UNCHANGED dict
          BY <1>6, <4>3 DEF MergeFound, Overrides
        <5>2. Content' = Content
          BY <5>1 DEF dict, Content, Keys
        <5>3. Mode # "override"
          BY <1>3, <2>1, <4>3
        <5> QED
          BY <3>4, <4>1, <5>2, <5>3
      <4> QED
        BY <2>1, <4>2, <4>3
    <3>6. Mode' = Mode /\ Mode # "none"
      BY <1>3, <2>1 DEF Mode
    <3>7. Map!Merge({kvs[i].key})
      BY <2>1, <3>2, <3>5, <3>6 DEF Map!Merge
    <3> QED
      BY <3>2, <3>7 DEF Map!Next
  <2>4. CASE Miss /\ UNCHANGED <<foundItems, dict>>
    <3>1. Open' = Open /\ UNCHANGED items
      BY <2>1, <2>4 DEF Open, dict
    <3> QED
      BY <2>1, <3>1, SilentStep
  <2> QED
    BY <1>6, <2>3, <2>4 DEF MergeFound
<1>7. CASE MergeRest
  <2>1. /\ UNCHANGED <<items, op, kvs, foundItems, answer>>
        /\ pc = "merge" /\ pc' = "rest" /\ i' = 1 /\ op \in {"keep", "override"}
    BY <1>1, <1>7 DEF MergeRest, dict, Merging
  <2>2. Open' = Open
    BY <1>3, <2>1 DEF Open
  <2> QED
    BY <2>1, <2>2, SilentStep
<1>8. CASE MergeAdd
  <2>1. /\ pc = "rest" /\ pc' = "rest" /\ op \in {"keep", "override"}
        /\ UNCHANGED <<op, kvs, foundItems, answer>> /\ i' = i + 1 /\ i <= Len(kvs)
    BY <1>1, <1>8 DEF MergeAdd, Merging
  <2>2. i \in 1 .. Len(kvs) /\ i .. Len(kvs) = (i + 1 .. Len(kvs)) \cup {i}
        /\ i \notin i + 1 .. Len(kvs)
    BY <1>3, <2>1
  <2>3. CASE i \in foundItems
    <3>1. UNCHANGED dict
      BY <1>8, <2>3 DEF MergeAdd
    <3>2. Open' = Open
      BY <2>1, <2>2, <2>3 DEF Open
    <3> QED
      BY <2>1, <3>1, <3>2, SilentStep DEF dict
  <2>4. CASE i \notin foundItems
    <3>1. i \in Open /\ Open' = Open \ {i}
      BY <2>1, <2>2, <2>4 DEF Open
    <3>2. /\ kvs[i].key \in DOMAIN Pending /\ Pending[kvs[i].key] = kvs[i].value
          /\ Pending' = [k \in DOMAIN Pending \ {kvs[i].key} |-> Pending[k]]
      BY <2>1, <3>1, PendingShrinks
    <3>3. kvs[i] \in Entry /\ kvs[i].key \notin Keys /\ Add(kvs[i])
      BY <1>3, <1>8, <2>1, <2>2, <2>4 DEF MergeAdd
    <3>4. /\ Content' = [Content EXCEPT ![kvs[i].key] = kvs[i].value]
          /\ Content[kvs[i].key] = Absent
      BY <1>1, <3>3, AddPuts
    <3>5. DOMAIN Content = Key /\ Content = [k \in Key |-> Content[k]]
      BY DEF Content
    <3>6. Content' = [k \in Key |->
             IF k \in {kvs[i].key} /\ (Mode = "override" \/ Content[k] = Absent)
             THEN Pending[k] ELSE Content[k]]
      BY <3>2, <3>3, <3>4, <3>5, EntryType
    <3>7. Mode' = Mode /\ Mode # "none"
      BY <1>3, <2>1 DEF Mode
    <3>8. Map!Merge({kvs[i].key})
      BY <2>1, <3>2, <3>6, <3>7 DEF Map!Merge
    <3> QED
      BY <3>2, <3>8 DEF Map!Next
  <2> QED
    BY <2>3, <2>4
<1>9. CASE MergeEnd
  <2>1. /\ pc = "rest" /\ i > Len(kvs) /\ op \in {"keep", "override"} /\ op' = "none"
        /\ UNCHANGED <<items, answer>>
    BY <1>1, <1>9 DEF MergeEnd, Merging, Return, dict
  <2>2. Open = {}
    BY <1>3, <2>1 DEF Open
  <2>3. Pending = Map!NoPairs /\ Pending' = Map!NoPairs
    BY <2>1, <2>2, NothingPending
  <2>4. Mode' = "none"
    BY <2>1 DEF Mode
  <2>5. Content' = [k \in Key |->
           IF k \in {} /\ (Mode = "override" \/ Content[k] = Absent)
           THEN Pending[k] ELSE Content[k]]
    BY <2>1 DEF Content, Keys
  <2>6. Pending' = [k \in DOMAIN Pending \ {} |-> Pending[k]] /\ DOMAIN Pending' = {}
    BY <2>3 DEF Map!NoPairs
  <2>7. Map!Merge({})
    BY <1>3, <2>1, <2>4, <2>5, <2>6 DEF Map!Merge
  <2> QED
    BY <2>7 DEF Map!Next
<1> QED
  BY <1>2, <1>4, <1>5, <1>6, <1>7, <1>8, <1>9

(* Every step of the dictionary is one of the map, or is not seen.         *)
LEMMA StepRefines == IInv /\ IInv' /\ [Next]_vars => [Map!Next]_(Map!vars)
<1> SUFFICES ASSUME IInv, IInv', [Next]_vars PROVE [Map!Next]_(Map!vars)
  OBVIOUS
<1>1. ASSUME NEW k \in Key, NEW v \in Value, Call("set", [key |-> k, value |-> v])
      PROVE  [Map!Next]_(Map!vars)
  BY <1>1, EntryType, LookupRefines
<1>2. ASSUME NEW k \in Key, NEW o \in {"get", "remove"},
             Call(o, [key |-> k, value |-> Removed])
      PROVE  [Map!Next]_(Map!vars)
  BY <1>2, EntryType, LookupRefines
<1>3. CASE Probe \/ LeaveSorted \/ Scan
  BY <1>3, LookupRefines
<1>4. CASE Get \/ Set \/ Remove
  BY <1>4, ReturnRefines
<1>5. CASE \E o \in {"keep", "override"}, b \in Batch : CallMerge(o, b)
  BY <1>5, MergeRefines
<1>6. CASE \/ MergeEmpty \/ MergeLookup \/ MergeFound
           \/ MergeRest \/ MergeAdd \/ MergeEnd
  BY <1>6, MergeRefines
<1>7. CASE UNCHANGED vars
  <2>1. UNCHANGED <<items, op, kvs, answer>> /\ Open' = Open
    BY <1>7 DEF vars, dict, merge, search, Open
  <2> QED
    BY <2>1, SilentStep
<1> QED
  BY <1>1, <1>2, <1>3, <1>4, <1>5, <1>6, <1>7 DEF Next

LEMMA InitRefines == Init => Map!Init
<1> SUFFICES ASSUME Init PROVE Map!Init
  OBVIOUS
<1>1. Open = {} /\ Mode = "none" /\ Keys = {}
  BY DEF Init, Open, Mode, Keys
<1>2. Content = [k \in Key |-> Absent]
  BY <1>1 DEF Content
<1>3. Pending = Map!NoPairs
  BY <1>1, NothingPending
<1> QED
  BY <1>1, <1>2, <1>3 DEF Map!Init, Init

(* A KDict implements the map: what a lookup returns is what was last set  *)
(* under the key, whatever was sorted, removed and merged in between, and  *)
(* a merge sees to each of its pairs once                                  *)
(* (KDict_GetNULL, KDict_Set, KDict_Remove, KDict_MergeData).              *)
THEOREM ImplementsMap == Spec => MapSpec
<1>1. Init /\ [][Next]_vars /\ []IInv => Map!Init /\ [][Map!Next]_(Map!vars)
  BY InitRefines, StepRefines, PTL
<1> QED
  BY <1>1, SearchIsSound, PTL DEF Spec, MapSpec, Map!Spec
=============================================================================
