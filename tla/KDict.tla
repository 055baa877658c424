-------------------------------- MODULE KDict -------------------------------
(***************************************************************************)
(* KDict of src/konoha/import/klibexec.h: a growing array of keyed values, *)
(* sorted in front, with an unsorted tail that is sorted in when it is     *)
(* longer than TailMax.  A lookup is a binary search of the front and a scan  *)
(* of the tail; it is taken one comparison at a time, so that what it      *)
(* relies on can be stated of every step.  A key is its signed value, the  *)
(* (int) of a ksymbol_t.                                                   *)
(***************************************************************************)
EXTENDS Integers, Sequences, FiniteSets, Functions

CONSTANTS
  Key,         \* keys in use, signed integers
  Half,        \* half the range of a key             (code: 2^31)
  Value, Absent, Removed,
  TailMax,     \* longest tail an Add leaves unsorted (code: 8)
  Batch        \* sequences of pairs that are merged

(* comprKeyVal: the difference of two keys, as an int.                     *)
compr(a, b) == ((a - b + Half) % (2 * Half)) - Half

(* The comparison of the sort and that of the search agree on the keys in  *)
(* use.  It holds of names, syntax lists and patterns, attributes 0x0,     *)
(* 0x1, 0xE and 0xF; it does not hold of annotations and patterns, 0x6 and *)
(* 0xE, which only a script that defines such a constant could bring       *)
(* together.  A batch names each key once.                                 *)
ASSUME DictAssumption ==
  /\ Half \in Nat \ {0}
  /\ Key \subseteq -Half .. Half - 1
  /\ \A a, b \in Key : compr(a, b) < 0 <=> a < b
  /\ Removed \notin Value /\ Absent \notin Value \cup {Removed}
  /\ TailMax \in Nat
  /\ Batch \subseteq Seq([key : Key, value : Value])
  /\ \A b \in Batch : b # <<>> /\ \A i, j \in DOMAIN b : b[i].key = b[j].key => i = j

Entry == [key : Key, value : Value \cup {Removed}]

VARIABLES
  items,      \* Seq(Entry)
  sortedData, \* length of the sorted front
  capacity,   \* items there is room for: KDict_max
  op,         \* "none", "get", "set", "remove", "keep" or "override" (merges)
  pc,         \* "idle", "probe", "scan", or in a merge "merge", "rest"
  sought,     \* the pair of the call: its key is searched
  min, max,   \* of KDict_GetNULL
  kvs, i,     \* the pairs of a merge, and the one it is at
  foundItems, \* positions of kvs whose key was there
  answer      \* what the last lookup returned

dict   == <<items, sortedData, capacity>>
search == <<sought, min, max>>
merge  == <<kvs, i, foundItems>>
vars   == <<dict, op, pc, search, merge, answer>>

Keys == {items[j].key : j \in DOMAIN items}

Init ==
  /\ items = <<>> /\ sortedData = 0 /\ capacity = 0
  /\ op = "none" /\ pc = "idle"
  /\ sought = <<>> /\ min = 0 /\ max = 0
  /\ kvs = <<>> /\ i = 1 /\ foundItems = {}
  /\ answer = <<>>

----------------------------------------------------------------------------
(* The array.                                                              *)

(* KDict_Ensure.                                                           *)
Room(n) ==
  IF capacity = 0 THEN IF n < 4 THEN 4 ELSE n
  ELSE IF Len(items) + n < capacity THEN capacity ELSE Len(items) + n + 8

(* qsort_i: the arrangements of s in which no pair is out of order.        *)
Sortings(s) ==
  {t \in [DOMAIN s -> Range(s)] :
     /\ IsInjective(t)
     /\ \A j, k \in DOMAIN t : j < k => compr(t[j].key, t[k].key) <= 0}

(* KDict_Add, the sort included.                                           *)
NeverSorts(e) ==                          \* mutant of Add
  /\ capacity' = Room(1)
  /\ items' = Append(items, e)
  /\ sortedData' = IF Len(items) - sortedData > TailMax THEN Len(items) + 1 ELSE sortedData
Add(e) ==
  /\ capacity' = Room(1)
  /\ IF Len(items) - sortedData > TailMax
     THEN /\ items' \in Sortings(Append(items, e))
          /\ sortedData' = Len(items) + 1
     ELSE /\ items' = Append(items, e)
          /\ UNCHANGED sortedData

Overwrite(j, v) ==
  /\ items' = [items EXCEPT ![j].value = v]
  /\ UNCHANGED <<sortedData, capacity>>

----------------------------------------------------------------------------
(* KDict_GetNULL.                                                          *)

Seek(e) ==
  /\ sought' = e
  /\ min' = 0 /\ max' = sortedData
  /\ pc' = "probe"

(* The position compared next, from 1, while there is one.                 *)
Position == IF pc = "probe" THEN (max + min) \div 2 + 1 ELSE min + 1
Looking  == \/ pc = "probe" /\ min < max
            \/ pc = "scan"  /\ min < Len(items)
Hit  == Looking /\ items[Position].key = sought.key
Miss == pc = "scan" /\ min = Len(items)

Probe ==
  /\ pc = "probe" /\ min < max
  /\ LET p   == (max + min) \div 2
         key == items[p + 1].key
     IN  \/ key < sought.key /\ min' = p + 1 /\ UNCHANGED max
         \/ key > sought.key /\ max' = p /\ UNCHANGED min
  /\ UNCHANGED <<dict, op, pc, sought, merge, answer>>

LeaveSorted ==
  /\ pc = "probe" /\ ~(min < max)
  /\ pc' = "scan" /\ min' = sortedData
  /\ UNCHANGED <<dict, op, sought, max, merge, answer>>

Scan ==
  /\ pc = "scan" /\ Looking /\ ~Hit
  /\ min' = min + 1
  /\ UNCHANGED <<dict, op, pc, sought, max, merge, answer>>

----------------------------------------------------------------------------
(* KDict_GetNULL, KDict_Set and KDict_Remove as they are called.  A call   *)
(* ends the use of the answer to the one before it.                        *)

Call(o, e) ==
  /\ pc = "idle"
  /\ op' = o
  /\ Seek(e)
  /\ answer' = <<>>
  /\ UNCHANGED <<dict, merge>>

Return ==
  /\ pc' = "idle" /\ op' = "none"
  /\ sought' = <<>> /\ min' = 0 /\ max' = 0
  /\ kvs' = <<>> /\ i' = 1 /\ foundItems' = {}

Get ==
  /\ op = "get"
  /\ \/ Hit  /\ answer' = <<sought.key, items[Position].value>>
     \/ Miss /\ answer' = <<sought.key, Absent>>
  /\ Return
  /\ UNCHANGED dict

Set ==
  /\ op = "set"
  /\ \/ Hit  /\ Overwrite(Position, sought.value)
     \/ Miss /\ Add(sought)
  /\ Return
  /\ UNCHANGED answer

Remove ==
  /\ op = "remove"
  /\ \/ Hit  /\ Overwrite(Position, Removed)
     \/ Miss /\ UNCHANGED dict
  /\ Return
  /\ UNCHANGED answer

----------------------------------------------------------------------------
(* KDict_MergeData.                                                        *)

CallMerge(o, b) ==
  /\ pc = "idle"
  /\ op' = o /\ pc' = "merge"
  /\ kvs' = b
  /\ answer' = <<>>
  /\ UNCHANGED <<dict, search, i, foundItems>>

(* Into an empty map all the pairs are copied and sorted.                  *)
MergeEmpty ==
  /\ pc = "merge"
  /\ items = <<>>
  /\ capacity' = Room(Len(kvs))
  /\ items' \in Sortings(kvs)
  /\ sortedData' = Len(kvs)
  /\ Return
  /\ UNCHANGED answer

(* The first loop: every key is looked up.                                 *)
MergeLookup ==
  /\ pc = "merge"
  /\ items # <<>> /\ i <= Len(kvs)
  /\ Seek(kvs[i])
  /\ UNCHANGED <<dict, op, merge, answer>>

StoreAlways == TRUE                       \* mutant of Overrides
Overrides == op = "override"
MergeFound ==
  /\ op \in {"keep", "override"}
  /\ \/ /\ Hit
        /\ foundItems' = foundItems \cup {i}
        /\ IF Overrides THEN Overwrite(Position, sought.value) ELSE UNCHANGED dict
     \/ Miss /\ UNCHANGED <<foundItems, dict>>
  /\ i' = i + 1
  /\ pc' = "merge"
  /\ sought' = <<>> /\ min' = 0 /\ max' = 0
  /\ UNCHANGED <<op, kvs, answer>>

(* The second loop: those not found are added.                             *)
MergeRest ==
  /\ pc = "merge"
  /\ items # <<>> /\ i > Len(kvs)
  /\ pc' = "rest" /\ i' = 1
  /\ UNCHANGED <<dict, op, search, kvs, foundItems, answer>>

MergeAdd ==
  /\ pc = "rest" /\ i <= Len(kvs)
  /\ IF i \in foundItems THEN UNCHANGED dict ELSE Add(kvs[i])
  /\ i' = i + 1
  /\ UNCHANGED <<op, pc, search, kvs, foundItems, answer>>

MergeEnd ==
  /\ pc = "rest" /\ i > Len(kvs)
  /\ Return
  /\ UNCHANGED <<dict, answer>>

----------------------------------------------------------------------------
Next ==
  \/ \E k \in Key : \E v \in Value : Call("set", [key |-> k, value |-> v])
  \/ \E k \in Key, o \in {"get", "remove"} : Call(o, [key |-> k, value |-> Removed])
  \/ Probe \/ LeaveSorted \/ Scan
  \/ Get \/ Set \/ Remove
  \/ \E o \in {"keep", "override"}, b \in Batch : CallMerge(o, b)
  \/ MergeEmpty \/ MergeLookup \/ MergeFound \/ MergeRest \/ MergeAdd \/ MergeEnd

Spec == Init /\ [][Next]_vars

----------------------------------------------------------------------------
(* Properties.                                                             *)

TypeOK ==
  /\ items \in Seq(Entry)
  /\ sortedData \in 0 .. Len(items)
  /\ capacity \in Nat
  /\ op \in {"none", "get", "set", "remove", "keep", "override"}
  /\ pc \in {"idle", "probe", "scan", "merge", "rest"}
  /\ sought \in Entry \cup {<<>>}
  /\ min \in Nat /\ max \in Nat
  /\ kvs \in Batch \cup {<<>>} /\ i \in Nat /\ foundItems \subseteq DOMAIN kvs
  /\ answer \in {<<>>} \cup (Key \X (Value \cup {Removed, Absent}))

(* A key is there once, the front is in order, the tail is no longer than  *)
(* the sort allows, nothing is written beyond the array.                   *)
Unique  == \A j, k \in DOMAIN items : items[j].key = items[k].key => j = k
Ordered == \A j, k \in 1 .. sortedData : j < k => items[j].key < items[k].key
Fits    == /\ Len(items) <= capacity
           /\ Len(items) - sortedData <= TailMax + 1

(* What a search has excluded so far.                                      *)
Excluded ==
  /\ pc \in {"probe", "scan"} =>
       /\ op # "none" /\ sought # <<>>
       /\ op = "set" => sought.value \in Value
  /\ pc = "probe" =>
       /\ min <= max /\ max <= sortedData
       /\ \A j \in 1 .. min : items[j].key < sought.key
       /\ \A j \in max + 1 .. sortedData : items[j].key > sought.key
  /\ pc = "scan" =>
       /\ sortedData <= min /\ min <= Len(items)
       /\ \A j \in 1 .. min : items[j].key # sought.key

(* What a merge knows of its pairs.                                        *)
Merging ==
  /\ pc = "idle" <=> op = "none"
  /\ op \notin {"keep", "override"} => i = 1 /\ foundItems = {}
  /\ pc \in {"merge", "rest"} => op \in {"keep", "override"}
  /\ op \in {"keep", "override"} =>
       /\ kvs # <<>> /\ i \in 1 .. Len(kvs) + 1
       /\ pc \in {"probe", "scan"} =>
            i <= Len(kvs) /\ sought = kvs[i] /\ items # <<>>
       /\ pc # "rest" => foundItems \subseteq 1 .. i - 1
       /\ pc = "rest" => items # <<>>
       /\ \A j \in DOMAIN kvs :
            pc = "rest" \/ j < i =>
              (kvs[j].key \in Keys <=> j \in foundItems \/ (pc = "rest" /\ j < i))

(* A lookup can rely on the order of the front, whatever was added,        *)
(* merged, removed and sorted before: no key is hidden behind the wrong    *)
(* half or entered twice (KDict_GetNULL, KDict_Add, KDict_MergeData).      *)
IInv == TypeOK /\ Unique /\ Ordered /\ Fits /\ Excluded /\ Merging

(* A KDict implements the map: a lookup returns what was last set under    *)
(* the key, however far the sort and a merge under way have come.          *)
Open == IF op \in {"keep", "override"}
        THEN (IF pc = "rest" THEN i .. Len(kvs) ELSE DOMAIN kvs) \ foundItems
        ELSE {}
Content == [k \in Key |->
  IF k \in Keys THEN items[CHOOSE j \in DOMAIN items : items[j].key = k].value ELSE Absent]
Mode == IF op \in {"keep", "override"} THEN op ELSE "none"
Pending == [k \in {kvs[j].key : j \in Open} |->
              kvs[CHOOSE j \in Open : kvs[j].key = k].value]
Map == INSTANCE PropertyMap WITH map <- Content, mode <- Mode, pending <- Pending
MapSpec == Map!Spec
=============================================================================
