----------------------------- MODULE PropertyMap ----------------------------
(***************************************************************************)
(* What a KDict promises its users, the constants of a name space and the  *)
(* properties of an object: a map from keys to values that is read,        *)
(* written and cleared one key at a time, and into which a batch of pairs  *)
(* is merged.  A key that was removed is not forgotten: a merge that does  *)
(* not override leaves it removed.                                         *)
(***************************************************************************)
CONSTANTS
  Key, Value,
  Absent,    \* of a key that was never there
  Removed    \* of a key whose type and value were cleared

VARIABLES
  map,       \* [Key -> Value \cup {Absent, Removed}]
  answer,    \* what the last lookup returned: a pair of key and value
  mode,      \* "none", or how a merge treats keys that are there
  pending    \* [SUBSET Key -> Value] the pairs it has still to see to

vars == <<map, answer, mode, pending>>

NoPairs == [k \in {} |-> Absent]

Init ==
  /\ map = [k \in Key |-> Absent]
  /\ answer = <<>>
  /\ mode = "none"
  /\ pending = NoPairs

Lookup(k) ==
  /\ mode = "none"
  /\ answer' = <<k, map[k]>>
  /\ UNCHANGED <<map, mode, pending>>

(* The answer is of use until the next call.                               *)
Forget ==
  /\ mode = "none"
  /\ answer' = <<>>
  /\ UNCHANGED <<map, mode, pending>>

Put(k, v) ==
  /\ mode = "none"
  /\ map' = [map EXCEPT ![k] = v]
  /\ UNCHANGED <<answer, mode, pending>>

Delete(k) ==
  /\ mode = "none"
  /\ map[k] # Absent
  /\ map' = [map EXCEPT ![k] = Removed]
  /\ UNCHANGED <<answer, mode, pending>>

BeginMerge ==
  /\ mode = "none"
  /\ mode' \in {"keep", "override"}
  /\ \E K \in SUBSET Key : pending' \in [K -> Value]
  /\ answer' = <<>>
  /\ UNCHANGED map

(* A merge sees to each of its pairs once, in no order; it may be over     *)
(* when none is left.                                                      *)
Merge(K) ==
  /\ mode # "none"
  /\ map' = [k \in Key |-> IF k \in K /\ (mode = "override" \/ map[k] = Absent)
                           THEN pending[k] ELSE map[k]]
  /\ pending' = [k \in DOMAIN pending \ K |-> pending[k]]
  /\ \/ mode' = mode
     \/ DOMAIN pending' = {} /\ mode' = "none"
  /\ UNCHANGED answer

Next ==
  \/ \E k \in Key : Lookup(k) \/ Delete(k)
  \/ \E k \in Key, v \in Value : Put(k, v)
  \/ Forget \/ BeginMerge
  \/ \E K \in SUBSET DOMAIN pending : Merge(K)

Spec == Init /\ [][Next]_vars
=============================================================================
