----------------------------- MODULE MethodTable -----------------------------
(***************************************************************************)
(* Method lists and method calls: kMethodList_MatchMethod and              *)
(* kNameSpace_MatchMethodNULL (the search), kNameSpace_AddMethod, the      *)
(* binding of a call when it is compiled and the inline cache of the       *)
(* LOOKUP instruction of MiniVM.                                           *)
(*                                                                         *)
(* A public method goes into the list of its class, any other into the     *)
(* list of the name space that defines it.  A list is sorted by a search   *)
(* that finds too many methods added since it last was.  Methods are       *)
(* matched by class, name and signature; the rules that choose a signature *)
(* for the arguments of a call are left out: a call takes any of them.     *)
(***************************************************************************)
EXTENDS Integers, Sequences, SequencesExt, Functions, FiniteSets

CONSTANTS
  NameSpaces,
  Lineage,    \* [NameSpaces -> Seq(NameSpaces)] itself, its parent, and so on
  Class,      \* type identifiers: natural numbers
  Ancestry,   \* [Class -> Seq(Class)] itself, the class searched next, and so on
  NameCount,  \* method names are 0 .. NameCount - 1
  Signature,
  Declared,   \* what a method may be declared: a subset of Flag
  TailMax,    \* methods a list may have unsorted          (code: 8)
  MaxMethods, \* bound: methods made
  MaxCalls    \* bound: calls compiled

Name == 0 .. NameCount - 1
Flag == {"plain", "final", "virtual"}
ListId == NameSpaces \cup Class

ASSUME MethodAssumption ==
  /\ Class \subseteq Nat /\ NameSpaces \cap Class = {}
  /\ Declared \subseteq Flag /\ NameCount \in Nat \ {0} /\ TailMax \in Nat
  /\ MaxMethods \in Nat /\ MaxCalls \in Nat
  /\ Lineage \in [NameSpaces -> Seq(NameSpaces)]
  /\ Ancestry \in [Class -> Seq(Class)]
  /\ \A n \in NameSpaces : Lineage[n] # <<>> /\ Head(Lineage[n]) = n
  /\ \A c \in Class : Ancestry[c] # <<>> /\ Head(Ancestry[c]) = c
  \* Parents of a parent are parents, classes likewise; none comes twice.
  /\ \A n \in NameSpaces : \A i \in DOMAIN Lineage[n] :
       Lineage[Lineage[n][i]] = SubSeq(Lineage[n], i, Len(Lineage[n]))
  /\ \A c \in Class : \A i \in DOMAIN Ancestry[c] :
       Ancestry[Ancestry[c][i]] = SubSeq(Ancestry[c], i, Len(Ancestry[c]))
  /\ \A n \in NameSpaces : IsInjective(Lineage[n])
  /\ \A c \in Class : IsInjective(Ancestry[c])

VARIABLES
  methods,    \* Seq(Method) a method is named by its position
  list,       \* [ListId -> Seq of methods] methodList_OnList, classMethodList
  sorted,     \* [ListId -> Nat] sortedMethodList
  calls       \* Seq(Call) the calls compiled so far

vars == <<methods, list, sorted, calls>>

Method == [class : Class, name : Name, sig : Signature, flag : Flag]
NULL == 0

Init ==
  /\ methods = <<>>
  /\ list = [l \in ListId |-> <<>>]
  /\ sorted = [l \in ListId |-> 0]
  /\ calls = <<>>

Key(class, name) == class * NameCount + name
Method_id(m) == Key(methods[m].class, methods[m].name)

----------------------------------------------------------------------------
(* kMethodList_MatchMethod.                                                *)

(* comprMethod says nothing of methods with one class and one name: qsort  *)
(* leaves them in any order.                                               *)
SortedCopies(s) ==
  {t \in [DOMAIN s -> ToSet(s)] :
     /\ IsInjective(t)
     /\ \A i, j \in DOMAIN t : i < j => Method_id(t[i]) <= Method_id(t[j])}

Dirty(l) == Len(list[l]) - sorted[l] > TailMax

(* The binary search in s[1 .. k], from 1: a position with that key, or 0. *)
Position(s, k, key) ==
  LET search[r \in (0 .. k) \X (0 .. k)] ==
        LET min == r[1]
            max == r[2]
            p == (max + min) \div 2
        IN  IF min >= max THEN 0
            ELSE IF Method_id(s[p + 1]) = key THEN p + 1
            ELSE IF Method_id(s[p + 1]) < key THEN search[<<p + 1, max>>]
            ELSE search[<<min, p>>]
  IN  search[<<0, k>>]

(* The positions that MatchMethod is called for: those around the one      *)
(* found as far as the key goes, and those of the unsorted tail.  The      *)
(* mutant looks only ahead.                                                *)
AheadOnly(s, k, key, p) ==                \* mutant of Around
  {i \in p .. k : \A j \in p .. i : Method_id(s[j]) = key}
Around(s, k, key, p) ==
  {i \in 1 .. k : \A j \in (i .. p) \cup (p .. i) : Method_id(s[j]) = key}
Visited(s, k, key) ==
  LET p == Position(s, k, key)
  IN  (IF p = 0 THEN {} ELSE Around(s, k, key, p))
        \cup {i \in k + 1 .. Len(s) : Method_id(s[i]) = key}

----------------------------------------------------------------------------
(* kNameSpace_MatchMethodNULL: every list of the name space and of its     *)
(* parents for the class, the list of the class, and so on for the classes *)
(* it is derived from.                                                     *)

Places(n, c) == (DOMAIN Ancestry[c]) \X (1 .. Len(Lineage[n]) + 1)
Earlier(p, q) == p[1] < q[1] \/ (p[1] = q[1] /\ p[2] < q[2])
ClassAt(c, p) == Ancestry[c][p[1]]
ListAt(n, c, p) ==
  IF p[2] <= Len(Lineage[n]) THEN Lineage[n][p[2]] ELSE ClassAt(c, p)

(* What is found at each place in the lists L, of which S says how far     *)
(* they are sorted; and what is found in all: what the first place has.    *)
FoundAt(L, S, n, c, name, sig) ==
  [p \in Places(n, c) |->
     LET l == ListAt(n, c, p)
         visited == Visited(L[l], S[l], Key(ClassAt(c, p), name))
     IN  {L[l][i] : i \in {j \in visited : methods[L[l][j]].sig = sig}}]
Stops(at) ==
  {p \in DOMAIN at : at[p] # {} /\ \A q \in DOMAIN at : Earlier(q, p) => at[q] = {}}
Found(at) == UNION {at[p] : p \in Stops(at)}

(* The lists that a search would sort, as it may leave them, and those of  *)
(* them that it comes to.  The mutant takes every list for sorted.         *)
Resorted(n, c) ==
  LET dirty == {l \in ListId : Dirty(l) /\ \E p \in Places(n, c) : l = ListAt(n, c, p)}
  IN  {T \in [dirty -> UNION {SortedCopies(list[l]) : l \in dirty}] :
         \A l \in dirty : T[l] \in SortedCopies(list[l])}
Lists(T) == [l \in ListId |-> IF l \in DOMAIN T THEN T[l] ELSE list[l]]
CountsAll(T) == [l \in ListId |-> Len(list[l])] \* mutant of Counts
Counts(T) == [l \in ListId |-> IF l \in DOMAIN T THEN Len(list[l]) ELSE sorted[l]]
Search(T, n, c, name, sig) == FoundAt(Lists(T), Counts(T), n, c, name, sig)
Passed(T, n, c, at) ==
  Restrict(T, {l \in DOMAIN T : \E p \in Places(n, c) :
                 l = ListAt(n, c, p) /\ \A q \in Stops(at) : ~Earlier(q, p)})

----------------------------------------------------------------------------
(* kNameSpace_AddMethod: name space n defines m, in list l.                *)

(* The mutant looks for the signature in the name space itself only.       *)
Own(n, at) == Found(at) \cap ToSet(list[n]) \* mutant of Rivals
Rivals(n, at) == Found(at)

With(L, l, m) == [L EXCEPT ![l] = Append(@, m)]

AddMethod(n, c, name, sig) ==
  /\ Len(methods) < MaxMethods
  /\ \E T \in Resorted(n, c) :
       LET at == Search(T, n, c, name, sig)
           passed == Passed(T, n, c, at)
           rivals == Rivals(n, at)
           new == Len(methods) + 1
           Made(flag) == [class |-> c, name |-> name, sig |-> sig, flag |-> flag]
       IN  /\ sorted' = Counts(passed)
           /\ \/ /\ rivals = {}
                 /\ \E flag \in Declared, l \in {n, c} :
                      /\ methods' = Append(methods, Made(flag))
                      /\ list' = With(Lists(passed), l, new)
              \* a method it overrides has to be looked up in calls from now on
              \/ /\ \E r \in rivals : methods[r].class # c /\ methods[r].flag # "final"
                 /\ \E flag \in Declared, l \in {n, c} :
                      /\ methods' = Append([m \in DOMAIN methods |-> IF m \in rivals
                           THEN [methods[m] EXCEPT !.flag = "virtual"] ELSE methods[m]], Made(flag))
                      /\ list' = With(Lists(passed), l, new)
              \* @Override, kMethod_ReplaceWith: the old method gets the new text
              \/ /\ \E r \in rivals : methods[r].class = c
                 /\ \E flag \in Declared :
                      methods' = [m \in DOMAIN methods |->
                                    IF m \in rivals THEN Made(flag) ELSE methods[m]]
                 /\ list' = Lists(passed)
              \* "duplicated method", "final method"
              \/ /\ \E r \in rivals : methods[r].class = c \/ methods[r].flag = "final"
                 /\ list' = Lists(passed)
                 /\ UNCHANGED methods
  /\ UNCHANGED calls

----------------------------------------------------------------------------
(* Calls.                                                                  *)

(* MiniVM_VisitMethodCallNode: a call in n on a receiver of class c.  Only *)
(* if the method is virtual by then is it looked up each time.             *)
Compile(n, c, name, sig) ==
  /\ Len(calls) < MaxCalls
  /\ \E T \in Resorted(n, c) :
       LET at == Search(T, n, c, name, sig)
           passed == Passed(T, n, c, at)
       IN  \E r \in Found(at) :
             /\ list' = Lists(passed) /\ sorted' = Counts(passed)
             /\ calls' = Append(calls, [ns |-> n, class |-> c, mtd |-> r,
                                        lookup |-> methods[r].flag = "virtual"])
  /\ UNCHANGED methods

(* kNameSpace_LookupMethodWithInlineCache, for a receiver of class c.  The *)
(* mutant takes the method in the cache for one of any class.              *)
NeverMisses(i, c) == FALSE                \* mutant of Misses
Misses(i, c) == methods[calls[i].mtd].class # c
Invoke(i, c) ==
  /\ calls[i].lookup /\ calls[i].mtd # NULL
  /\ calls[i].class \in ToSet(Ancestry[c])
  /\ Misses(i, c)
  /\ LET m == methods[calls[i].mtd] IN
       \E T \in Resorted(calls[i].ns, c) :
         LET at == Search(T, calls[i].ns, c, m.name, m.sig)
             passed == Passed(T, calls[i].ns, c, at)
         IN  /\ list' = Lists(passed) /\ sorted' = Counts(passed)
             /\ \E r \in IF Found(at) = {} THEN {NULL} ELSE Found(at) :
                  calls' = [calls EXCEPT ![i].mtd = r]
  /\ UNCHANGED methods

Next ==
  \/ \E n \in NameSpaces, c \in Class, name \in Name, sig \in Signature :
       AddMethod(n, c, name, sig) \/ Compile(n, c, name, sig)
  \/ \E i \in DOMAIN calls, c \in Class : Invoke(i, c)

Spec == Init /\ [][Next]_vars

----------------------------------------------------------------------------
(* Properties.                                                             *)

Call == [ns : NameSpaces, class : Class, mtd : Nat, lookup : BOOLEAN]

TypeOK ==
  /\ methods \in Seq(Method)
  /\ list \in [ListId -> Seq(DOMAIN methods)]
  /\ sorted \in [ListId -> Nat]
  /\ calls \in Seq(Call)

(* Every method is in one list, once, and no list has two with the same    *)
(* class, name and signature; what is said to be sorted is.                *)
ListsSound ==
  /\ \A m \in DOMAIN methods : \E l \in ListId : m \in ToSet(list[l])
  /\ \A l, k \in ListId : \A i \in DOMAIN list[l], j \in DOMAIN list[k] :
       list[l][i] = list[k][j] => l = k /\ i = j
  /\ \A l \in ListId : \A i, j \in DOMAIN list[l] :
       LET a == methods[list[l][i]]
           b == methods[list[l][j]]
       IN  a.class = b.class /\ a.name = b.name /\ a.sig = b.sig => i = j
  /\ \A l \in ListId :
       /\ sorted[l] <= Len(list[l])
       /\ \A i, j \in 1 .. sorted[l] : i < j => Method_id(list[l][i]) <= Method_id(list[l][j])

(* A search visits every method of the list that has the class and name,   *)
(* and no other, wherever it is and however much of the list is sorted.    *)
SearchExact ==
  \A l \in ListId : \A c \in Class, name \in Name :
    Visited(list[l], sorted[l], Key(c, name)) =
      {i \in DOMAIN list[l] : Method_id(list[l][i]) = Key(c, name)}

(* What a call in name space n on a receiver of class c means: of all      *)
(* methods with that name and signature, the one at the first place.       *)
There(n, c, p, name, sig) ==
  {m \in ToSet(list[ListAt(n, c, p)]) :
     /\ methods[m].class = ClassAt(c, p)
     /\ methods[m].name = name /\ methods[m].sig = sig}
Meaning(n, c, name, sig) ==
  LET held == {p \in Places(n, c) : There(n, c, p, name, sig) # {}}
  IN  UNION {There(n, c, p, name, sig) : p \in {q \in held : \A r \in held : ~Earlier(r, q)}}

(* What a call was bound to is a method, and what is meant by its name and *)
(* signature on receivers of its own class; and they still mean something  *)
(* on the receivers that the call was compiled for.                        *)
CallsInv ==
  \A i \in DOMAIN calls :
    LET call == calls[i]
        m == methods[call.mtd]
    IN  /\ call.mtd \in DOMAIN methods
        /\ Meaning(call.ns, call.class, m.name, m.sig) # {}
        /\ Meaning(call.ns, m.class, m.name, m.sig) = {call.mtd}

IInv == TypeOK /\ ListsSound /\ CallsInv

(* The cache of a call is never empty, and when it is used without a       *)
(* search it has the method a search would find: no method defined since,  *)
(* in whatever name space, comes before it, or kNameSpace_AddMethod would  *)
(* have found the cached one, and refused or replaced it.                  *)
CachesFresh ==
  \A i \in DOMAIN calls :
    /\ calls[i].mtd # NULL
    /\ LET m == methods[calls[i].mtd] IN
         \A c \in Class :
           calls[i].lookup /\ calls[i].class \in ToSet(Ancestry[c]) /\ ~Misses(i, c)
             => Meaning(calls[i].ns, c, m.name, m.sig) = {calls[i].mtd}

(* What a call means changes only to a method just made, of a class nearer *)
(* to that of the receiver: not by another name space's definitions for    *)
(* the same class, by an override, by a sort, or by a call.                *)
MeaningKept ==
  [][\A n \in NameSpaces, c \in Class, name \in Name, sig \in Signature :
       LET before == Meaning(n, c, name, sig)
           after == Meaning(n, c, name, sig)'
           new == Len(methods')
       IN  after = before \/
           /\ after = {new} /\ new > Len(methods)
           /\ \A r \in before : methods[r].class \in ToSet(Tail(Ancestry[methods'[new].class]))
    ]_<<methods, list, sorted>>
=============================================================================
