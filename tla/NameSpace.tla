------------------------------ MODULE NameSpace ------------------------------
(***************************************************************************)
(* Name spaces of src/parser/import/namespace.h: the table of constants,   *)
(* which holds syntaxes too, the name spaces imported, and the list of the *)
(* syntaxes of a keyword, which a name space fills when it is asked for it *)
(* and keeps.  One action per function; PackageLoader calls them.          *)
(*                                                                         *)
(* A table is a function on the keys it holds: KDict shows that.  The      *)
(* Override option is left out: SetConstData and LoadConstData look at it, *)
(* and nothing in the repository sets it.                                  *)
(***************************************************************************)
EXTENDS Naturals, Sequences, SequencesExt, FiniteSets

CONSTANTS
  NameSpaces,
  Lineage,    \* [NameSpaces -> Seq(NameSpaces)] itself, its parent, and so on
  Keyword,    \* keys of syntaxes
  ConstName   \* other keys

Key == Keyword \cup ConstName

ASSUME LineageAssumption ==
  \A n \in NameSpaces :
    Lineage[n] \in Seq(NameSpaces) /\ Lineage[n] # <<>> /\ Head(Lineage[n]) = n

VARIABLES
  constTable,             \* [NameSpaces -> [SUBSET Key -> Value]]
  NameSpaceConstList,     \* [NameSpaces -> SUBSET Value] all that its Reftrace visits
  importedNameSpaceList,  \* [NameSpaces -> Seq(NameSpaces)]
  syntaxList              \* [NameSpaces -> [SUBSET Keyword -> Seq(Syntax)]]
                          \* the arrays under the keys keyword|SyntaxList

spaces == <<constTable, NameSpaceConstList, importedNameSpaceList, syntaxList>>

(* A value: a text given by a C program, which becomes a String when it is *)
(* first looked up, an unboxed value, or an object, named by the name      *)
(* space and the key it was made for.                                      *)
Value == [type : {"Text", "Symbol", "String", "Object", "Syntax", "Array"},
          ns : NameSpaces, key : Key]
Boxed(v) == v.type \in {"String", "Object", "Syntax", "Array"}
Made(t, n, k) == [type |-> t, ns |-> n, key |-> k]

Nothing == [k \in {} |-> {}]

(* One binding, and the bindings of f and those of g that f has no key of. *)
Bind(k, v)  == [j \in {k} |-> v]
Also(f, g) == [j \in DOMAIN f \cup DOMAIN g |-> IF j \in DOMAIN f THEN f[j] ELSE g[j]]

InitSpaces(root) ==
  /\ constTable = [n \in NameSpaces |->
       IF n = root THEN [k \in Keyword |-> Made("Syntax", n, k)] ELSE Nothing]
  /\ NameSpaceConstList = [n \in NameSpaces |->
       IF n = root THEN {Made("Syntax", n, k) : k \in Keyword} ELSE {}]
  /\ importedNameSpaceList = [n \in NameSpaces |-> <<>>]
  /\ syntaxList = [n \in NameSpaces |-> Nothing]

----------------------------------------------------------------------------
(* Constants.                                                              *)

Defined(n, k) == k \in DOMAIN constTable[n]

(* kNameSpace_GetLocalConstNULL of k in each of the name spaces N: what    *)
(* becomes of the tables, and of the lists of objects to keep.             *)
IsText(n, k) == Defined(n, k) /\ constTable[n][k].type = "Text"
AfterLookup(N, k) ==
  [n \in NameSpaces |-> IF n \in N /\ IsText(n, k)
     THEN [constTable[n] EXCEPT ![k] = Made("String", n, k)] ELSE constTable[n]]
KeptByLookup(N, k) ==
  [n \in NameSpaces |-> IF n \in N /\ IsText(n, k)
     THEN NameSpaceConstList[n] \cup {Made("String", n, k)} ELSE NameSpaceConstList[n]]
Lookup(N, k) ==
  constTable' = AfterLookup(N, k) /\ NameSpaceConstList' = KeptByLookup(N, k)

(* The mutant stores an object and does not keep it.                       *)
NotHeld(v) == {}                          \* mutant of Held
Held(v) == IF Boxed(v) THEN {v} ELSE {}
SetConstData(n, k, v) ==
  IF Defined(n, k) THEN Lookup({n}, k)
  ELSE /\ constTable' = [constTable EXCEPT ![n] = Also(Bind(k, v), @)]
       /\ NameSpaceConstList' = [NameSpaceConstList EXCEPT ![n] = @ \cup Held(v)]

(* A name that is defined keeps its value; an object is kept all the same. *)
LoadConstData(n, data) ==
  /\ constTable' = [constTable EXCEPT ![n] = Also(@, data)]
  /\ NameSpaceConstList' =
       [NameSpaceConstList EXCEPT ![n] = @ \cup UNION {Held(data[k]) : k \in DOMAIN data}]
  /\ UNCHANGED <<importedNameSpaceList, syntaxList>>

DefineConst(n, k, v) ==
  SetConstData(n, k, v) /\ UNCHANGED <<importedNameSpaceList, syntaxList>>

(* Where kNameSpace_GetConstNULL looks: in the name space, in those it     *)
(* imported, then in its parent in the same way.                           *)
Searched(n) ==
  FlattenSeq([i \in DOMAIN Lineage[n] |->
                <<Lineage[n][i]>> \o importedNameSpaceList[Lineage[n][i]]])
Holder(n, k) ==
  LET found == SelectSeq(Searched(n), LAMBDA s : Defined(s, k))
  IN  IF found = <<>> THEN {} ELSE {Head(found)}
GetConst(n, k) ==
  /\ Lookup(Holder(n, k), k)
  /\ UNCHANGED <<importedNameSpaceList, syntaxList>>

----------------------------------------------------------------------------
(* Syntaxes.                                                               *)

IsSyntax(n, k) == Defined(n, k) /\ constTable[n][k].type = "Syntax"
Syntaxes(n) == {constTable[n][k] : k \in {j \in DOMAIN constTable[n] : IsSyntax(n, j)}}

(* The syntaxes of k, in the order of the search.                          *)
ListSyntax(n, k) ==
  LET at == Searched(n)
      list[i \in 0 .. Len(at)] ==
        IF i = 0 THEN <<>>
        ELSE IF IsSyntax(at[i], k) THEN Append(list[i - 1], constTable[at[i]][k])
        ELSE list[i - 1]
  IN  list[Len(at)]

(* The list is made once, and filled whenever it is found empty.  The      *)
(* mutant fills it at every call.                                          *)
Listed(n, k) == IF k \in DOMAIN syntaxList[n] THEN syntaxList[n][k] ELSE <<>>
NeverCached(n, k) == FALSE                \* mutant of Cached
Cached(n, k) == Listed(n, k) # <<>>
GetSyntaxList(n, k) ==
  IF Cached(n, k) THEN UNCHANGED spaces
  ELSE /\ syntaxList' = [syntaxList EXCEPT ![n] =
                           Also(Bind(k, Listed(n, k) \o ListSyntax(n, k)), @)]
       /\ LET N == ToSet(Searched(n)) IN
            /\ constTable' = AfterLookup(N, k)
            /\ NameSpaceConstList' =
                 [KeptByLookup(N, k) EXCEPT ![n] = @ \cup {Made("Array", n, k)}]
       /\ UNCHANGED importedNameSpaceList

(* kNameSpace_ResetSyntaxList, for each of the keywords K.                 *)
ResetSyntaxList(n, K) ==
  syntaxList' = [syntaxList EXCEPT ![n] =
                   [k \in DOMAIN @ |-> IF k \in K THEN <<>> ELSE @[k]]]

AddSyntax(n, syn) ==
  /\ SetConstData(n, syn.key, syn)
  /\ ResetSyntaxList(n, IF Defined(n, syn.key) THEN {} ELSE {syn.key})
  /\ UNCHANGED importedNameSpaceList

(* kNameSpace_DefineSyntax of one keyword: the syntax is new, and is kept  *)
(* even if the name space has one already.                                 *)
DefineSyntax(n, k) ==
  /\ IF Defined(n, k)
     THEN /\ constTable' = AfterLookup({n}, k)
          /\ NameSpaceConstList' =
               [KeptByLookup({n}, k) EXCEPT ![n] = @ \cup {Made("Syntax", n, k)}]
     ELSE SetConstData(n, k, Made("Syntax", n, k))
  /\ ResetSyntaxList(n, IF Defined(n, k) THEN {} ELSE {k})
  /\ UNCHANGED importedNameSpaceList

(* The syntax is hidden by a symbol, if its list was ever asked for.       *)
RemoveSyntax(n, k) ==
  IF k \notin DOMAIN syntaxList[n] THEN UNCHANGED spaces
  ELSE /\ ResetSyntaxList(n, {k})
       /\ SetConstData(n, k, Made("Symbol", n, k))
       /\ UNCHANGED importedNameSpaceList

(* kNameSpace_ImportAll: the lists of the keywords of its syntaxes, which  *)
(* need not be the keys it has them under, are reset.                      *)
ImportAll(n, target) ==
  IF target \in ToSet(importedNameSpaceList[n]) THEN UNCHANGED spaces
  ELSE /\ importedNameSpaceList' = [importedNameSpaceList EXCEPT ![n] = Append(@, target)]
       /\ ResetSyntaxList(n, {syn.key : syn \in Syntaxes(target)})
       /\ UNCHANGED <<constTable, NameSpaceConstList>>
=============================================================================
