------------------------------ MODULE KHashMap ------------------------------
(***************************************************************************)
(* KHashMap of src/konoha/import/klibexec.h: hash chains threaded through  *)
(* an arena of entries that doubles when its free list is empty.  It has   *)
(* two users, and a behaviour is of either: the tables that intern symbols *)
(* (file names, package names, parameters), from which nothing is removed, *)
(* and the Map object of scripts.                                          *)
(*                                                                         *)
(* An entry is named by its position in the arena, from 1; 0 is the NULL   *)
(* pointer.  KHashMap_ShiftPointer is left out: it moves the pointers of   *)
(* the old arena to the new one, and KHashMap_Rehash overwrites each of    *)
(* them, for no entry is free when the arena grows.                        *)
(***************************************************************************)
EXTENDS Integers, Sequences, FiniteSets, Functions, ObjectGraph

CONSTANTS
  Name,       \* keys
  Hash,       \* [Name -> Nat] the hash of a key
  Value,      \* values a script stores: natural numbers
  Absent,     \* of a name that has no entry
  NULL,       \* the StringKey of an entry never used
  InitArena,  \* entries of the first arena           (code: 83 * 3 / 4)
  InitMax,    \* heads of the first table             (code: 83)
  MaxArena    \* bound: entries of an arena

ASSUME HashAssumption ==
  /\ Hash \in [Name -> Nat]
  /\ Value \subseteq Nat
  /\ InitArena \in Nat \ {0} /\ InitMax \in Nat \ {0}
  /\ MaxArena \in Nat
  /\ NULL \notin Name /\ Absent \notin Nat

VARIABLES
  interning,  \* whether this is a table of symbols: never changes
  arena,      \* Seq([hcode, key, value, next])
  hmax,
  hentry,     \* [0 .. hmax - 1 -> entry] the heads of the chains
  unused,     \* the head of the free list
  size,
  list,       \* Seq(Name) the names interned: the symbol of list[s + 1] is s
  op,         \* "none", "intern", "find", "get", "set" or "remove"
  sought, stored,  \* the name and the value of the call
  e,          \* the entry a lookup has come to
  answer      \* what the last call returned

table == <<arena, hmax, hentry, unused, size>>
call  == <<op, sought, stored, e>>
vars  == <<interning, table, list, call, answer>>

Free == -1                                \* the hcode of a free entry
Cell == DOMAIN arena

(* KHashMap_MakeFreeList: n entries from the one at s on, chained.         *)
FreeList(s, n) ==
  [i \in 1 .. n |-> [hcode |-> Free, key |-> NULL, value |-> 0,
                     next |-> IF i < n THEN s + i ELSE 0]]

Init ==
  /\ interning \in BOOLEAN
  /\ arena = FreeList(1, InitArena) /\ unused = 1 /\ size = 0
  /\ hmax = InitMax
  /\ hentry = [b \in 0 .. InitMax - 1 |-> 0]
  /\ list = <<>>
  /\ op = "none" /\ sought = NULL /\ stored = 0 /\ e = 0
  /\ answer = <<>>

----------------------------------------------------------------------------
(* KHashMap_newEntry.                                                      *)

Last(S) == IF S = {} THEN 0 ELSE CHOOSE c \in S : \A d \in S : d <= c

(* KHashMap_Rehash: every entry is pushed on the chain of its hash, in the *)
(* order of the arena.  The mutant forgets the last one.                   *)
OneShort == 1 .. Len(arena) - 1           \* mutant of Rehashed
Rehashed == 1 .. Len(arena)
Bucket(n, b) == {c \in Rehashed : arena[c].hcode % n = b}
Grown ==
  LET n == 2 * hmax + 1
  IN  [hmax   |-> n,
       hentry |-> [b \in 0 .. n - 1 |-> Last(Bucket(n, b))],
       arena  |-> [c \in 1 .. Len(arena) |->
                     [arena[c] EXCEPT !.next =
                        Last(Bucket(n, arena[c].hcode % n) \cap 1 .. c - 1)]]
                  \o FreeList(Len(arena) + 1, Len(arena)),
       unused |-> Len(arena) + 1]

Current == [hmax |-> hmax, hentry |-> hentry, arena |-> arena, unused |-> unused]

NewEntry(n, v) ==
  LET m == IF unused = 0 THEN Grown ELSE Current
      u == m.unused
      b == Hash[n] % m.hmax
  IN  /\ Len(m.arena) <= MaxArena
      /\ hmax' = m.hmax
      /\ arena' = [m.arena EXCEPT ![u] = [hcode |-> Hash[n], key |-> n, value |-> v,
                                          next |-> m.hentry[b]]]
      /\ hentry' = [m.hentry EXCEPT ![b] = u]
      /\ unused' = m.arena[u].next
      /\ size' = size + 1

----------------------------------------------------------------------------
(* A call: KHashMap_getcode of the symbol tables, kMap_getEntry of Map.    *)

Call(o, n, v) ==
  /\ op = "none"
  /\ IF interning THEN o \in {"intern", "find"} ELSE o \in {"get", "set", "remove"}
  /\ op' = o /\ sought' = n /\ stored' = v
  /\ e' = hentry[Hash[n] % hmax]
  /\ answer' = <<>>
  /\ UNCHANGED <<interning, table, list>>

Return == op' = "none" /\ sought' = NULL /\ stored' = 0 /\ e' = 0

AnyName(c) == arena[c].hcode = Hash[sought] \* mutant of Match
Match(c) == arena[c].hcode = Hash[sought] /\ arena[c].key = sought

Walk ==
  /\ op # "none"
  /\ e # 0 /\ ~Match(e)
  /\ e' = arena[e].next
  /\ UNCHANGED <<interning, table, list, op, sought, stored, answer>>

(* The symbol of a name, the value of a key.                               *)
Found ==
  /\ op \in {"intern", "find", "get"}
  /\ e # 0 /\ Match(e)
  /\ answer' = <<sought, arena[e].value>>
  /\ Return
  /\ UNCHANGED <<interning, table, list>>

NotFound ==
  /\ op \in {"find", "get"}
  /\ e = 0
  /\ answer' = <<sought, Absent>>
  /\ Return
  /\ UNCHANGED <<interning, table, list>>

(* A new symbol: the name is put at the end of the list, and its position  *)
(* there is the symbol.                                                    *)
Intern ==
  /\ op = "intern"
  /\ e = 0
  /\ list' = Append(list, sought)
  /\ NewEntry(sought, Len(list))
  /\ e' = IF unused = 0 THEN Len(arena) + 1 ELSE unused
  /\ UNCHANGED <<interning, op, sought, stored, answer>>

Set ==
  /\ op = "set"
  /\ \/ /\ e # 0 /\ Match(e)
        /\ arena' = [arena EXCEPT ![e].value = stored]
        /\ UNCHANGED <<hmax, hentry, unused, size>>
     \/ e = 0 /\ NewEntry(sought, stored)
  /\ Return
  /\ UNCHANGED <<interning, list, answer>>

(* KHashMap_Remove and KHashMap_Unuse: the entry before it in the chain    *)
(* is made to point past it, or the head is, and it is free.               *)
HeadOnly(c) == {}                         \* mutant of Before
Before(c) == {p \in Cell : arena[p].hcode # Free /\ arena[p].next = c}
Remove ==
  /\ op = "remove"
  /\ \/ /\ e # 0 /\ Match(e)
        /\ arena' = [c \in Cell |->
             IF c = e THEN [hcode |-> Free, key |-> arena[e].key, value |-> 0, next |-> unused]
             ELSE IF c \in Before(e) THEN [arena[c] EXCEPT !.next = arena[e].next]
             ELSE arena[c]]
        /\ hentry' = IF Before(e) = {}
             THEN [hentry EXCEPT ![arena[e].hcode % hmax] = arena[e].next] ELSE hentry
        /\ unused' = e
        /\ size' = size - 1
        /\ UNCHANGED hmax
     \/ e = 0 /\ UNCHANGED table
  /\ Return
  /\ UNCHANGED <<interning, list, answer>>

----------------------------------------------------------------------------
Next ==
  \/ \E n \in Name : \/ \E o \in {"intern", "find", "get", "remove"} : Call(o, n, 0)
                     \/ \E v \in Value : Call("set", n, v)
  \/ Walk \/ Found \/ NotFound \/ Intern \/ Set \/ Remove

Spec == Init /\ [][Next]_vars

----------------------------------------------------------------------------
(* Properties.                                                             *)

Entry == [hcode : Nat \cup {Free}, key : Name \cup {NULL}, value : Nat, next : Nat]

TypeOK ==
  /\ interning \in BOOLEAN
  /\ arena \in Seq(Entry)
  /\ hmax \in Nat \ {0} /\ size \in Nat
  /\ hentry \in [0 .. hmax - 1 -> Cell \cup {0}]
  /\ unused \in Cell \cup {0}
  /\ list \in Seq(Name)
  /\ op \in {"none", "intern", "find", "get", "set", "remove"}
  /\ sought \in Name \cup {NULL} /\ stored \in Nat
  /\ e \in Cell \cup {0}
  /\ answer \in {<<>>} \cup (Name \X (Nat \cup {Absent}))

(* Every entry is on the chain of its hash, or on the free list if it is   *)
(* free, and is pointed at once: so no chain is cut, crosses another or    *)
(* runs into the free list, whatever was added and removed before and      *)
(* however often the arena has grown.  No key has two entries.             *)
Links == {<<c, arena[c].next>> : c \in {d \in Cell : arena[d].next # 0}}
Chain(c) == IF c = 0 THEN {} ELSE Reachable({c}, Links)
InUse == {c \in Cell : arena[c].hcode # Free}
Pointers(c) ==
  {b \in 0 .. hmax - 1 : hentry[b] = c} \cup {-p : p \in {q \in Cell : arena[q].next = c}}
ChainsSound ==
  /\ Chain(unused) = Cell \ InUse
  /\ \A b \in 0 .. hmax - 1 : Chain(hentry[b]) = {c \in InUse : arena[c].hcode % hmax = b}
  /\ \A c \in Cell : Cardinality(Pointers(c)) = IF c = unused THEN 0 ELSE 1
  /\ \A c \in InUse : arena[c].hcode = Hash[arena[c].key]
  /\ \A c, d \in InUse : arena[c].key = arena[d].key => c = d
  /\ size = Cardinality(InUse)
(* A call walks the chain of its name's hash, and the entry of the name,   *)
(* if it has one, is not behind it.                                        *)
Searching ==
  /\ op = "none" \/ (interning <=> op \in {"intern", "find"})
  /\ op = "set" => stored \in Value
  /\ op # "none" => sought \in Name /\ e \notin Cell \ InUse
  /\ op # "none" => \A c \in InUse : arena[c].key = sought => c \in Chain(e)
IInv == TypeOK /\ ChainsSound /\ Searching

(* A symbol and its name determine each other: KSymbol_text of a symbol is *)
(* the name it was given for, and no name has a second symbol              *)
(* (KHashMap_getcode, Ksymbol, KfileId, KpackageId).                       *)
SymbolsAndNames ==
  interning =>
    /\ IsInjective(list)
    /\ \A c \in InUse : arena[c].value < Len(list) /\ list[arena[c].value + 1] = arena[c].key
    /\ \A s \in DOMAIN list : \E c \in InUse : arena[c].key = list[s]

(* A table implements a map from names to values.  A name that is removed  *)
(* is forgotten: it is as if it was never there.                           *)
EntryOf(n) == CHOOSE c \in InUse : arena[c].key = n
Content == [n \in Name |-> IF \E c \in InUse : arena[c].key = n
                           THEN arena[EntryOf(n)].value ELSE Absent]
Map == INSTANCE PropertyMap WITH
  Key <- Name, Value <- Value \cup 0 .. MaxArena, Removed <- Absent,
  map <- Content, mode <- "none", pending <- [n \in {} |-> Absent]
MapSpec == Map!Spec
=============================================================================
