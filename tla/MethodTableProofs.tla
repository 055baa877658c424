------------------------- MODULE MethodTableProofs --------------------------
(***************************************************************************)
(* Proofs about MethodTable, for any name spaces, classes and signatures,  *)
(* any order that qsort leaves, and lists of any length.                   *)
(***************************************************************************)
EXTENDS MethodTable, SequenceTheorems, FiniteSetTheorems, TLAPS

----------------------------------------------------------------------------
(* Numbers.                                                                *)

LEMMA LeastNat ==
  ASSUME NEW T \in SUBSET Nat, T # {}
  PROVE  \E m \in T : \A k \in T : m <= k
<1> DEFINE R == OpToRel(<, Nat)
<1>1. IsWellFoundedOn(R, Nat)
  BY NatLessThanWellFounded
<1>2. \A a, b \in Nat : <<a, b>> \notin R => ~ (a < b)
  BY DEF OpToRel
<1> HIDE DEF R
<1>3. PICK m \in T : \A k \in T : <<k, m>> \notin R
  BY <1>1, WFMin
<1>4. ASSUME NEW k \in T PROVE m <= k
  <2>1. m \in Nat /\ k \in Nat
    OBVIOUS
  <2>2. ~ (k < m)
    BY <1>2, <1>3, <2>1, Zenon
  <2> QED
    BY <2>1, <2>2
<1> QED
  BY <1>4

LEMMA Induct ==
  ASSUME NEW T \in SUBSET Nat, 0 \in T, \A n \in Nat : n \in T => n + 1 \in T
  PROVE  \A n \in Nat : n \in T
<1> SUFFICES ASSUME Nat \ T # {} PROVE FALSE
  OBVIOUS
<1>1. PICK m \in Nat \ T : \A k \in Nat \ T : m <= k
  BY LeastNat
<1>2. m \in Nat /\ m # 0 /\ m - 1 \in Nat /\ ~ (m <= m - 1) /\ (m - 1) + 1 = m
  BY <1>1
<1>3. m - 1 \in T
  BY <1>1, <1>2
<1> QED
  BY <1>1, <1>2, <1>3

(* One key for a class and a name.                                         *)
LEMMA KeysApart ==
  \A c, d \in Class, n, m \in Name :
    Key(c, n) \in Nat /\ (Key(c, n) = Key(d, m) <=> c = d /\ n = m)
<1>1. NameCount \in Nat /\ \A c \in Class : c \in Nat
  BY MethodAssumption
<1>2. ASSUME NEW c \in Nat, NEW d \in Nat, c < d, NEW n \in Name, NEW m \in Name
      PROVE  c * NameCount + n < d * NameCount + m
  <2>1. n \in Nat /\ m \in Nat /\ n < NameCount
    BY <1>1 DEF Name
  <2>2. PICK k \in Nat : d = c + 1 + k
    <3>1. d - c - 1 \in Nat /\ d = c + 1 + (d - c - 1)
      BY <1>2
    <3> QED
      BY <3>1
  <2>3. d * NameCount = c * NameCount + NameCount + k * NameCount
    BY <1>1, <2>2
  <2>4. k * NameCount \in Nat /\ c * NameCount \in Nat
    BY <1>1, <2>2
  <2> QED
    BY <1>1, <2>1, <2>3, <2>4
<1>3. ASSUME NEW c \in Class, NEW d \in Class, NEW n \in Name, NEW m \in Name
      PROVE  Key(c, n) \in Nat /\ (Key(c, n) = Key(d, m) <=> c = d /\ n = m)
  <2>1. c \in Nat /\ d \in Nat /\ n \in Nat /\ m \in Nat
    BY <1>1 DEF Name
  <2>2. c * NameCount \in Nat /\ d * NameCount \in Nat
    BY <1>1, <2>1
  <2>3. c < d \/ d < c \/ c = d
    BY <2>1
  <2>4. c < d => c * NameCount + n < d * NameCount + m
    BY <1>2, <2>1
  <2>5. d < c => d * NameCount + m < c * NameCount + n
    BY <1>2, <2>1
  <2> QED
    BY <2>1, <2>2, <2>3, <2>4, <2>5 DEF Key
<1> QED
  BY <1>3

----------------------------------------------------------------------------
(* The binary search.                                                      *)

Intervals(k) == (0 .. k) \X (0 .. k)
Step(f, s, key, r) ==
  LET p == (r[2] + r[1]) \div 2
  IN  IF r[1] >= r[2] THEN 0
      ELSE IF Method_id(s[p + 1]) = key THEN p + 1
      ELSE IF Method_id(s[p + 1]) < key THEN f[<<p + 1, r[2]>>]
      ELSE f[<<r[1], p>>]

LEMMA Halves ==
  ASSUME NEW k \in Nat, NEW min \in 0 .. k, NEW max \in 0 .. k, min < max
  PROVE  LET p == (max + min) \div 2
         IN  /\ p \in Nat /\ min <= p /\ p < max /\ p \in 0 .. k /\ p + 1 \in 0 .. k
             /\ p + 1 \in 1 .. k /\ p + 1 \in min + 1 .. max
             /\ max - (p + 1) < max - min /\ p - min < max - min
             /\ max - (p + 1) \in Nat /\ p - min \in Nat
OBVIOUS

(* The recursion ends: there is a function that is as search is defined.   *)
LEMMA SearchExists ==
  ASSUME NEW k \in Nat, NEW s, NEW key
  PROVE  \E f : f = [r \in Intervals(k) |-> Step(f, s, key, r)]
<1> DEFINE Upto(f, d) == \A r \in Intervals(k) : r[2] - r[1] <= d => f[r] = Step(f, s, key, r)
           T == {d \in Nat : \E f : f = [r \in Intervals(k) |-> f[r]] /\ Upto(f, d)}
<1>1. 0 \in T
  <2> DEFINE f == [r \in Intervals(k) |-> 0]
  <2>1. ASSUME NEW r \in Intervals(k), r[2] - r[1] <= 0 PROVE f[r] = Step(f, s, key, r)
    <3>1. r[1] \in Nat /\ r[2] \in Nat /\ r[1] >= r[2]
      BY <2>1 DEF Intervals
    <3> QED
      BY <3>1 DEF Step
  <2>2. f = [r \in Intervals(k) |-> f[r]]
    OBVIOUS
  <2> HIDE DEF f
  <2> QED
    BY <2>1, <2>2
<1>2. ASSUME NEW d \in Nat, d \in T PROVE d + 1 \in T
  <2>1. PICK f : f = [r \in Intervals(k) |-> f[r]] /\ Upto(f, d)
    BY <1>2
  <2> DEFINE g == [r \in Intervals(k) |-> IF r[2] - r[1] <= d THEN f[r] ELSE Step(f, s, key, r)]
  <2>2. ASSUME NEW r \in Intervals(k), r[2] - r[1] <= d + 1 PROVE g[r] = Step(g, s, key, r)
    <3>1. PICK min \in 0 .. k, max \in 0 .. k : r = <<min, max>> /\ r[1] = min /\ r[2] = max
      BY DEF Intervals
    <3>2. g[r] = Step(f, s, key, r)
      BY <2>1
    <3>3. CASE min >= max
      BY <3>1, <3>2, <3>3 DEF Step
    <3>4. CASE min < max
      <4> DEFINE p == (max + min) \div 2
      <4>1. /\ p \in 0 .. k /\ p + 1 \in 0 .. k
            /\ max - (p + 1) <= d /\ p - min <= d
        BY <2>2, <3>1, <3>4, Halves
      <4> HIDE DEF p
      <4>2. g[<<p + 1, max>>] = f[<<p + 1, max>>] /\ g[<<min, p>>] = f[<<min, p>>]
        BY <4>1 DEF Intervals
      <4> HIDE DEF g
      <4> QED
        BY <3>1, <3>2, <4>2 DEF Step, p
    <3> QED
      BY <3>3, <3>4
  <2>3. g = [r \in Intervals(k) |-> g[r]]
    OBVIOUS
  <2> HIDE DEF g
  <2> QED
    BY <2>2, <2>3
<1>3. k \in T
  <2> HIDE DEF T
  <2>1. T \subseteq Nat
    BY DEF T
  <2> QED
    BY <1>1, <1>2, <2>1, Induct
<1>4. PICK f : f = [r \in Intervals(k) |-> f[r]] /\ Upto(f, k)
  BY <1>3
<1>5. \A r \in Intervals(k) : f[r] = Step(f, s, key, r)
  <2>1. \A r \in Intervals(k) : r[2] - r[1] <= k
    BY DEF Intervals
  <2> QED
    BY <1>4, <2>1
<1>6. f = [r \in Intervals(k) |-> Step(f, s, key, r)]
  BY <1>4, <1>5
<1> QED
  BY <1>6

LEMMA PositionIs ==
  ASSUME NEW k \in Nat, NEW s, NEW key
  PROVE  \E f : /\ \A r \in Intervals(k) : f[r] = Step(f, s, key, r)
                /\ Position(s, k, key) = f[<<0, k>>]
<1> DEFINE f == CHOOSE f : f = [r \in Intervals(k) |-> Step(f, s, key, r)]
<1>1. Position(s, k, key) = f[<<0, k>>]
  BY DEF Position, Step, Intervals
<1>2. f = [r \in Intervals(k) |-> Step(f, s, key, r)]
  BY SearchExists
<1> HIDE DEF f
<1>3. \A r \in Intervals(k) : f[r] = Step(f, s, key, r)
  BY <1>2
<1> QED
  BY <1>1, <1>3

(* It finds a method with the key if there is one.                         *)
Ordered(s, k) == \A i, j \in 1 .. k : i < j => Method_id(s[i]) <= Method_id(s[j])
Ids(s, k) == \A i \in 1 .. k : Method_id(s[i]) \in Nat

LEMMA PositionFinds ==
  ASSUME NEW k \in Nat, NEW s, NEW key \in Nat, Ids(s, k), Ordered(s, k)
  PROVE  \/ Position(s, k, key) = 0 /\ \A i \in 1 .. k : Method_id(s[i]) # key
         \/ Position(s, k, key) \in 1 .. k /\ Method_id(s[Position(s, k, key)]) = key
<1>1. PICK f : /\ \A r \in Intervals(k) : f[r] = Step(f, s, key, r)
               /\ Position(s, k, key) = f[<<0, k>>]
  BY PositionIs
<1> DEFINE Right(min, max, x) ==
             \/ x = 0 /\ \A i \in min + 1 .. max : Method_id(s[i]) # key
             \/ x \in 1 .. k /\ Method_id(s[x]) = key
           T == {d \in Nat : \A min, max \in 0 .. k : max - min <= d => Right(min, max, f[<<min, max>>])}
<1>2. ASSUME NEW min \in 0 .. k, NEW max \in 0 .. k, min >= max
      PROVE  Right(min, max, f[<<min, max>>])
  <2>1. f[<<min, max>>] = 0
    BY <1>1, <1>2 DEF Intervals, Step
  <2>2. min + 1 .. max = {}
    BY <1>2
  <2> QED
    BY <2>1, <2>2
<1>3. 0 \in T
  BY <1>2
<1>4. ASSUME NEW d \in Nat, d \in T PROVE d + 1 \in T
  <2> SUFFICES ASSUME NEW min \in 0 .. k, NEW max \in 0 .. k, max - min <= d + 1, min < max
               PROVE  Right(min, max, f[<<min, max>>])
    BY <1>2
  <2> DEFINE p == (max + min) \div 2
  <2>1. /\ p \in Nat /\ min <= p /\ p < max /\ p \in 0 .. k /\ p + 1 \in 0 .. k /\ p + 1 \in 1 .. k
        /\ max - (p + 1) <= d /\ p - min <= d
    BY Halves
  <2>2. f[<<min, max>>] = IF Method_id(s[p + 1]) = key THEN p + 1
                          ELSE IF Method_id(s[p + 1]) < key THEN f[<<p + 1, max>>]
                          ELSE f[<<min, p>>]
    BY <1>1 DEF Intervals, Step
  <2> HIDE DEF p
  <2>3. Right(p + 1, max, f[<<p + 1, max>>]) /\ Right(min, p, f[<<min, p>>])
    BY <1>4, <2>1
  <2>4. Method_id(s[p + 1]) \in Nat
    BY <2>1 DEF Ids
  <2>5. CASE Method_id(s[p + 1]) = key
    BY <2>1, <2>2, <2>5
  <2>6. CASE Method_id(s[p + 1]) < key
    <3>1. ASSUME NEW i \in min + 1 .. p + 1 PROVE Method_id(s[i]) # key
      <4>1. i \in 1 .. k /\ Method_id(s[i]) \in Nat /\ (i < p + 1 \/ i = p + 1)
        BY <2>1 DEF Ids
      <4>2. Method_id(s[i]) <= Method_id(s[p + 1])
        BY <2>1, <2>4, <4>1 DEF Ordered
      <4> QED
        BY <2>4, <2>6, <4>1, <4>2
    <3>2. \A i \in min + 1 .. max : i \in min + 1 .. p + 1 \/ i \in (p + 1) + 1 .. max
      BY <2>1
    <3> QED
      BY <2>2, <2>3, <2>6, <3>1, <3>2
  <2>7. CASE Method_id(s[p + 1]) > key
    <3>1. ASSUME NEW i \in p + 1 .. max PROVE Method_id(s[i]) # key
      <4>1. i \in 1 .. k /\ Method_id(s[i]) \in Nat /\ (p + 1 < i \/ i = p + 1)
        BY <2>1 DEF Ids
      <4>2. Method_id(s[p + 1]) <= Method_id(s[i])
        BY <2>1, <2>4, <4>1 DEF Ordered
      <4> QED
        BY <2>4, <2>7, <4>1, <4>2
    <3>2. \A i \in min + 1 .. max : i \in min + 1 .. p \/ i \in p + 1 .. max
      BY <2>1
    <3>3. f[<<min, max>>] = f[<<min, p>>]
      BY <2>2, <2>4, <2>7
    <3> QED
      BY <2>3, <3>1, <3>2, <3>3
  <2> QED
    BY <2>4, <2>5, <2>6, <2>7
<1>5. k \in T
  <2> HIDE DEF T
  <2>1. T \subseteq Nat
    BY DEF T
  <2> QED
    BY <1>3, <1>4, <2>1, Induct
<1>6. 0 \in 0 .. k /\ k \in 0 .. k /\ k - 0 <= k
  OBVIOUS
<1>7. Right(0, k, f[<<0, k>>])
  BY <1>5, <1>6
<1> QED
  BY <1>1, <1>7

(* All the methods with the key are visited, and no others.                *)
LEMMA VisitedIs ==
  ASSUME NEW s, NEW n \in Nat, Len(s) = n, DOMAIN s = 1 .. n, NEW k \in 0 .. n, NEW key \in Nat,
         Ids(s, n), Ordered(s, k)
  PROVE  Visited(s, k, key) = {i \in 1 .. n : Method_id(s[i]) = key}
<1> DEFINE p == Position(s, k, key)
           B == IF p = 0 THEN {} ELSE Around(s, k, key, p)
<1>1. k \in Nat /\ Ids(s, k) /\ \A i : i \in 1 .. k => i \in 1 .. n
  BY DEF Ids
<1>2. \/ p = 0 /\ \A i \in 1 .. k : Method_id(s[i]) # key
      \/ p \in 1 .. k /\ Method_id(s[p]) = key
  BY <1>1, PositionFinds
<1> HIDE DEF p
<1>3. B = {i \in 1 .. k : Method_id(s[i]) = key}
  <2>1. CASE p = 0 /\ \A i \in 1 .. k : Method_id(s[i]) # key
    BY <2>1
  <2>2. CASE p \in 1 .. k /\ Method_id(s[p]) = key
    <3>1. p # 0 /\ B = Around(s, k, key, p)
      BY <2>2
    <3>2. ASSUME NEW i \in 1 .. k, \A j \in (i .. p) \cup (p .. i) : Method_id(s[j]) = key
          PROVE  Method_id(s[i]) = key
      <4>1. i \in (i .. p) \cup (p .. i)
        BY <2>2
      <4> QED
        BY <3>2, <4>1
    <3>3. ASSUME NEW i \in 1 .. k, Method_id(s[i]) = key, NEW j \in (i .. p) \cup (p .. i)
          PROVE  Method_id(s[j]) = key
      <4>1. /\ j \in 1 .. k /\ Method_id(s[j]) \in Nat
            /\ \/ (i < j \/ i = j) /\ (j < p \/ j = p)
               \/ (p < j \/ p = j) /\ (j < i \/ j = i)
        BY <1>1, <2>2 DEF Ids
      <4>2. \/ Method_id(s[i]) <= Method_id(s[j]) /\ Method_id(s[j]) <= Method_id(s[p])
            \/ Method_id(s[p]) <= Method_id(s[j]) /\ Method_id(s[j]) <= Method_id(s[i])
        BY <2>2, <3>3, <4>1 DEF Ordered
      <4> QED
        BY <2>2, <3>3, <4>1, <4>2
    <3> QED
      BY <3>1, <3>2, <3>3 DEF Around
  <2> QED
    BY <1>2, <2>1, <2>2
<1>4. Visited(s, k, key) = B \cup {i \in k + 1 .. n : Method_id(s[i]) = key}
  BY DEF Visited, p
<1>5. \A i : i \in 1 .. n <=> i \in 1 .. k \/ i \in k + 1 .. n
  OBVIOUS
<1> HIDE DEF B
<1> QED
  BY <1>3, <1>4, <1>5

----------------------------------------------------------------------------
(* The orders in which name spaces and classes are searched.               *)

Chain(F, S) ==
  /\ F \in [S -> Seq(S)]
  /\ \A x \in S : F[x] # <<>> /\ Head(F[x]) = x
  /\ \A x \in S : \A i \in DOMAIN F[x] : F[F[x][i]] = SubSeq(F[x], i, Len(F[x]))
  /\ \A x \in S : IsInjective(F[x])

LEMMA Chains == Chain(Lineage, NameSpaces) /\ Chain(Ancestry, Class)
BY MethodAssumption DEF Chain

LEMMA ChainIs ==
  ASSUME NEW S, NEW F, Chain(F, S), NEW x \in S
  PROVE  /\ F[x] \in Seq(S) /\ Len(F[x]) \in Nat \ {0} /\ DOMAIN F[x] = 1 .. Len(F[x])
         /\ F[x][1] = x /\ \A i \in 1 .. Len(F[x]) : F[x][i] \in S
         /\ \A i, j \in 1 .. Len(F[x]) : F[x][i] = F[x][j] => i = j
         /\ \A i \in 1 .. Len(F[x]) :
              /\ Len(F[F[x][i]]) = Len(F[x]) - i + 1
              /\ \A j \in 1 .. Len(F[x]) - i + 1 : F[F[x][i]][j] = F[x][i + j - 1]
<1>1. F[x] \in Seq(S) /\ F[x] # <<>> /\ Head(F[x]) = x
  BY DEF Chain
<1>2. Len(F[x]) \in Nat \ {0} /\ DOMAIN F[x] = 1 .. Len(F[x]) /\ \A i \in 1 .. Len(F[x]) : F[x][i] \in S
  BY <1>1, LenProperties, EmptySeq, ElementOfSeq
<1>3. F[x][1] = x
  BY <1>1, HeadTailProperties
<1>4. \A i, j \in 1 .. Len(F[x]) : F[x][i] = F[x][j] => i = j
  BY <1>2 DEF Chain, IsInjective
<1>5. ASSUME NEW i \in 1 .. Len(F[x])
      PROVE  /\ Len(F[F[x][i]]) = Len(F[x]) - i + 1
             /\ \A j \in 1 .. Len(F[x]) - i + 1 : F[F[x][i]][j] = F[x][i + j - 1]
  <2>1. F[F[x][i]] = SubSeq(F[x], i, Len(F[x]))
    BY <1>2 DEF Chain
  <2>2. i \in Nat /\ Len(F[x]) \in Nat /\ i <= Len(F[x])
    BY <1>2
  <2> QED
    BY <1>1, <2>1, <2>2
<1> QED
  BY <1>1, <1>2, <1>3, <1>4, <1>5

----------------------------------------------------------------------------
(* The places of a search, and the first of them.                          *)

LEMMA PlacesAre ==
  ASSUME NEW n \in NameSpaces, NEW c \in Class
  PROVE  /\ Places(n, c) = (1 .. Len(Ancestry[c])) \X (1 .. Len(Lineage[n]) + 1)
         /\ \A p \in Places(n, c) :
              /\ p = <<p[1], p[2]>> /\ p[1] \in Nat \ {0} /\ p[2] \in Nat \ {0}
              /\ p[1] \in 1 .. Len(Ancestry[c]) /\ p[2] \in 1 .. Len(Lineage[n]) + 1
              /\ ClassAt(c, p) \in Class /\ ListAt(n, c, p) \in ListId
<1>1. /\ Len(Lineage[n]) \in Nat /\ \A i \in 1 .. Len(Lineage[n]) : Lineage[n][i] \in NameSpaces
      /\ Len(Ancestry[c]) \in Nat /\ \A i \in 1 .. Len(Ancestry[c]) : Ancestry[c][i] \in Class
      /\ DOMAIN Ancestry[c] = 1 .. Len(Ancestry[c])
  BY Chains, ChainIs
<1>2. Places(n, c) = (1 .. Len(Ancestry[c])) \X (1 .. Len(Lineage[n]) + 1)
  BY <1>1 DEF Places
<1>3. ASSUME NEW p \in Places(n, c)
      PROVE  /\ p = <<p[1], p[2]>> /\ p[1] \in Nat \ {0} /\ p[2] \in Nat \ {0}
             /\ p[1] \in 1 .. Len(Ancestry[c]) /\ p[2] \in 1 .. Len(Lineage[n]) + 1
             /\ ClassAt(c, p) \in Class /\ ListAt(n, c, p) \in ListId
  <2>1. /\ p = <<p[1], p[2]>> /\ p[1] \in 1 .. Len(Ancestry[c]) /\ p[2] \in 1 .. Len(Lineage[n]) + 1
    BY <1>2
  <2>2. ClassAt(c, p) \in Class
    BY <1>1, <2>1 DEF ClassAt
  <2>3. ListAt(n, c, p) \in ListId
    <3>1. p[2] <= Len(Lineage[n]) => p[2] \in 1 .. Len(Lineage[n])
      BY <1>1, <2>1
    <3> QED
      BY <1>1, <2>2, <3>1 DEF ListAt, ListId
  <2> QED
    BY <1>1, <2>1, <2>2, <2>3
<1> QED
  BY <1>2, <1>3

LEMMA FirstPlace ==
  ASSUME NEW n \in NameSpaces, NEW c \in Class, NEW H \in SUBSET Places(n, c), H # {}
  PROVE  \E p \in H : \A q \in H : ~Earlier(q, p) /\ (q # p => Earlier(p, q))
<1> DEFINE A == {p[1] : p \in H}
<1>1. \A p \in H : p = <<p[1], p[2]>> /\ p[1] \in Nat /\ p[2] \in Nat
  BY PlacesAre
<1>2. A \in SUBSET Nat /\ A # {}
  BY <1>1
<1>3. PICK a \in A : \A x \in A : a <= x
  <2> HIDE DEF A
  <2> QED
    BY <1>2, LeastNat
<1> DEFINE B == {p[2] : p \in {q \in H : q[1] = a}}
<1>4. B \in SUBSET Nat /\ B # {}
  BY <1>1, <1>3
<1>5. PICK b \in B : \A x \in B : b <= x
  <2> HIDE DEF B
  <2> QED
    BY <1>4, LeastNat
<1>6. PICK p \in H : p[1] = a /\ p[2] = b
  BY <1>5
<1>7. ASSUME NEW q \in H PROVE ~Earlier(q, p) /\ (q # p => Earlier(p, q))
  <2>1. a <= q[1] /\ (q[1] = a => b <= q[2])
    BY <1>3, <1>5
  <2>2. q = <<q[1], q[2]>> /\ p = <<p[1], p[2]>>
    BY <1>1
  <2>3. q # p => q[1] # a \/ q[2] # b
    BY <1>6, <2>2
  <2>4. /\ q[1] \in Nat /\ q[2] \in Nat /\ a \in Nat /\ b \in Nat
    BY <1>1, <1>6
  <2> QED
    BY <1>6, <2>1, <2>3, <2>4 DEF Earlier
<1> QED
  BY <1>7

----------------------------------------------------------------------------
(* Meaning, as a function of the methods and the lists.                    *)

ThereIn(M, L, n, c, p, name, sig) ==
  {m \in ToSet(L[ListAt(n, c, p)]) :
     M[m].class = ClassAt(c, p) /\ M[m].name = name /\ M[m].sig = sig}
HeldIn(M, L, n, c, name, sig) ==
  {p \in Places(n, c) : ThereIn(M, L, n, c, p, name, sig) # {}}
MeaningIn(M, L, n, c, name, sig) ==
  UNION {ThereIn(M, L, n, c, p, name, sig) :
           p \in {q \in HeldIn(M, L, n, c, name, sig) :
                    \A r \in HeldIn(M, L, n, c, name, sig) : ~Earlier(r, q)}}

LEMMA MeaningIs ==
  \A n, c, name, sig :
    /\ Meaning(n, c, name, sig) = MeaningIn(methods, list, n, c, name, sig)
    /\ Meaning(n, c, name, sig)' = MeaningIn(methods', list', n, c, name, sig)
BY DEF Meaning, MeaningIn, HeldIn, ThereIn, There

(* The invariants of the methods M and the lists L, sorted up to S.        *)
ListedIn(M, L) ==
  /\ \A m \in DOMAIN M : \E l \in ListId : m \in ToSet(L[l])
  /\ \A l, k \in ListId : \A i \in DOMAIN L[l], j \in DOMAIN L[k] : L[l][i] = L[k][j] => l = k /\ i = j
  /\ \A l \in ListId : \A i, j \in DOMAIN L[l] :
       /\ M[L[l][i]].class = M[L[l][j]].class /\ M[L[l][i]].name = M[L[l][j]].name
       /\ M[L[l][i]].sig = M[L[l][j]].sig
       => i = j
IdIn(M, m) == Key(M[m].class, M[m].name)
SortedIn(M, L, S) ==
  \A l \in ListId :
    /\ S[l] <= Len(L[l])
    /\ \A i, j \in 1 .. S[l] : i < j => IdIn(M, L[l][i]) <= IdIn(M, L[l][j])
TypedIn(M, L, S) ==
  M \in Seq(Method) /\ L \in [ListId -> Seq(DOMAIN M)] /\ S \in [ListId -> Nat]
SoundIn(M, L, S) == TypedIn(M, L, S) /\ ListedIn(M, L) /\ SortedIn(M, L, S)

LEMMA SoundIs ==
  /\ TypeOK /\ ListsSound <=> SoundIn(methods, list, sorted) /\ calls \in Seq(Call)
  /\ (TypeOK /\ ListsSound)' <=> SoundIn(methods', list', sorted') /\ calls' \in Seq(Call)
<1>1. TypeOK <=> TypedIn(methods, list, sorted) /\ calls \in Seq(Call)
  BY DEF TypeOK, TypedIn
<1>2. ListsSound <=> ListedIn(methods, list) /\ SortedIn(methods, list, sorted)
  BY DEF ListsSound, ListedIn, SortedIn, IdIn, Method_id
<1>3. TypeOK' <=> TypedIn(methods', list', sorted') /\ calls' \in Seq(Call)
  BY DEF TypeOK, TypedIn
<1>4. ListsSound' <=> ListedIn(methods', list') /\ SortedIn(methods', list', sorted')
  BY DEF ListsSound, ListedIn, SortedIn, IdIn, Method_id
<1> QED
  BY <1>1, <1>2, <1>3, <1>4 DEF SoundIn

LEMMA TypedAre ==
  ASSUME NEW M, NEW L, NEW S, TypedIn(M, L, S)
  PROVE  /\ Len(M) \in Nat /\ DOMAIN M = 1 .. Len(M)
         /\ \A m \in DOMAIN M : M[m] \in Method /\ M[m].class \in Class /\ M[m].name \in Name
         /\ \A l \in ListId : /\ L[l] \in Seq(DOMAIN M) /\ Len(L[l]) \in Nat
                              /\ DOMAIN L[l] = 1 .. Len(L[l]) /\ S[l] \in Nat
                              /\ \A i \in 1 .. Len(L[l]) : L[l][i] \in DOMAIN M
                              /\ ToSet(L[l]) \subseteq DOMAIN M
<1>1. M \in Seq(Method) /\ Len(M) \in Nat /\ DOMAIN M = 1 .. Len(M)
  BY LenProperties DEF TypedIn
<1>2. \A m \in DOMAIN M : M[m] \in Method
  BY <1>1, ElementOfSeq
<1>3. ASSUME NEW l \in ListId
      PROVE  /\ L[l] \in Seq(DOMAIN M) /\ Len(L[l]) \in Nat
             /\ DOMAIN L[l] = 1 .. Len(L[l]) /\ S[l] \in Nat
             /\ \A i \in 1 .. Len(L[l]) : L[l][i] \in DOMAIN M
             /\ ToSet(L[l]) \subseteq DOMAIN M
  <2>1. L[l] \in Seq(DOMAIN M) /\ S[l] \in Nat
    BY DEF TypedIn
  <2>2. Len(L[l]) \in Nat /\ DOMAIN L[l] = 1 .. Len(L[l]) /\ \A i \in 1 .. Len(L[l]) : L[l][i] \in DOMAIN M
    BY <2>1, LenProperties, ElementOfSeq
  <2> QED
    BY <2>1, <2>2 DEF ToSet
<1> QED
  BY <1>1, <1>2, <1>3 DEF Method

(* What a call means is one method, or there is none with the name and     *)
(* signature at any place.                                                 *)
Nowhere(M, L, n, c, name, sig) ==
  \A p \in Places(n, c) : ThereIn(M, L, n, c, p, name, sig) = {}
FirstAt(M, L, n, c, name, sig, p, m) ==
  /\ ThereIn(M, L, n, c, p, name, sig) = {m}
  /\ \A q \in Places(n, c) : Earlier(q, p) => ThereIn(M, L, n, c, q, name, sig) = {}
  /\ \A q \in Places(n, c) :
       ThereIn(M, L, n, c, q, name, sig) # {} /\ q # p => Earlier(p, q)

LEMMA MeaningOne ==
  ASSUME NEW M, NEW L, ListedIn(M, L), NEW n \in NameSpaces, NEW c \in Class, NEW name, NEW sig
  PROVE  \/ MeaningIn(M, L, n, c, name, sig) = {} /\ Nowhere(M, L, n, c, name, sig)
         \/ \E p \in Places(n, c) : \E m :
              MeaningIn(M, L, n, c, name, sig) = {m} /\ FirstAt(M, L, n, c, name, sig, p, m)
<1> DEFINE H == HeldIn(M, L, n, c, name, sig)
           Th(p) == ThereIn(M, L, n, c, p, name, sig)
<1>1. H \in SUBSET Places(n, c) /\ \A p \in Places(n, c) : p \in H <=> Th(p) # {}
  BY DEF HeldIn
<1>2. MeaningIn(M, L, n, c, name, sig) = UNION {Th(p) : p \in {q \in H : \A r \in H : ~Earlier(r, q)}}
  BY DEF MeaningIn
<1>3. ASSUME NEW p \in Places(n, c), NEW a \in Th(p), NEW b \in Th(p) PROVE a = b
  <2>1. ListAt(n, c, p) \in ListId
    BY PlacesAre
  <2>2. PICK i \in DOMAIN L[ListAt(n, c, p)], j \in DOMAIN L[ListAt(n, c, p)] :
          a = L[ListAt(n, c, p)][i] /\ b = L[ListAt(n, c, p)][j]
    BY DEF ThereIn, ToSet
  <2>3. M[a].class = M[b].class /\ M[a].name = M[b].name /\ M[a].sig = M[b].sig
    BY DEF ThereIn
  <2> QED
    BY <2>1, <2>2, <2>3 DEF ListedIn
<1> HIDE DEF H, Th
<1>4. CASE H = {}
  BY <1>1, <1>2, <1>4 DEF Th, Nowhere
<1>5. CASE H # {}
  <2>1. PICK p \in H : \A q \in H : ~Earlier(q, p) /\ (q # p => Earlier(p, q))
    BY <1>1, <1>5, FirstPlace
  <2>2. PICK m : m \in Th(p)
    BY <1>1, <2>1
  <2>3. Th(p) = {m}
    BY <1>1, <1>3, <2>1, <2>2
  <2>4. {q \in H : \A r \in H : ~Earlier(r, q)} = {p}
    BY <2>1
  <2>5. MeaningIn(M, L, n, c, name, sig) = {m}
    BY <1>2, <2>3, <2>4
  <2>6. /\ \A q \in Places(n, c) : Earlier(q, p) => Th(q) = {}
        /\ \A q \in Places(n, c) : Th(q) # {} /\ q # p => Earlier(p, q)
    BY <1>1, <2>1
  <2> QED
    BY <1>1, <2>1, <2>3, <2>5, <2>6 DEF Th, FirstAt
<1> QED
  BY <1>4, <1>5

(* Methods of the same class, name and signature in the same lists, in     *)
(* whatever order, mean the same.                                          *)
Like(M, N, m) == M[m].class = N[m].class /\ M[m].name = N[m].name /\ M[m].sig = N[m].sig

LEMMA MeaningSame ==
  ASSUME NEW M, NEW L, NEW N, NEW K,
         \A l \in ListId : ToSet(K[l]) = ToSet(L[l]) /\ \A m \in ToSet(L[l]) : Like(M, N, m)
  PROVE  \A n \in NameSpaces, c \in Class : \A name, sig :
           /\ \A p \in Places(n, c) : ThereIn(N, K, n, c, p, name, sig) = ThereIn(M, L, n, c, p, name, sig)
           /\ MeaningIn(N, K, n, c, name, sig) = MeaningIn(M, L, n, c, name, sig)
<1> SUFFICES ASSUME NEW n \in NameSpaces, NEW c \in Class, NEW name, NEW sig
    PROVE  /\ \A p \in Places(n, c) : ThereIn(N, K, n, c, p, name, sig) = ThereIn(M, L, n, c, p, name, sig)
           /\ MeaningIn(N, K, n, c, name, sig) = MeaningIn(M, L, n, c, name, sig)
  OBVIOUS
<1>1. ASSUME NEW p \in Places(n, c)
      PROVE  ThereIn(N, K, n, c, p, name, sig) = ThereIn(M, L, n, c, p, name, sig)
  <2>1. ListAt(n, c, p) \in ListId
    BY PlacesAre
  <2> QED
    BY <2>1 DEF ThereIn, Like
<1>2. HeldIn(N, K, n, c, name, sig) = HeldIn(M, L, n, c, name, sig)
  BY <1>1 DEF HeldIn
<1>3. \A p \in HeldIn(M, L, n, c, name, sig) : p \in Places(n, c)
  BY DEF HeldIn
<1>4. MeaningIn(N, K, n, c, name, sig) = MeaningIn(M, L, n, c, name, sig)
  <2> DEFINE F == {q \in HeldIn(M, L, n, c, name, sig) :
                     \A r \in HeldIn(M, L, n, c, name, sig) : ~Earlier(r, q)}
  <2>1. /\ MeaningIn(N, K, n, c, name, sig) = UNION {ThereIn(N, K, n, c, p, name, sig) : p \in F}
        /\ MeaningIn(M, L, n, c, name, sig) = UNION {ThereIn(M, L, n, c, p, name, sig) : p \in F}
    BY <1>2 DEF MeaningIn
  <2>2. \A p \in F : p \in Places(n, c)
    BY <1>3
  <2> HIDE DEF F
  <2>3. {ThereIn(N, K, n, c, p, name, sig) : p \in F} = {ThereIn(M, L, n, c, p, name, sig) : p \in F}
    BY <1>1, <2>2
  <2> QED
    BY <2>1, <2>3
<1> QED
  BY <1>1, <1>4

----------------------------------------------------------------------------
(* Sorting.                                                                *)

LEMMA SortedCopyIs ==
  ASSUME SoundIn(methods, list, sorted), NEW l \in ListId, NEW t \in SortedCopies(list[l])
  PROVE  /\ t \in Seq(DOMAIN methods) /\ Len(t) = Len(list[l]) /\ DOMAIN t = 1 .. Len(list[l])
         /\ ToSet(t) = ToSet(list[l])
         /\ \A i, j \in 1 .. Len(list[l]) : t[i] = t[j] => i = j
         /\ Ordered(t, Len(list[l]))
<1> DEFINE s == list[l]
           D == 1 .. Len(s)
<1>1. /\ s \in Seq(DOMAIN methods) /\ Len(s) \in Nat /\ DOMAIN s = D
      /\ ToSet(s) \subseteq DOMAIN methods
  BY TypedAre DEF SoundIn
<1>2. /\ t \in [D -> ToSet(s)] /\ IsInjective(t)
      /\ \A i, j \in DOMAIN t : i < j => Method_id(t[i]) <= Method_id(t[j])
  BY <1>1 DEF SortedCopies
<1>3. \A i, j \in D : s[i] = s[j] => i = j
  BY <1>1 DEF SoundIn, ListedIn
<1> HIDE DEF s
<1>4. DOMAIN t = D
  BY <1>2
<1>5. t \in Seq(DOMAIN methods) /\ Len(t) = Len(s)
  <2>1. t \in [D -> DOMAIN methods]
    BY <1>1, <1>2
  <2> QED
    BY <1>1, <1>4, <2>1, SeqDef, LenProperties
<1>6. s \in Bijection(D, ToSet(s))
  <2>1. s \in [D -> ToSet(s)]
    <3>1. s = [i \in D |-> s[i]]
      BY <1>1
    <3>2. \A i \in D : s[i] \in ToSet(s)
      BY <1>1 DEF ToSet
    <3> QED
      BY <3>1, <3>2
  <2>2. IsInjective(s)
    BY <1>1, <1>3 DEF IsInjective
  <2>3. \A m \in ToSet(s) : \E i \in D : s[i] = m
    BY <1>1 DEF ToSet
  <2> QED
    BY <2>1, <2>2, <2>3 DEF Bijection, Injection, Surjection
<1>7. IsFiniteSet(D)
  BY <1>1, FS_Interval
<1>8. IsFiniteSet(ToSet(s)) /\ Cardinality(ToSet(s)) = Cardinality(D)
  BY <1>6, <1>7, FS_Bijection DEF ExistsBijection
<1>9. t \in Injection(D, ToSet(s))
  BY <1>2 DEF Injection
<1>10. t \in Surjection(D, ToSet(s))
  BY <1>8, <1>9, FS_Injection
<1>11. ToSet(t) = ToSet(s)
  <2>1. \A i \in D : t[i] \in ToSet(s)
    BY <1>2
  <2>2. \A m \in ToSet(s) : \E i \in D : t[i] = m
    BY <1>10 DEF Surjection
  <2>3. ToSet(t) = {t[i] : i \in D}
    BY <1>4 DEF ToSet
  <2> QED
    BY <2>1, <2>2, <2>3
<1>12. \A i, j \in D : t[i] = t[j] => i = j
  BY <1>2, <1>4 DEF IsInjective
<1>13. Ordered(t, Len(s))
  BY <1>2, <1>4 DEF Ordered
<1> QED
  BY <1>4, <1>5, <1>11, <1>12, <1>13 DEF s

(* Lists that have been sorted.                                            *)
Sorts(T) == DOMAIN T \subseteq ListId /\ \A l \in DOMAIN T : T[l] \in SortedCopies(list[l])

LEMMA ResortedSorts ==
  ASSUME NEW n, NEW c, NEW T \in Resorted(n, c), NEW d, NEW x
  PROVE  Sorts(T) /\ Sorts(Passed(T, n, d, x))
<1>1. Sorts(T)
  <2> DEFINE dirty == {l \in ListId : Dirty(l) /\ \E p \in Places(n, c) : l = ListAt(n, c, p)}
  <2>1. /\ T \in [dirty -> UNION {SortedCopies(list[l]) : l \in dirty}]
        /\ \A l \in dirty : T[l] \in SortedCopies(list[l])
    BY DEF Resorted
  <2>2. dirty \subseteq ListId
    OBVIOUS
  <2> HIDE DEF dirty
  <2> QED
    BY <2>1, <2>2 DEF Sorts
<1>2. Sorts(Passed(T, n, d, x))
  <2> DEFINE U == Passed(T, n, d, x)
             D == {l \in DOMAIN T : \E p \in Places(n, d) :
                     l = ListAt(n, d, p) /\ \A q \in Stops(x) : ~Earlier(q, p)}
  <2>1. U = [l \in D |-> T[l]]
    BY DEF Passed, Restrict
  <2>2. D \subseteq DOMAIN T
    OBVIOUS
  <2> HIDE DEF D, U
  <2>3. Sorts(U)
    BY <1>1, <2>1, <2>2 DEF Sorts
  <2> QED
    BY <2>3 DEF U
<1> QED
  BY <1>1, <1>2

LEMMA SortKeeps ==
  ASSUME SoundIn(methods, list, sorted), NEW T, Sorts(T)
  PROVE  /\ SoundIn(methods, Lists(T), Counts(T))
         /\ \A l \in ListId : ToSet(Lists(T)[l]) = ToSet(list[l])
<1> DEFINE K == Lists(T)
           S == Counts(T)
<1>1. /\ K = [l \in ListId |-> K[l]] /\ S = [l \in ListId |-> S[l]]
      /\ \A l \in ListId : IF l \in DOMAIN T THEN K[l] = T[l] /\ S[l] = Len(list[l])
                           ELSE K[l] = list[l] /\ S[l] = sorted[l]
  BY DEF Lists, Counts
<1> HIDE DEF K, S
<1>2. ASSUME NEW l \in ListId
      PROVE  /\ K[l] \in Seq(DOMAIN methods) /\ Len(K[l]) = Len(list[l]) /\ Len(list[l]) \in Nat
             /\ DOMAIN K[l] = 1 .. Len(list[l]) /\ DOMAIN list[l] = 1 .. Len(list[l])
             /\ ToSet(K[l]) = ToSet(list[l])
             /\ \A i, j \in DOMAIN K[l] : K[l][i] = K[l][j] => i = j
             /\ S[l] \in Nat /\ S[l] <= Len(K[l]) /\ Ordered(K[l], S[l])
  <2>1. /\ list[l] \in Seq(DOMAIN methods) /\ Len(list[l]) \in Nat
        /\ DOMAIN list[l] = 1 .. Len(list[l]) /\ sorted[l] \in Nat
    BY TypedAre DEF SoundIn
  <2>2. CASE l \in DOMAIN T
    <3>1. T[l] \in SortedCopies(list[l]) /\ K[l] = T[l] /\ S[l] = Len(list[l])
      BY <1>1, <2>2 DEF Sorts
    <3> QED
      BY <2>1, <3>1, SortedCopyIs
  <2>3. CASE l \notin DOMAIN T
    <3>1. K[l] = list[l] /\ S[l] = sorted[l]
      BY <1>1, <2>3
    <3>2. \A i, j \in DOMAIN list[l] : list[l][i] = list[l][j] => i = j
      BY DEF SoundIn, ListedIn
    <3>3. sorted[l] <= Len(list[l]) /\ Ordered(list[l], sorted[l])
      BY DEF SoundIn, SortedIn, Ordered, IdIn, Method_id
    <3> QED
      BY <2>1, <3>1, <3>2, <3>3
  <2> QED
    BY <2>2, <2>3
<1>3. TypedIn(methods, K, S)
  BY <1>1, <1>2 DEF SoundIn, TypedIn
<1>4. SortedIn(methods, K, S)
  BY <1>2 DEF SortedIn, Ordered, IdIn, Method_id
<1>5. ASSUME NEW l \in ListId, NEW i \in DOMAIN K[l]
      PROVE  \E j \in DOMAIN list[l] : K[l][i] = list[l][j]
  <2>1. K[l][i] \in ToSet(list[l])
    <3>1. K[l][i] \in ToSet(K[l])
      BY <1>5 DEF ToSet
    <3> QED
      BY <1>2, <3>1
  <2> QED
    BY <2>1 DEF ToSet
<1>6. ListedIn(methods, K)
  <2>1. ListedIn(methods, list)
    BY DEF SoundIn
  <2>2. \A m \in DOMAIN methods : \E l \in ListId : m \in ToSet(K[l])
    BY <1>2, <2>1 DEF ListedIn
  <2>3. ASSUME NEW l \in ListId, NEW k \in ListId, NEW i \in DOMAIN K[l], NEW j \in DOMAIN K[k],
               K[l][i] = K[k][j]
        PROVE  l = k /\ i = j
    <3>1. PICK x \in DOMAIN list[l], y \in DOMAIN list[k] : K[l][i] = list[l][x] /\ K[k][j] = list[k][y]
      BY <1>5
    <3>2. list[l][x] = list[k][y] => l = k /\ x = y
      BY <2>1 DEF ListedIn
    <3>3. list[l][x] = list[k][y]
      BY ONLY <2>3, <3>1
    <3>4. l = k
      BY ONLY <3>2, <3>3
    <3> QED
      BY <1>2, <2>3, <3>4
  <2>4. ASSUME NEW l \in ListId, NEW i \in DOMAIN K[l], NEW j \in DOMAIN K[l], Like(methods, methods, K[l][i]),
               /\ methods[K[l][i]].class = methods[K[l][j]].class
               /\ methods[K[l][i]].name = methods[K[l][j]].name
               /\ methods[K[l][i]].sig = methods[K[l][j]].sig
        PROVE  i = j
    <3>1. PICK x \in DOMAIN list[l], y \in DOMAIN list[l] : K[l][i] = list[l][x] /\ K[l][j] = list[l][y]
      BY <1>5
    <3>2. x = y
      BY <2>1, <2>4, <3>1 DEF ListedIn
    <3> QED
      BY <1>2, <3>1, <3>2
  <2> QED
    BY <2>2, <2>3, <2>4 DEF ListedIn, Like
<1> QED
  BY <1>2, <1>3, <1>4, <1>6 DEF SoundIn, K, S

----------------------------------------------------------------------------
(* The search.                                                             *)

LEMMA SearchFinds ==
  ASSUME NEW L, NEW S, SoundIn(methods, L, S), NEW n \in NameSpaces, NEW c \in Class,
         NEW name \in Name, NEW sig
  PROVE  Found(FoundAt(L, S, n, c, name, sig)) = MeaningIn(methods, L, n, c, name, sig)
<1> DEFINE x == FoundAt(L, S, n, c, name, sig)
           Th(p) == ThereIn(methods, L, n, c, p, name, sig)
<1>1. ASSUME NEW p \in Places(n, c) PROVE x[p] = Th(p)
  <2> DEFINE l == ListAt(n, c, p)
             key == Key(ClassAt(c, p), name)
             V == Visited(L[l], S[l], key)
  <2>1. l \in ListId /\ ClassAt(c, p) \in Class
    BY PlacesAre
  <2>2. /\ DOMAIN L[l] = 1 .. Len(L[l]) /\ Len(L[l]) \in Nat /\ S[l] \in Nat
        /\ \A i \in 1 .. Len(L[l]) : L[l][i] \in DOMAIN methods
        /\ \A m \in DOMAIN methods : methods[m].class \in Class /\ methods[m].name \in Name
    BY <2>1, TypedAre DEF SoundIn
  <2>3. S[l] \in 0 .. Len(L[l]) /\ Ordered(L[l], S[l])
    BY <2>1, <2>2 DEF SoundIn, SortedIn, Ordered, IdIn, Method_id
  <2>4. key \in Nat /\ \A m \in DOMAIN methods :
          /\ Method_id(m) \in Nat
          /\ Method_id(m) = key <=> methods[m].class = ClassAt(c, p) /\ methods[m].name = name
    BY <2>1, <2>2, KeysApart DEF Method_id
  <2>5. x[p] = {L[l][i] : i \in {j \in V : methods[L[l][j]].sig = sig}}
    BY DEF FoundAt
  <2> HIDE DEF l, key
  <2>6. Ids(L[l], Len(L[l]))
    BY <2>2, <2>4 DEF Ids
  <2>7. V = {i \in 1 .. Len(L[l]) : Method_id(L[l][i]) = key}
    BY <2>2, <2>3, <2>4, <2>6, VisitedIs
  <2> HIDE DEF V
  <2>8. Th(p) = {m \in {L[l][i] : i \in 1 .. Len(L[l])} :
                   methods[m].class = ClassAt(c, p) /\ methods[m].name = name /\ methods[m].sig = sig}
    BY <2>2 DEF ThereIn, ToSet, l
  <2>9. ASSUME NEW m \in x[p] PROVE m \in Th(p)
    BY <2>2, <2>4, <2>5, <2>7, <2>8, <2>9
  <2>10. ASSUME NEW m \in Th(p) PROVE m \in x[p]
    <3>1. PICK i \in 1 .. Len(L[l]) : m = L[l][i]
      BY <2>8
    <3>2. methods[m].class = ClassAt(c, p) /\ methods[m].name = name /\ methods[m].sig = sig
      BY <2>8
    <3>3. i \in V
      BY <2>2, <2>4, <2>7, <3>1, <3>2
    <3> QED
      BY <2>5, <3>1, <3>2, <3>3
  <2> QED
    BY <2>9, <2>10
<1>2. DOMAIN x = Places(n, c)
  BY DEF FoundAt
<1> DEFINE H == HeldIn(methods, L, n, c, name, sig)
           F == {q \in H : \A r \in H : ~Earlier(r, q)}
<1>3. H \subseteq Places(n, c) /\ \A p \in Places(n, c) : p \in H <=> Th(p) # {}
  BY DEF HeldIn
<1>4. MeaningIn(methods, L, n, c, name, sig) = UNION {Th(p) : p \in F}
  BY DEF MeaningIn
<1> HIDE DEF x, Th, H
<1>5. Stops(x) = F
  BY <1>1, <1>2, <1>3 DEF Stops
<1>6. Found(x) = UNION {x[p] : p \in F}
  BY <1>5 DEF Found
<1>7. \A p \in F : p \in Places(n, c)
  BY <1>3
<1> HIDE DEF F
<1>8. {x[p] : p \in F} = {Th(p) : p \in F}
  BY <1>1, <1>7
<1> QED
  BY <1>4, <1>6, <1>8 DEF x


(* What an exact search sees.                                              *)
LEMMA Exact == TypeOK /\ ListsSound => SearchExact
<1> SUFFICES ASSUME SoundIn(methods, list, sorted), NEW l \in ListId, NEW c \in Class, NEW name \in Name
    PROVE  Visited(list[l], sorted[l], Key(c, name)) =
             {i \in DOMAIN list[l] : Method_id(list[l][i]) = Key(c, name)}
  BY SoundIs DEF SearchExact
<1>1. /\ DOMAIN list[l] = 1 .. Len(list[l]) /\ Len(list[l]) \in Nat /\ sorted[l] \in Nat
      /\ \A i \in 1 .. Len(list[l]) : list[l][i] \in DOMAIN methods
      /\ \A m \in DOMAIN methods : methods[m].class \in Class /\ methods[m].name \in Name
  BY TypedAre DEF SoundIn
<1>2. sorted[l] \in 0 .. Len(list[l]) /\ Ordered(list[l], sorted[l])
  BY <1>1 DEF SoundIn, SortedIn, Ordered, IdIn, Method_id
<1>3. Key(c, name) \in Nat /\ \A m \in DOMAIN methods : Method_id(m) \in Nat
  BY <1>1, KeysApart DEF Method_id
<1>4. Ids(list[l], Len(list[l]))
  BY <1>1, <1>3 DEF Ids
<1> QED
  BY <1>1, <1>2, <1>3, <1>4, VisitedIs

----------------------------------------------------------------------------
(* Where a search that starts at a class further on comes to.              *)

LEMMA Shifted ==
  ASSUME NEW n \in NameSpaces, NEW c \in Class, NEW k \in 1 .. Len(Ancestry[c])
  PROVE  /\ Ancestry[c][k] \in Class
         /\ \A p \in Places(n, Ancestry[c][k]) :
              /\ <<p[1] + k - 1, p[2]>> \in Places(n, c)
              /\ \A M, L, name, sig :
                   ThereIn(M, L, n, Ancestry[c][k], p, name, sig)
                     = ThereIn(M, L, n, c, <<p[1] + k - 1, p[2]>>, name, sig)
<1> DEFINE d == Ancestry[c][k]
<1>1. /\ d \in Class /\ Len(Ancestry[c]) \in Nat /\ Len(Ancestry[d]) = Len(Ancestry[c]) - k + 1
      /\ \A j \in 1 .. Len(Ancestry[c]) - k + 1 : Ancestry[d][j] = Ancestry[c][k + j - 1]
  BY Chains, ChainIs
<1> HIDE DEF d
<1>2. ASSUME NEW p \in Places(n, d)
      PROVE  /\ <<p[1] + k - 1, p[2]>> \in Places(n, c)
             /\ ClassAt(c, <<p[1] + k - 1, p[2]>>) = ClassAt(d, p)
             /\ ListAt(n, c, <<p[1] + k - 1, p[2]>>) = ListAt(n, d, p)
  <2>1. /\ p[1] \in Nat \ {0} /\ p[1] \in 1 .. Len(Ancestry[d]) /\ p[2] \in 1 .. Len(Lineage[n]) + 1
    BY <1>1, PlacesAre
  <2>2. p[1] + k - 1 \in 1 .. Len(Ancestry[c]) /\ p[1] + k - 1 = k + p[1] - 1
    BY <1>1, <2>1
  <2>3. <<p[1] + k - 1, p[2]>> \in Places(n, c)
    BY <2>1, <2>2, PlacesAre
  <2>4. ClassAt(c, <<p[1] + k - 1, p[2]>>) = ClassAt(d, p)
    BY <1>1, <2>1, <2>2 DEF ClassAt
  <2> QED
    BY <2>3, <2>4 DEF ListAt
<1> QED
  BY <1>1, <1>2 DEF ThereIn, d

(* A method that is meant: on receivers of its own class it is as well.    *)
LEMMA MeantIs ==
  ASSUME NEW M, NEW L, ListedIn(M, L), NEW n \in NameSpaces, NEW c \in Class, NEW name, NEW sig,
         NEW r \in MeaningIn(M, L, n, c, name, sig)
  PROVE  /\ MeaningIn(M, L, n, c, name, sig) = {r}
         /\ \E l \in ListId : r \in ToSet(L[l])
         /\ M[r].class \in Class /\ M[r].name = name /\ M[r].sig = sig
         /\ MeaningIn(M, L, n, M[r].class, name, sig) = {r}
<1>1. PICK p \in Places(n, c) :
        /\ MeaningIn(M, L, n, c, name, sig) = {r}
        /\ ThereIn(M, L, n, c, p, name, sig) = {r}
        /\ \A q \in Places(n, c) : Earlier(q, p) => ThereIn(M, L, n, c, q, name, sig) = {}
  BY MeaningOne DEF FirstAt
<1>2. /\ r \in ToSet(L[ListAt(n, c, p)]) /\ M[r].class = ClassAt(c, p)
      /\ M[r].name = name /\ M[r].sig = sig
  BY <1>1 DEF ThereIn
<1>3. /\ ListAt(n, c, p) \in ListId /\ ClassAt(c, p) \in Class
      /\ p = <<p[1], p[2]>> /\ p[1] \in 1 .. Len(Ancestry[c]) /\ p[2] \in 1 .. Len(Lineage[n]) + 1
      /\ p[1] \in Nat \ {0} /\ p[2] \in Nat \ {0}
  BY PlacesAre
<1> DEFINE d == Ancestry[c][p[1]]
           o == <<1, p[2]>>
<1>4. d = M[r].class /\ d \in Class
  BY <1>2, <1>3 DEF ClassAt
<1>5. Len(Ancestry[d]) \in Nat \ {0}
  BY <1>4, Chains, ChainIs
<1>6. \A q \in Places(n, d) :
        /\ <<q[1] + p[1] - 1, q[2]>> \in Places(n, c)
        /\ ThereIn(M, L, n, d, q, name, sig) = ThereIn(M, L, n, c, <<q[1] + p[1] - 1, q[2]>>, name, sig)
  BY <1>3, Shifted
<1> HIDE DEF d
<1>7. o \in Places(n, d)
  BY <1>3, <1>4, <1>5, PlacesAre
<1>8. <<o[1] + p[1] - 1, o[2]>> = p
  BY <1>3
<1>9. ThereIn(M, L, n, d, o, name, sig) = {r}
  BY <1>1, <1>6, <1>7, <1>8
<1>10. ASSUME NEW q \in Places(n, d), Earlier(q, o) PROVE ThereIn(M, L, n, d, q, name, sig) = {}
  <2>1. q[1] \in Nat \ {0} /\ q[2] \in Nat \ {0}
    BY <1>4, PlacesAre
  <2>2. q[1] = 1 /\ q[2] < p[2]
    BY <1>3, <1>10, <2>1 DEF Earlier
  <2>3. Earlier(<<q[1] + p[1] - 1, q[2]>>, p)
    BY <1>3, <2>1, <2>2 DEF Earlier
  <2> QED
    BY <1>1, <1>6, <2>3
<1>11. MeaningIn(M, L, n, d, name, sig) = {r}
  <2>1. \/ MeaningIn(M, L, n, d, name, sig) = {} /\ Nowhere(M, L, n, d, name, sig)
        \/ \E q \in Places(n, d) : \E m :
             MeaningIn(M, L, n, d, name, sig) = {m} /\ FirstAt(M, L, n, d, name, sig, q, m)
    BY <1>4, MeaningOne
  <2>2. ~Nowhere(M, L, n, d, name, sig)
    BY <1>7, <1>9 DEF Nowhere
  <2>3. PICK q \in Places(n, d) : \E m : MeaningIn(M, L, n, d, name, sig) = {m} /\ FirstAt(M, L, n, d, name, sig, q, m)
    BY <2>1, <2>2
  <2>4. PICK m : MeaningIn(M, L, n, d, name, sig) = {m} /\ FirstAt(M, L, n, d, name, sig, q, m)
    BY <2>3
  <2>5. q = o
    BY <1>7, <1>9, <1>10, <2>4 DEF FirstAt
  <2> QED
    BY <1>9, <2>4, <2>5 DEF FirstAt
<1> QED
  BY <1>1, <1>2, <1>3, <1>4, <1>11

(* What is meant on receivers of a class means something on those of a     *)
(* class derived from it.                                                  *)
LEMMA MeaningPassesOn ==
  ASSUME NEW M, NEW L, ListedIn(M, L), NEW n \in NameSpaces, NEW c \in Class, NEW name, NEW sig,
         NEW d \in ToSet(Ancestry[c]), MeaningIn(M, L, n, d, name, sig) # {}
  PROVE  MeaningIn(M, L, n, c, name, sig) # {}
<1>1. PICK k \in 1 .. Len(Ancestry[c]) : d = Ancestry[c][k]
  <2>1. DOMAIN Ancestry[c] = 1 .. Len(Ancestry[c])
    BY Chains, ChainIs
  <2> QED
    BY <2>1 DEF ToSet
<1>2. d \in Class
  BY <1>1, Shifted
<1>3. PICK p \in Places(n, d) : ThereIn(M, L, n, d, p, name, sig) # {}
  <2>1. \/ MeaningIn(M, L, n, d, name, sig) = {} /\ Nowhere(M, L, n, d, name, sig)
        \/ \E q \in Places(n, d) : \E m :
             MeaningIn(M, L, n, d, name, sig) = {m} /\ FirstAt(M, L, n, d, name, sig, q, m)
    BY <1>2, MeaningOne
  <2> QED
    BY <2>1 DEF FirstAt
<1> DEFINE o == <<p[1] + k - 1, p[2]>>
<1>4. /\ o \in Places(n, c)
      /\ ThereIn(M, L, n, d, p, name, sig) = ThereIn(M, L, n, c, o, name, sig)
  <2>1. \A x \in Places(n, Ancestry[c][k]) :
          /\ <<x[1] + k - 1, x[2]>> \in Places(n, c)
          /\ ThereIn(M, L, n, Ancestry[c][k], x, name, sig)
               = ThereIn(M, L, n, c, <<x[1] + k - 1, x[2]>>, name, sig)
    BY <1>1, Shifted
  <2> QED
    BY <1>1, <1>3, <2>1
<1> HIDE DEF o
<1>5. ~Nowhere(M, L, n, c, name, sig)
  BY <1>3, <1>4 DEF Nowhere
<1>6. \/ MeaningIn(M, L, n, c, name, sig) = {} /\ Nowhere(M, L, n, c, name, sig)
      \/ \E q \in Places(n, c) : \E m :
           MeaningIn(M, L, n, c, name, sig) = {m} /\ FirstAt(M, L, n, c, name, sig, q, m)
  BY MeaningOne
<1> QED
  BY <1>5, <1>6

----------------------------------------------------------------------------
(* A method that gets another text or another flag: nothing is moved.      *)

LEMMA LikeKeeps ==
  ASSUME NEW M, NEW L, NEW S, SoundIn(M, L, S), NEW N \in Seq(Method), Len(N) = Len(M),
         \A m \in DOMAIN M : Like(M, N, m)
  PROVE  /\ SoundIn(N, L, S)
         /\ \A n \in NameSpaces, c \in Class : \A name, sig :
              MeaningIn(N, L, n, c, name, sig) = MeaningIn(M, L, n, c, name, sig)
<1>1. TypedIn(M, L, S) /\ ListedIn(M, L) /\ SortedIn(M, L, S)
  BY DEF SoundIn
<1>2. /\ DOMAIN N = DOMAIN M
      /\ \A l \in ListId : /\ ToSet(L[l]) \subseteq DOMAIN M /\ DOMAIN L[l] = 1 .. Len(L[l])
                           /\ \A i \in DOMAIN L[l] : L[l][i] \in DOMAIN M
                           /\ S[l] \in Nat /\ Len(L[l]) \in Nat
  <2>1. DOMAIN M = 1 .. Len(M)
    BY <1>1, TypedAre
  <2>2. DOMAIN N = 1 .. Len(N)
    BY LenProperties
  <2>3. ASSUME NEW l \in ListId
        PROVE  /\ ToSet(L[l]) \subseteq DOMAIN M /\ DOMAIN L[l] = 1 .. Len(L[l])
               /\ \A i \in 1 .. Len(L[l]) : L[l][i] \in DOMAIN M
               /\ S[l] \in Nat /\ Len(L[l]) \in Nat
    BY <1>1, TypedAre
  <2>4. DOMAIN N = DOMAIN M
    BY ONLY <2>1, <2>2, Len(N) = Len(M)
  <2> QED
    BY <2>3, <2>4
<1>3. TypedIn(N, L, S)
  BY <1>1, <1>2 DEF TypedIn
<1>4. ListedIn(N, L)
  BY <1>1, <1>2 DEF ListedIn, Like
<1>5. SortedIn(N, L, S)
  <2>1. ASSUME NEW l \in ListId PROVE S[l] <= Len(L[l])
    BY <1>1 DEF SortedIn
  <2>2. ASSUME NEW l \in ListId, NEW i \in 1 .. S[l], NEW j \in 1 .. S[l], i < j
        PROVE  IdIn(N, L[l][i]) <= IdIn(N, L[l][j])
    <3>1. IdIn(M, L[l][i]) <= IdIn(M, L[l][j])
      BY <1>1, <2>2 DEF SortedIn
    <3>2. i \in DOMAIN L[l] /\ j \in DOMAIN L[l]
      BY <1>2, <2>1
    <3>3. Like(M, N, L[l][i]) /\ Like(M, N, L[l][j])
      BY <1>2, <3>2
    <3> QED
      BY <3>1, <3>3 DEF Like, IdIn
  <2> QED
    BY <2>1, <2>2 DEF SortedIn
<1>6. \A l \in ListId : ToSet(L[l]) = ToSet(L[l]) /\ \A m \in ToSet(L[l]) : Like(M, N, m)
  BY <1>2
<1>7. \A n \in NameSpaces, c \in Class : \A name, sig :
        MeaningIn(N, L, n, c, name, sig) = MeaningIn(M, L, n, c, name, sig)
  <2> DEFINE K == L
  <2>1. \A l \in ListId : ToSet(K[l]) = ToSet(L[l]) /\ \A m \in ToSet(L[l]) : Like(M, N, m)
    BY <1>6
  <2> HIDE DEF K
  <2>2. \A n \in NameSpaces, c \in Class : \A name, sig :
          /\ \A p \in Places(n, c) :
               ThereIn(N, K, n, c, p, name, sig) = ThereIn(M, L, n, c, p, name, sig)
          /\ MeaningIn(N, K, n, c, name, sig) = MeaningIn(M, L, n, c, name, sig)
    BY <2>1, MeaningSame
  <2> QED
    BY <2>2 DEF K
<1> QED
  BY <1>3, <1>4, <1>5, <1>7 DEF SoundIn

----------------------------------------------------------------------------
(* A method that is added.  kNameSpace_AddMethod has searched from the     *)
(* name space n that defines it: if that found no method of its class c,   *)
(* then no list that the search comes to has one of that class, name and   *)
(* signature.                                                              *)
Alone(M, L, n, c, name, sig) == \A r \in MeaningIn(M, L, n, c, name, sig) : M[r].class # c

LEMMA NoRival ==
  ASSUME NEW M, NEW L, ListedIn(M, L), NEW n \in NameSpaces, NEW c \in Class, NEW name, NEW sig,
         Alone(M, L, n, c, name, sig)
  PROVE  \A p \in Places(n, c) : p[1] = 1 => ThereIn(M, L, n, c, p, name, sig) = {}
<1> SUFFICES ASSUME NEW p \in Places(n, c), p[1] = 1, ThereIn(M, L, n, c, p, name, sig) # {}
    PROVE  FALSE
  OBVIOUS
<1>1. \/ MeaningIn(M, L, n, c, name, sig) = {} /\ Nowhere(M, L, n, c, name, sig)
      \/ \E q \in Places(n, c) : \E m :
           MeaningIn(M, L, n, c, name, sig) = {m} /\ FirstAt(M, L, n, c, name, sig, q, m)
  BY MeaningOne
<1>2. PICK q \in Places(n, c) : \E m : MeaningIn(M, L, n, c, name, sig) = {m} /\ FirstAt(M, L, n, c, name, sig, q, m)
  BY <1>1 DEF Nowhere
<1>3. PICK m : MeaningIn(M, L, n, c, name, sig) = {m} /\ FirstAt(M, L, n, c, name, sig, q, m)
  BY <1>2
<1>4. q = p \/ Earlier(q, p)
  BY <1>3 DEF FirstAt
<1>5. q[1] \in Nat \ {0} /\ p[1] \in Nat \ {0}
  BY PlacesAre
<1>6. q[1] = 1
  BY <1>4, <1>5 DEF Earlier
<1>7. Ancestry[c][1] = c
  BY Chains, ChainIs
<1>8. M[m].class = ClassAt(c, q)
  BY <1>3 DEF FirstAt, ThereIn
<1> QED
  BY <1>3, <1>6, <1>7, <1>8 DEF Alone, ClassAt

(* The place of the list of a name space, and of a class.                  *)
LEMMA OwnPlaces ==
  ASSUME NEW n \in NameSpaces, NEW c \in Class
  PROVE  /\ <<1, 1>> \in Places(n, c) /\ ListAt(n, c, <<1, 1>>) = n /\ ClassAt(c, <<1, 1>>) = c
         /\ <<1, Len(Lineage[n]) + 1>> \in Places(n, c)
         /\ ListAt(n, c, <<1, Len(Lineage[n]) + 1>>) = c
         /\ ClassAt(c, <<1, Len(Lineage[n]) + 1>>) = c
<1>1. Len(Lineage[n]) \in Nat \ {0} /\ Lineage[n][1] = n
  BY Chains, ChainIs
<1>2. Len(Ancestry[c]) \in Nat \ {0} /\ Ancestry[c][1] = c
  BY Chains, ChainIs
<1> DEFINE k == Len(Lineage[n]) + 1
<1>3. 1 \in 1 .. Len(Ancestry[c]) /\ 1 \in 1 .. k /\ k \in 1 .. k /\ 1 <= Len(Lineage[n]) /\ ~(k <= Len(Lineage[n]))
  BY <1>1, <1>2
<1>4. Places(n, c) = (1 .. Len(Ancestry[c])) \X (1 .. k)
  BY PlacesAre
<1> HIDE DEF k
<1>5. <<1, 1>> \in Places(n, c) /\ <<1, k>> \in Places(n, c)
  BY <1>3, <1>4
<1>6. ClassAt(c, <<1, 1>>) = c /\ ClassAt(c, <<1, k>>) = c
  BY <1>2 DEF ClassAt
<1>7. ListAt(n, c, <<1, 1>>) = n
  BY <1>1, <1>3 DEF ListAt
<1>8. ListAt(n, c, <<1, k>>) = c
  BY <1>3, <1>6 DEF ListAt
<1> QED
  BY <1>5, <1>6, <1>7, <1>8 DEF k

(* N and K: the methods M and the lists L with one more.                   *)
Adds(M, L, N, K, c, l, name, sig) ==
  LET new == Len(M) + 1
  IN  /\ N \in Seq(Method) /\ Len(N) = new /\ \A m \in DOMAIN M : Like(M, N, m)
      /\ N[new].class = c /\ N[new].name = name /\ N[new].sig = sig
      /\ K = With(L, l, new)

Added(M, L, N, K, l, new) ==
  /\ DOMAIN N = DOMAIN M \cup {new} /\ new \notin DOMAIN M
  /\ K \in [ListId -> Seq(DOMAIN N)]
  /\ \A k \in ListId :
       /\ DOMAIN L[k] = 1 .. Len(L[k]) /\ Len(L[k]) \in Nat
       /\ \A i \in DOMAIN L[k] : L[k][i] \in DOMAIN M
       /\ ToSet(L[k]) \subseteq DOMAIN M
       /\ ToSet(K[k]) = IF k = l THEN ToSet(L[k]) \cup {new} ELSE ToSet(L[k])
       /\ DOMAIN K[k] = IF k = l THEN DOMAIN L[k] \cup {Len(L[k]) + 1} ELSE DOMAIN L[k]
       /\ \A i \in DOMAIN L[k] : K[k][i] = L[k][i]
       /\ Len(K[k]) = IF k = l THEN Len(L[k]) + 1 ELSE Len(L[k])
  /\ K[l][Len(L[l]) + 1] = new

LEMMA AddsAre ==
  ASSUME NEW M, NEW L, NEW S, SoundIn(M, L, S), NEW N, NEW K, NEW c, NEW l \in ListId, NEW name, NEW sig,
         Adds(M, L, N, K, c, l, name, sig), NEW new, new = Len(M) + 1
  PROVE  Added(M, L, N, K, l, new)
<1>1. TypedIn(M, L, S)
  BY DEF SoundIn
<1>2. /\ Len(M) \in Nat /\ DOMAIN M = 1 .. Len(M)
      /\ \A k \in ListId :
              /\ DOMAIN L[k] = 1 .. Len(L[k]) /\ Len(L[k]) \in Nat
              /\ \A i \in DOMAIN L[k] : L[k][i] \in DOMAIN M
              /\ ToSet(L[k]) \subseteq DOMAIN M /\ L[k] \in Seq(DOMAIN M)
  BY <1>1, TypedAre
<1>3. DOMAIN N = DOMAIN M \cup {new} /\ new \notin DOMAIN M
  <2>1. DOMAIN N = 1 .. Len(N) /\ Len(N) = Len(M) + 1
    BY LenProperties DEF Adds
  <2> QED
    BY <1>2, <2>1
<1>4. \A k \in ListId : K[k] = IF k = l THEN Append(L[k], new) ELSE L[k]
  BY <1>1 DEF Adds, With, TypedIn
<1>5. ASSUME NEW k \in ListId
      PROVE  /\ K[k] \in Seq(DOMAIN N)
             /\ ToSet(K[k]) = IF k = l THEN ToSet(L[k]) \cup {new} ELSE ToSet(L[k])
             /\ DOMAIN K[k] = IF k = l THEN DOMAIN L[k] \cup {Len(L[k]) + 1} ELSE DOMAIN L[k]
             /\ \A i \in DOMAIN L[k] : K[k][i] = L[k][i]
             /\ Len(K[k]) = IF k = l THEN Len(L[k]) + 1 ELSE Len(L[k])
             /\ k = l => K[k][Len(L[k]) + 1] = new
  <2> DEFINE s == L[k]
  <2>1. s \in Seq(DOMAIN N) /\ DOMAIN s = 1 .. Len(s) /\ Len(s) \in Nat
    <3>1. /\ s \in Seq(DOMAIN M) /\ DOMAIN s = 1 .. Len(s) /\ Len(s) \in Nat
          /\ \A i \in DOMAIN s : s[i] \in DOMAIN N
      BY <1>2, <1>3
    <3> HIDE DEF s
    <3>2. s = [i \in 1 .. Len(s) |-> s[i]]
      BY <3>1
    <3>3. s \in [1 .. Len(s) -> DOMAIN N]
      BY <3>1, <3>2
    <3> QED
      BY <3>1, <3>3, SeqDef
  <2>2. CASE k = l
    <3>1. K[k] = Append(s, new) /\ new \in DOMAIN N
      BY <1>3, <1>4, <2>2
    <3> HIDE DEF s
    <3>2. /\ K[k] \in Seq(DOMAIN N) /\ Len(K[k]) = Len(s) + 1
          /\ \A i \in 1 .. Len(s) : K[k][i] = s[i]
          /\ K[k][Len(s) + 1] = new
      BY <2>1, <3>1, AppendProperties
    <3>3. DOMAIN K[k] = 1 .. Len(s) + 1
      BY <3>2, LenProperties
    <3>4. DOMAIN K[k] = DOMAIN s \cup {Len(s) + 1}
      BY <2>1, <3>3
    <3>5. ToSet(K[k]) = ToSet(s) \cup {new}
      BY <2>1, <3>2, <3>4 DEF ToSet
    <3> QED
      BY <2>1, <2>2, <3>2, <3>4, <3>5 DEF s
  <2>3. CASE k # l
    BY <1>4, <2>1, <2>3
  <2> QED
    BY <2>2, <2>3
<1>6. K \in [ListId -> Seq(DOMAIN N)]
  <2>1. K = [k \in ListId |-> K[k]]
    BY <1>1 DEF Adds, With, TypedIn
  <2> QED
    BY <1>5, <2>1
<1> QED
  BY <1>2, <1>3, <1>5, <1>6 DEF Added

LEMMA AddSound ==
  ASSUME NEW M, NEW L, NEW S, SoundIn(M, L, S), NEW n \in NameSpaces, NEW c \in Class, NEW name, NEW sig,
         Alone(M, L, n, c, name, sig), NEW l \in {n, c}, NEW N, NEW K, Adds(M, L, N, K, c, l, name, sig)
  PROVE  SoundIn(N, K, S)
<1> DEFINE new == Len(M) + 1
<1>1. TypedIn(M, L, S) /\ ListedIn(M, L) /\ SortedIn(M, L, S)
  BY DEF SoundIn
<1>2. l \in ListId
  BY DEF ListId
<1>3. Added(M, L, N, K, l, new)
  <2> HIDE DEF new
  <2> QED
    BY <1>2, AddsAre DEF new
<1>4. /\ DOMAIN N = DOMAIN M \cup {new} /\ new \notin DOMAIN M
      /\ K \in [ListId -> Seq(DOMAIN N)] /\ K[l][Len(L[l]) + 1] = new
  BY <1>3 DEF Added
<1>5. /\ \A m \in DOMAIN M : Like(M, N, m)
      /\ N[new].class = c /\ N[new].name = name /\ N[new].sig = sig
      /\ N \in Seq(Method)
  BY DEF Adds
<1> HIDE DEF new
<1>6. TypedIn(N, K, S)
  BY <1>1, <1>4, <1>5 DEF TypedIn
<1>7. ASSUME NEW k \in ListId, NEW i \in DOMAIN K[k]
      PROVE  \/ i \in DOMAIN L[k] /\ K[k][i] = L[k][i] /\ K[k][i] \in DOMAIN M /\ Like(M, N, K[k][i])
             \/ k = l /\ i = Len(L[l]) + 1 /\ K[k][i] = new
  <2>1. i \in DOMAIN L[k] \/ (k = l /\ i = Len(L[l]) + 1)
    <3>1. DOMAIN K[k] = IF k = l THEN DOMAIN L[k] \cup {Len(L[k]) + 1} ELSE DOMAIN L[k]
      BY <1>3 DEF Added
    <3> QED
      BY <3>1, Zenon
  <2>2. i \in DOMAIN L[k] => K[k][i] = L[k][i] /\ K[k][i] \in DOMAIN M
    BY <1>3 DEF Added
  <2> QED
    BY <1>4, <1>5, <2>1, <2>2
<1>8. ASSUME NEW i \in DOMAIN L[l],
             M[L[l][i]].class = c /\ M[L[l][i]].name = name /\ M[L[l][i]].sig = sig
      PROVE  FALSE
  <2>1. PICK p \in Places(n, c) : p[1] = 1 /\ ListAt(n, c, p) = l /\ ClassAt(c, p) = c
    <3>1. CASE l = n
      BY <3>1, OwnPlaces
    <3>2. CASE l = c
      <4> DEFINE o == <<1, Len(Lineage[n]) + 1>>
      <4>1. o \in Places(n, c) /\ ListAt(n, c, o) = c /\ ClassAt(c, o) = c /\ o[1] = 1
        BY OwnPlaces
      <4> HIDE DEF o
      <4> QED
        BY <3>2, <4>1
    <3> QED
      BY <3>1, <3>2
  <2>2. L[l][i] \in ToSet(L[l])
    BY DEF ToSet
  <2>3. L[l][i] \in ThereIn(M, L, n, c, p, name, sig)
    BY <1>8, <2>1, <2>2 DEF ThereIn
  <2> QED
    BY <1>1, <2>1, <2>3, NoRival
<1>9. ListedIn(N, K)
  <2>1. \A m \in DOMAIN N : \E k \in ListId : m \in ToSet(K[k])
    <3>1. new \in ToSet(K[l]) /\ \A k \in ListId : \A m \in ToSet(L[k]) : m \in ToSet(K[k])
      BY <1>2, <1>3 DEF Added
    <3>2. \A m \in DOMAIN M : \E k \in ListId : m \in ToSet(L[k])
      BY <1>1 DEF ListedIn
    <3> QED
      BY <1>2, <1>4, <3>1, <3>2
  <2>2. ASSUME NEW k \in ListId, NEW j \in ListId, NEW x \in DOMAIN K[k], NEW y \in DOMAIN K[j],
               K[k][x] = K[j][y]
        PROVE  k = j /\ x = y
    <3>1. CASE K[k][x] = new
      BY <1>4, <1>7, <2>2, <3>1
    <3>2. CASE K[k][x] # new
      <4>1. /\ x \in DOMAIN L[k] /\ K[k][x] = L[k][x]
            /\ y \in DOMAIN L[j] /\ K[j][y] = L[j][y]
        BY <1>7, <2>2, <3>2
      <4>2. L[k][x] = L[j][y]
        BY <2>2, <4>1
      <4>3. L[k][x] = L[j][y] => k = j /\ x = y
        BY <1>1, <4>1 DEF ListedIn
      <4> QED
        BY <4>2, <4>3
    <3> QED
      BY <3>1, <3>2
  <2>3. ASSUME NEW k \in ListId, NEW x \in DOMAIN K[k], NEW y \in DOMAIN K[k],
               /\ N[K[k][x]].class = N[K[k][y]].class /\ N[K[k][x]].name = N[K[k][y]].name
               /\ N[K[k][x]].sig = N[K[k][y]].sig
        PROVE  x = y
    <3>1. CASE x \in DOMAIN L[k] /\ K[k][x] = L[k][x] /\ Like(M, N, K[k][x])
      <4>1. CASE y \in DOMAIN L[k] /\ K[k][y] = L[k][y] /\ Like(M, N, K[k][y])
        BY <1>1, <2>3, <3>1, <4>1 DEF ListedIn, Like
      <4>2. CASE k = l /\ K[k][y] = new
        BY <1>5, <1>8, <2>3, <3>1, <4>2 DEF Like
      <4> QED
        BY <1>7, <4>1, <4>2
    <3>2. CASE k = l /\ x = Len(L[l]) + 1 /\ K[k][x] = new
      <4>1. CASE y \in DOMAIN L[k] /\ K[k][y] = L[k][y] /\ Like(M, N, K[k][y])
        BY <1>5, <1>8, <2>3, <3>2, <4>1 DEF Like
      <4>2. CASE k = l /\ y = Len(L[l]) + 1
        BY <3>2, <4>2
      <4> QED
        BY <1>7, <4>1, <4>2
    <3> QED
      BY <1>7, <3>1, <3>2
  <2> QED
    BY <2>1, <2>2, <2>3 DEF ListedIn
<1>10. SortedIn(N, K, S)
  <2>1. ASSUME NEW k \in ListId PROVE S[k] \in Nat /\ S[k] <= Len(L[k]) /\ S[k] <= Len(K[k])
    <3>1. S[k] \in Nat /\ S[k] <= Len(L[k])
      BY <1>1 DEF TypedIn, SortedIn
    <3>2. Len(L[k]) \in Nat /\ Len(K[k]) = IF k = l THEN Len(L[k]) + 1 ELSE Len(L[k])
      BY <1>3 DEF Added
    <3> QED
      BY <3>1, <3>2
  <2>2. ASSUME NEW k \in ListId, NEW i \in 1 .. S[k], NEW j \in 1 .. S[k], i < j
        PROVE  IdIn(N, K[k][i]) <= IdIn(N, K[k][j])
    <3>1. IdIn(M, L[k][i]) <= IdIn(M, L[k][j])
      BY <1>1, <2>2 DEF SortedIn
    <3>2. i \in DOMAIN L[k] /\ j \in DOMAIN L[k]
      BY <1>3, <2>1 DEF Added
    <3>3. /\ K[k][i] = L[k][i] /\ Like(M, N, L[k][i])
          /\ K[k][j] = L[k][j] /\ Like(M, N, L[k][j])
      BY <1>3, <1>5, <3>2 DEF Added
    <3> QED
      BY <3>1, <3>3 DEF Like, IdIn
  <2> QED
    BY <2>1, <2>2 DEF SortedIn
<1> QED
  BY <1>6, <1>9, <1>10 DEF SoundIn

(* No class comes after those that are derived from it.                    *)
LEMMA NoCycle ==
  ASSUME NEW c \in Class, NEW d \in Class, c \in ToSet(Ancestry[d]), d \in ToSet(Tail(Ancestry[c]))
  PROVE  FALSE
<1>1. /\ Ancestry[c] \in Seq(Class) /\ Len(Ancestry[c]) \in Nat \ {0} /\ Ancestry[c] # <<>>
      /\ Len(Ancestry[d]) \in Nat \ {0} /\ DOMAIN Ancestry[d] = 1 .. Len(Ancestry[d])
  BY Chains, ChainIs, EmptySeq
<1>2. PICK i \in 1 .. Len(Ancestry[d]) : c = Ancestry[d][i]
  BY <1>1 DEF ToSet
<1>3. Len(Ancestry[c]) = Len(Ancestry[d]) - i + 1
  BY <1>2, Chains, ChainIs
<1>4. PICK j \in 2 .. Len(Ancestry[c]) : d = Ancestry[c][j]
  <2> DEFINE t == Tail(Ancestry[c])
  <2>1. /\ t \in Seq(Class) /\ Len(t) = Len(Ancestry[c]) - 1
        /\ \A x \in 1 .. Len(t) : t[x] = Ancestry[c][x + 1]
    BY <1>1, HeadTailProperties
  <2>2. DOMAIN t = 1 .. Len(t)
    BY <2>1, LenProperties
  <2> HIDE DEF t
  <2>3. PICK x \in 1 .. Len(t) : d = t[x]
    BY <2>2 DEF t, ToSet
  <2>4. x + 1 \in 2 .. Len(Ancestry[c]) /\ d = Ancestry[c][x + 1]
    BY <1>1, <2>1, <2>3
  <2> QED
    BY <2>4
<1>5. j \in 1 .. Len(Ancestry[c])
  BY <1>1, <1>4
<1>6. Len(Ancestry[d]) = Len(Ancestry[c]) - j + 1
  BY <1>4, <1>5, Chains, ChainIs
<1> QED
  BY <1>1, <1>3, <1>4, <1>6

LEMMA FurtherOn ==
  /\ \A x \in Class : \A i \in 1 .. Len(Ancestry[x]) :
       /\ Len(Ancestry[Ancestry[x][i]]) = Len(Ancestry[x]) - i + 1
       /\ \A j \in 1 .. Len(Ancestry[x]) - i + 1 : Ancestry[Ancestry[x][i]][j] = Ancestry[x][i + j - 1]
  /\ \A x \in NameSpaces : \A i \in 1 .. Len(Lineage[x]) :
       /\ Len(Lineage[Lineage[x][i]]) = Len(Lineage[x]) - i + 1
       /\ \A j \in 1 .. Len(Lineage[x]) - i + 1 : Lineage[Lineage[x][i]][j] = Lineage[x][i + j - 1]
<1>1. \A x \in Class : \A i \in 1 .. Len(Ancestry[x]) :
        /\ Len(Ancestry[Ancestry[x][i]]) = Len(Ancestry[x]) - i + 1
        /\ \A j \in 1 .. Len(Ancestry[x]) - i + 1 : Ancestry[Ancestry[x][i]][j] = Ancestry[x][i + j - 1]
  BY Chains, ChainIs
<1>2. \A x \in NameSpaces : \A i \in 1 .. Len(Lineage[x]) :
        /\ Len(Lineage[Lineage[x][i]]) = Len(Lineage[x]) - i + 1
        /\ \A j \in 1 .. Len(Lineage[x]) - i + 1 : Lineage[Lineage[x][i]][j] = Lineage[x][i + j - 1]
  BY Chains, ChainIs
<1> QED
  BY <1>1, <1>2

LEMMA Further ==
  ASSUME NEW a \in Nat, NEW i \in Nat \ {0}, NEW j \in Nat, i < j, j <= a
  PROVE  /\ j - i \in 1 .. (a - i + 1) - 1 /\ j - i + 1 \in 1 .. a - i + 1
         /\ i + (j - i + 1) - 1 = j
OBVIOUS

LEMMA FurtherUp ==
  ASSUME NEW a \in Nat, NEW i \in Nat \ {0}, NEW j \in Nat, i < j, j <= a + 1
  PROVE  /\ j - i + 1 \in 1 .. (a - i + 1) + 1
         /\ i + (j - i + 1) - 1 = j /\ (j - i + 1 <= a - i + 1 <=> j <= a)
         /\ (j - i + 1 <= a - i + 1 => j - i + 1 \in 1 .. a - i + 1)
OBVIOUS

(* What comes after the place of a list of n, or of c, for the class c in  *)
(* any search: the search from n comes to it, or it is for a class that c  *)
(* is derived from.                                                        *)
LEMMA LaterPlaces ==
  ASSUME NEW n \in NameSpaces, NEW c \in Class, NEW l \in {n, c}, NEW m \in NameSpaces, NEW d \in Class,
         NEW p \in Places(m, d), NEW q \in Places(m, d),
         ListAt(m, d, p) = l, ClassAt(d, p) = c, Earlier(p, q)
  PROVE  \/ ClassAt(d, q) \in ToSet(Tail(Ancestry[c]))
         \/ \E x \in Places(n, c) :
              x[1] = 1 /\ ListAt(n, c, x) = ListAt(m, d, q) /\ ClassAt(c, x) = ClassAt(d, q)
<1>1. /\ p[1] \in Nat \ {0} /\ p[2] \in Nat \ {0} /\ q[1] \in Nat \ {0} /\ q[2] \in Nat \ {0}
      /\ p[1] \in 1 .. Len(Ancestry[d]) /\ q[1] \in 1 .. Len(Ancestry[d])
      /\ p[2] \in 1 .. Len(Lineage[m]) + 1 /\ q[2] \in 1 .. Len(Lineage[m]) + 1
  BY PlacesAre
<1>2. /\ Len(Ancestry[d]) \in Nat /\ Len(Lineage[m]) \in Nat
      /\ Ancestry[c] \in Seq(Class) /\ Ancestry[c] # <<>> /\ Ancestry[c][1] = c /\ Len(Ancestry[c]) \in Nat \ {0}
  BY Chains, ChainIs, EmptySeq
<1>3. Ancestry[d][p[1]] = c
  BY DEF ClassAt
<1>4. /\ Len(Ancestry[c]) = Len(Ancestry[d]) - p[1] + 1
      /\ \A j \in 1 .. Len(Ancestry[d]) - p[1] + 1 : Ancestry[c][j] = Ancestry[d][p[1] + j - 1]
  <2> DEFINE i == p[1]
  <2>1. i \in 1 .. Len(Ancestry[d]) /\ Ancestry[d][i] = c
    BY <1>1, <1>3
  <2> HIDE DEF i
  <2>2. /\ Len(Ancestry[c]) = Len(Ancestry[d]) - i + 1
        /\ \A j \in 1 .. Len(Ancestry[d]) - i + 1 : Ancestry[c][j] = Ancestry[d][i + j - 1]
    <3>1. /\ Len(Ancestry[Ancestry[d][i]]) = Len(Ancestry[d]) - i + 1
          /\ \A j \in 1 .. Len(Ancestry[d]) - i + 1 : Ancestry[Ancestry[d][i]][j] = Ancestry[d][i + j - 1]
      BY <2>1, FurtherOn
    <3> QED
      BY <2>1, <3>1
  <2> QED
    BY <2>2 DEF i
<1>5. CASE p[1] < q[1]
  <2> DEFINE k == q[1] - p[1]
             t == Tail(Ancestry[c])
  <2>1. /\ k \in 1 .. Len(Ancestry[c]) - 1 /\ k + 1 \in 1 .. Len(Ancestry[d]) - p[1] + 1
        /\ p[1] + (k + 1) - 1 = q[1]
    <3>1. q[1] <= Len(Ancestry[d]) /\ q[1] \in Nat
      BY <1>1, <1>2
    <3> DEFINE a == Len(Ancestry[d])
               i == p[1]
               j == q[1]
    <3>2. a \in Nat /\ i \in Nat \ {0} /\ j \in Nat /\ i < j /\ j <= a
      BY <1>1, <1>2, <1>5, <3>1
    <3> HIDE DEF a, i, j
    <3>3. /\ j - i \in 1 .. (a - i + 1) - 1 /\ j - i + 1 \in 1 .. a - i + 1
          /\ i + (j - i + 1) - 1 = j
      BY ONLY <3>2, Further
    <3> QED
      BY <1>4, <3>3 DEF a, i, j
  <2> HIDE DEF k
  <2>2. /\ Len(t) = Len(Ancestry[c]) - 1 /\ t \in Seq(Class)
        /\ \A x \in 1 .. Len(t) : t[x] = Ancestry[c][x + 1]
    BY <1>2, HeadTailProperties
  <2>3. DOMAIN t = 1 .. Len(t)
    BY <2>2, LenProperties
  <2> HIDE DEF t
  <2>4. Ancestry[c][k + 1] = Ancestry[d][q[1]]
    BY <1>4, <2>1
  <2>5. k \in DOMAIN t /\ t[k] = ClassAt(d, q)
    BY <2>1, <2>2, <2>3, <2>4 DEF ClassAt
  <2>6. ClassAt(d, q) \in ToSet(t)
    BY <2>5 DEF ToSet
  <2> QED
    BY <2>6 DEF t
<1>6. CASE p[1] = q[1] /\ p[2] < q[2]
  <2>1. p[2] \in 1 .. Len(Lineage[m]) /\ p[2] <= Len(Lineage[m])
    BY <1>1, <1>2, <1>6
  <2>2. ListAt(m, d, p) = Lineage[m][p[2]] /\ Lineage[m][p[2]] \in NameSpaces
    BY <2>1, Chains, ChainIs DEF ListAt
  <2>3. Lineage[m][p[2]] = n
    BY <2>2, MethodAssumption
  <2>4. /\ Len(Lineage[n]) = Len(Lineage[m]) - p[2] + 1 /\ Len(Lineage[n]) \in Nat
        /\ \A j \in 1 .. Len(Lineage[m]) - p[2] + 1 : Lineage[n][j] = Lineage[m][p[2] + j - 1]
    <3> DEFINE i == p[2]
    <3>1. i \in 1 .. Len(Lineage[m]) /\ Lineage[m][i] = n
      BY <2>1, <2>3
    <3> HIDE DEF i
    <3>2. /\ Len(Lineage[n]) = Len(Lineage[m]) - i + 1
          /\ \A j \in 1 .. Len(Lineage[m]) - i + 1 : Lineage[n][j] = Lineage[m][i + j - 1]
      <4>1. /\ Len(Lineage[Lineage[m][i]]) = Len(Lineage[m]) - i + 1
            /\ \A j \in 1 .. Len(Lineage[m]) - i + 1 : Lineage[Lineage[m][i]][j] = Lineage[m][i + j - 1]
        BY <3>1, FurtherOn
      <4> QED
        BY <3>1, <4>1
    <3>3. Len(Lineage[n]) \in Nat
      BY Chains, ChainIs
    <3> QED
      BY <3>2, <3>3 DEF i
  <2> DEFINE k == q[2] - p[2] + 1
             x == <<1, k>>
  <2>5. /\ k \in 1 .. Len(Lineage[n]) + 1 /\ 1 \in 1 .. Len(Ancestry[c])
        /\ p[2] + k - 1 = q[2] /\ (k <= Len(Lineage[n]) <=> q[2] <= Len(Lineage[m]))
        /\ (k <= Len(Lineage[n]) => k \in 1 .. Len(Lineage[m]) - p[2] + 1)
    <3>1. q[2] <= Len(Lineage[m]) + 1 /\ q[2] \in Nat
      BY <1>1, <1>2
    <3> DEFINE a == Len(Lineage[m])
               i == p[2]
               j == q[2]
               e == Len(Lineage[n])
    <3>2. a \in Nat /\ i \in Nat \ {0} /\ j \in Nat /\ i < j /\ j <= a + 1 /\ e = a - i + 1
      BY <1>1, <1>2, <1>6, <2>4, <3>1
    <3>3. k = j - i + 1
      OBVIOUS
    <3> HIDE DEF a, i, j, e, k
    <3>4. /\ j - i + 1 \in 1 .. (a - i + 1) + 1
          /\ i + (j - i + 1) - 1 = j /\ (j - i + 1 <= a - i + 1 <=> j <= a)
          /\ (j - i + 1 <= a - i + 1 => j - i + 1 \in 1 .. a - i + 1)
      BY ONLY <3>2, FurtherUp
    <3>5. /\ k \in 1 .. e + 1 /\ i + k - 1 = j /\ (k <= e <=> j <= a)
          /\ (k <= e => k \in 1 .. a - i + 1)
      BY ONLY <3>2, <3>3, <3>4
    <3>6. 1 \in 1 .. Len(Ancestry[c])
      BY <1>2
    <3> QED
      BY ONLY <3>5, <3>6 DEF a, i, j, e
  <2> HIDE DEF k
  <2>6. x \in Places(n, c) /\ x[1] = 1
    <3>1. Places(n, c) = (1 .. Len(Ancestry[c])) \X (1 .. Len(Lineage[n]) + 1)
      BY PlacesAre
    <3>2. 1 \in 1 .. Len(Ancestry[c]) /\ k \in 1 .. Len(Lineage[n]) + 1
      BY <2>5
    <3> QED
      BY ONLY <3>1, <3>2
  <2>7. ClassAt(c, x) = ClassAt(d, q)
    BY <1>2, <1>3, <1>6 DEF ClassAt
  <2>8. ListAt(n, c, x) = ListAt(m, d, q)
    BY <2>4, <2>5, <2>7 DEF ListAt
  <2> HIDE DEF x
  <2> QED
    BY <2>6, <2>7, <2>8
<1> QED
  BY <1>5, <1>6 DEF Earlier

(* The new method is meant only where it comes before what was meant, and  *)
(* that is of a class that the class of the new method is derived from.    *)
Overtakes(M, L, N, K, c, m, d, name, sig) ==
  /\ MeaningIn(N, K, m, d, name, sig) = {Len(M) + 1}
  /\ c \in ToSet(Ancestry[d])
  /\ \A r \in MeaningIn(M, L, m, d, name, sig) : M[r].class \in ToSet(Tail(Ancestry[c]))

LEMMA AddMeaning ==
  ASSUME NEW M, NEW L, NEW S, SoundIn(M, L, S), NEW n \in NameSpaces, NEW c \in Class, NEW name, NEW sig,
         Alone(M, L, n, c, name, sig), NEW l \in {n, c}, NEW N, NEW K, Adds(M, L, N, K, c, l, name, sig)
  PROVE  \A m \in NameSpaces, d \in Class : \A nm, sg :
           \/ MeaningIn(N, K, m, d, nm, sg) = MeaningIn(M, L, m, d, nm, sg)
           \/ Overtakes(M, L, N, K, c, m, d, nm, sg)
<1> SUFFICES ASSUME NEW m \in NameSpaces, NEW d \in Class, NEW nm, NEW sg
    PROVE  \/ MeaningIn(N, K, m, d, nm, sg) = MeaningIn(M, L, m, d, nm, sg)
           \/ Overtakes(M, L, N, K, c, m, d, nm, sg)
  OBVIOUS
<1> DEFINE new == Len(M) + 1
           Th(p) == ThereIn(M, L, m, d, p, nm, sg)
           Tk(p) == ThereIn(N, K, m, d, p, nm, sg)
           At(p) == ListAt(m, d, p) = l /\ ClassAt(d, p) = c /\ nm = name /\ sg = sig
<1>1. ListedIn(M, L) /\ SoundIn(N, K, S)
  BY AddSound DEF SoundIn
<1>2. ListedIn(N, K)
  BY <1>1 DEF SoundIn
<1>3. l \in ListId
  BY DEF ListId
<1>4. Added(M, L, N, K, l, new)
  <2> HIDE DEF new
  <2> QED
    BY <1>3, AddsAre DEF new
<1>5. /\ \A x \in DOMAIN M : Like(M, N, x)
      /\ N[new].class = c /\ N[new].name = name /\ N[new].sig = sig
  BY DEF Adds
<1> HIDE DEF new
<1>6. ASSUME NEW p \in Places(m, d)
      PROVE  /\ \A x : x \in Tk(p) <=> x \in Th(p) \/ (x = new /\ At(p))
             /\ new \notin Th(p) /\ \A x \in Th(p) : M[x].class = ClassAt(d, p)
  <2> DEFINE k == ListAt(m, d, p)
  <2>1. k \in ListId
    BY PlacesAre
  <2>2. /\ ToSet(K[k]) = IF k = l THEN ToSet(L[k]) \cup {new} ELSE ToSet(L[k])
        /\ ToSet(L[k]) \subseteq DOMAIN M /\ new \notin DOMAIN M
    BY <1>4, <2>1 DEF Added
  <2>3. \A x : x \in ToSet(K[k]) <=> x \in ToSet(L[k]) \/ (x = new /\ k = l)
    BY <2>2, Zenon
  <2>4. \A x \in ToSet(L[k]) : Like(M, N, x)
    BY <1>5, <2>2
  <2> QED
    BY <1>5, <2>2, <2>3, <2>4 DEF ThereIn, Like
<1> HIDE DEF At, Th, Tk
<1>7. \/ MeaningIn(M, L, m, d, nm, sg) = {} /\ Nowhere(M, L, m, d, nm, sg)
      \/ \E p \in Places(m, d) : \E r :
           MeaningIn(M, L, m, d, nm, sg) = {r} /\ FirstAt(M, L, m, d, nm, sg, p, r)
  BY <1>1, MeaningOne
<1>8. \/ MeaningIn(N, K, m, d, nm, sg) = {} /\ Nowhere(N, K, m, d, nm, sg)
      \/ \E p \in Places(m, d) : \E r :
           MeaningIn(N, K, m, d, nm, sg) = {r} /\ FirstAt(N, K, m, d, nm, sg, p, r)
  BY <1>2, MeaningOne
<1>9. CASE \A p \in Places(m, d) : ~At(p)
  <2>1. \A p \in Places(m, d) : Tk(p) = Th(p)
    BY <1>6, <1>9
  <2>2. HeldIn(N, K, m, d, nm, sg) = HeldIn(M, L, m, d, nm, sg)
    BY <2>1 DEF HeldIn, Th, Tk
  <2> DEFINE F == {q \in HeldIn(M, L, m, d, nm, sg) :
                     \A r \in HeldIn(M, L, m, d, nm, sg) : ~Earlier(r, q)}
  <2>3. /\ MeaningIn(N, K, m, d, nm, sg) = UNION {Tk(p) : p \in F}
        /\ MeaningIn(M, L, m, d, nm, sg) = UNION {Th(p) : p \in F}
    BY <2>2 DEF MeaningIn, Th, Tk
  <2>4. \A p \in F : p \in Places(m, d)
    BY DEF HeldIn
  <2> HIDE DEF F
  <2>5. {Tk(p) : p \in F} = {Th(p) : p \in F}
    BY <2>1, <2>4
  <2> QED
    BY <2>3, <2>5
<1>10. ASSUME NEW a \in Places(m, d), At(a)
       PROVE  \/ MeaningIn(N, K, m, d, nm, sg) = MeaningIn(M, L, m, d, nm, sg)
              \/ Overtakes(M, L, N, K, c, m, d, nm, sg)
  <2>1. new \in Tk(a)
    BY <1>6, <1>10
  <2>2. ~Nowhere(N, K, m, d, nm, sg)
    BY <2>1 DEF Nowhere, Tk
  <2>3. PICK p \in Places(m, d) : \E r : MeaningIn(N, K, m, d, nm, sg) = {r} /\ FirstAt(N, K, m, d, nm, sg, p, r)
    BY <1>8, <2>2
  <2>4. PICK r : MeaningIn(N, K, m, d, nm, sg) = {r} /\ FirstAt(N, K, m, d, nm, sg, p, r)
    BY <2>3
  <2>5. /\ Tk(p) = {r} /\ \A q \in Places(m, d) : Tk(q) # {} /\ q # p => Earlier(p, q)
        /\ \A q \in Places(m, d) : Earlier(q, p) => Tk(q) = {}
    BY <2>4 DEF FirstAt, Tk
  <2>6. c \in ToSet(Ancestry[d])
    <3>1. c = Ancestry[d][a[1]] /\ a[1] \in 1 .. Len(Ancestry[d]) /\ DOMAIN Ancestry[d] = 1 .. Len(Ancestry[d])
      BY <1>10, PlacesAre, Chains, ChainIs DEF At, ClassAt
    <3> QED
      BY <3>1 DEF ToSet
  <2>7. CASE MeaningIn(M, L, m, d, nm, sg) = {} /\ Nowhere(M, L, m, d, nm, sg)
    <3>1. Th(p) = {}
      BY <2>7 DEF Nowhere, Th
    <3>2. r = new
      BY <1>6, <2>5, <3>1
    <3> QED
      BY <2>4, <2>6, <2>7, <3>2 DEF Overtakes, new
  <2>8. ASSUME NEW q \in Places(m, d), NEW x, MeaningIn(M, L, m, d, nm, sg) = {x},
               FirstAt(M, L, m, d, nm, sg, q, x)
        PROVE  \/ MeaningIn(N, K, m, d, nm, sg) = MeaningIn(M, L, m, d, nm, sg)
               \/ Overtakes(M, L, N, K, c, m, d, nm, sg)
    <3>1. /\ Th(q) = {x} /\ \A y \in Places(m, d) : Th(y) # {} /\ y # q => Earlier(q, y)
      BY <2>8 DEF FirstAt, Th
    <3>2. x \in Tk(q) /\ x # new
      BY <1>6, <3>1
    <3>3. p = q \/ Earlier(p, q)
      BY <2>5, <3>2
    <3>4. CASE At(p)
      <4>1. r = new
        BY <1>6, <2>5, <3>4
      <4>2. Earlier(p, q)
        BY <2>5, <3>2, <3>3, <4>1
      <4>3. ListAt(m, d, p) = l /\ ClassAt(d, p) = c /\ nm = name /\ sg = sig
        BY <3>4 DEF At
      <4>4. ASSUME NEW y \in Places(n, c), y[1] = 1, ListAt(n, c, y) = ListAt(m, d, q),
                   ClassAt(c, y) = ClassAt(d, q)
            PROVE  FALSE
        <5>1. ThereIn(M, L, n, c, y, name, sig) = Th(q)
          BY <4>3, <4>4 DEF ThereIn, Th
        <5> QED
          BY <1>1, <3>1, <4>4, <5>1, NoRival
      <4>5. ClassAt(d, q) \in ToSet(Tail(Ancestry[c]))
        BY <4>2, <4>3, <4>4, LaterPlaces
      <4>6. M[x].class = ClassAt(d, q)
        BY <1>6, <3>1
      <4> QED
        BY <2>4, <2>6, <2>8, <4>1, <4>5, <4>6 DEF Overtakes, new
    <3>5. CASE ~At(p)
      <4>1. Th(p) = Tk(p)
        BY <1>6, <3>5
      <4>2. p = q \/ Earlier(q, p)
        BY <2>5, <3>1, <4>1
      <4>3. p = q
        BY <2>5, <3>2, <4>2
      <4> QED
        BY <2>4, <2>5, <2>8, <3>1, <4>1, <4>3
    <3> QED
      BY <3>4, <3>5
  <2> QED
    BY <1>7, <2>7, <2>8
<1> QED
  BY <1>9, <1>10

----------------------------------------------------------------------------
(* Steps: what they may change of the meanings.                            *)

Kept(M, L, N, K) ==
  \A n \in NameSpaces, c \in Class : \A name, sig :
    \/ MeaningIn(N, K, n, c, name, sig) = MeaningIn(M, L, n, c, name, sig)
    \/ Len(N) = Len(M) + 1 /\ Overtakes(M, L, N, K, N[Len(N)].class, n, c, name, sig)

LEMMA SearchMeans ==
  ASSUME SoundIn(methods, list, sorted), NEW n \in NameSpaces, NEW c \in Class, NEW name \in Name, NEW sig,
         NEW T \in Resorted(n, c)
  PROVE  Found(Search(T, n, c, name, sig)) = MeaningIn(methods, list, n, c, name, sig)
<1> DEFINE L == Lists(T)
           S == Counts(T)
<1>1. Sorts(T)
  BY ResortedSorts
<1>2. SoundIn(methods, L, S) /\ \A l \in ListId : ToSet(L[l]) = ToSet(list[l])
  BY <1>1, SortKeeps
<1>3. Search(T, n, c, name, sig) = FoundAt(L, S, n, c, name, sig)
  BY DEF Search
<1> HIDE DEF L, S
<1>4. Found(FoundAt(L, S, n, c, name, sig)) = MeaningIn(methods, L, n, c, name, sig)
  BY <1>2, SearchFinds
<1>5. \A l \in ListId : ToSet(L[l]) = ToSet(list[l]) /\ \A m \in ToSet(list[l]) : Like(methods, methods, m)
  BY <1>2 DEF Like
<1> DEFINE N == methods
<1>6. \A l \in ListId : ToSet(L[l]) = ToSet(list[l]) /\ \A m \in ToSet(list[l]) : Like(methods, N, m)
  BY <1>5
<1> HIDE DEF N
<1>7. MeaningIn(N, L, n, c, name, sig) = MeaningIn(methods, list, n, c, name, sig)
  BY <1>6, MeaningSame
<1> QED
  BY <1>3, <1>4, <1>7 DEF N

(* Methods that stay the same but for their text and flag, and lists that  *)
(* are sorted.                                                             *)
LEMMA SortStep ==
  ASSUME SoundIn(methods, list, sorted), NEW P, Sorts(P), NEW N \in Seq(Method), Len(N) = Len(methods),
         \A m \in DOMAIN methods : Like(methods, N, m)
  PROVE  /\ SoundIn(N, Lists(P), Counts(P))
         /\ \A n \in NameSpaces, c \in Class : \A name, sig :
              MeaningIn(N, Lists(P), n, c, name, sig) = MeaningIn(methods, list, n, c, name, sig)
         /\ Kept(methods, list, N, Lists(P))
<1> DEFINE K == Lists(P)
           S == Counts(P)
<1>1. SoundIn(methods, K, S) /\ \A l \in ListId : ToSet(K[l]) = ToSet(list[l])
  BY SortKeeps
<1> HIDE DEF K, S
<1>2. SoundIn(N, K, S)
  BY <1>1, LikeKeeps
<1>3. \A l \in ListId : ToSet(list[l]) \subseteq DOMAIN methods
  BY TypedAre DEF SoundIn
<1>4. \A l \in ListId : ToSet(K[l]) = ToSet(list[l]) /\ \A m \in ToSet(list[l]) : Like(methods, N, m)
  BY <1>1, <1>3
<1>5. \A n \in NameSpaces, c \in Class : \A name, sig :
        /\ \A p \in Places(n, c) :
             ThereIn(N, K, n, c, p, name, sig) = ThereIn(methods, list, n, c, p, name, sig)
        /\ MeaningIn(N, K, n, c, name, sig) = MeaningIn(methods, list, n, c, name, sig)
  BY <1>4, MeaningSame
<1> QED
  BY <1>2, <1>5 DEF Kept, K, S

(* And one more method.                                                    *)
LEMMA AddStep ==
  ASSUME SoundIn(methods, list, sorted), NEW P, Sorts(P), NEW F \in Seq(Method), Len(F) = Len(methods),
         \A m \in DOMAIN methods : Like(methods, F, m),
         NEW n \in NameSpaces, NEW c \in Class, NEW name, NEW sig, Alone(methods, list, n, c, name, sig),
         NEW d \in Method, d.class = c, d.name = name, d.sig = sig, NEW l \in {n, c},
         NEW N, N = Append(F, d), NEW K, K = With(Lists(P), l, Len(methods) + 1)
  PROVE  /\ SoundIn(N, K, Counts(P)) /\ Kept(methods, list, N, K)
         /\ DOMAIN methods \subseteq DOMAIN N /\ \A m \in DOMAIN methods : Like(methods, N, m)
<1> DEFINE L == Lists(P)
           S == Counts(P)
           new == Len(F) + 1
<1>1. /\ SoundIn(F, L, S)
      /\ \A m \in NameSpaces, e \in Class : \A nm, sg :
           MeaningIn(F, L, m, e, nm, sg) = MeaningIn(methods, list, m, e, nm, sg)
  BY SortStep
<1>2. K = With(L, l, new)
  OBVIOUS
<1> HIDE DEF L, S
<1>3. /\ Len(methods) \in Nat /\ DOMAIN methods = 1 .. Len(methods) /\ DOMAIN F = 1 .. Len(F)
      /\ \A k \in ListId : ToSet(list[k]) \subseteq DOMAIN methods
  BY TypedAre, LenProperties DEF SoundIn
<1>4. /\ N \in Seq(Method) /\ Len(N) = new /\ N[new] = d
      /\ \A m \in 1 .. Len(F) : N[m] = F[m]
  BY AppendProperties
<1>5. DOMAIN N = 1 .. new
  BY <1>4, LenProperties
<1>6. DOMAIN methods \subseteq DOMAIN N /\ DOMAIN F = DOMAIN methods
  BY <1>3, <1>5
<1>7. \A m \in DOMAIN F : Like(F, N, m) /\ Like(methods, N, m)
  BY <1>3, <1>4, <1>6 DEF Like
<1>8. Adds(F, L, N, K, c, l, name, sig)
  BY <1>2, <1>4, <1>7 DEF Adds
<1>9. Alone(F, L, n, c, name, sig)
  <2>1. MeaningIn(F, L, n, c, name, sig) = MeaningIn(methods, list, n, c, name, sig)
    BY <1>1
  <2>2. ASSUME NEW r \in MeaningIn(methods, list, n, c, name, sig) PROVE F[r].class # c
    <3>1. ListedIn(methods, list)
      BY DEF SoundIn
    <3>2. \E k \in ListId : r \in ToSet(list[k])
      BY <2>2, <3>1, MeantIs
    <3>3. r \in DOMAIN methods
      BY <1>3, <3>2
    <3> QED
      BY <2>2, <3>3 DEF Alone, Like
  <2> QED
    BY <2>1, <2>2 DEF Alone
<1> HIDE DEF new
<1>10. SoundIn(N, K, S)
  BY <1>1, <1>8, <1>9, AddSound
<1>11. \A m \in NameSpaces, e \in Class : \A nm, sg :
         \/ MeaningIn(N, K, m, e, nm, sg) = MeaningIn(F, L, m, e, nm, sg)
         \/ Overtakes(F, L, N, K, c, m, e, nm, sg)
  BY <1>1, <1>8, <1>9, AddMeaning
<1>12. ASSUME NEW m \in NameSpaces, NEW e \in Class, NEW nm, NEW sg, Overtakes(F, L, N, K, c, m, e, nm, sg)
       PROVE  Overtakes(methods, list, N, K, c, m, e, nm, sg)
  <2>1. MeaningIn(F, L, m, e, nm, sg) = MeaningIn(methods, list, m, e, nm, sg)
    BY <1>1
  <2>2. ASSUME NEW r \in MeaningIn(methods, list, m, e, nm, sg)
        PROVE  methods[r].class \in ToSet(Tail(Ancestry[c]))
    <3>1. ListedIn(methods, list)
      BY DEF SoundIn
    <3>2. \E k \in ListId : r \in ToSet(list[k])
      BY <2>2, <3>1, MeantIs
    <3>3. r \in DOMAIN methods
      BY <1>3, <3>2
    <3>4. F[r].class \in ToSet(Tail(Ancestry[c]))
      BY <1>12, <2>1, <2>2 DEF Overtakes
    <3> QED
      BY <3>3, <3>4 DEF Like
  <2> QED
    BY <1>12, <2>2 DEF Overtakes
<1>13. Len(N) = Len(methods) + 1 /\ N[Len(N)].class = c
  BY <1>4 DEF new
<1>14. Kept(methods, list, N, K)
  BY <1>1, <1>11, <1>12, <1>13 DEF Kept
<1> QED
  BY <1>6, <1>7, <1>10, <1>14 DEF S

(* The calls that are bound.                                               *)
CallsIn(M, L, C) ==
  \A i \in DOMAIN C :
    /\ C[i].mtd \in DOMAIN M
    /\ MeaningIn(M, L, C[i].ns, C[i].class, M[C[i].mtd].name, M[C[i].mtd].sig) # {}
    /\ MeaningIn(M, L, C[i].ns, M[C[i].mtd].class, M[C[i].mtd].name, M[C[i].mtd].sig) = {C[i].mtd}

LEMMA CallsIs ==
  /\ CallsInv <=> CallsIn(methods, list, calls)
  /\ CallsInv' <=> CallsIn(methods', list', calls')
BY MeaningIs DEF CallsInv, CallsIn

LEMMA CallsKept ==
  ASSUME NEW M, NEW L, NEW S, NEW N, NEW K, NEW R, NEW C, SoundIn(M, L, S), SoundIn(N, K, R),
         Kept(M, L, N, K), DOMAIN M \subseteq DOMAIN N, \A m \in DOMAIN M : Like(M, N, m),
         C \in Seq(Call), CallsIn(M, L, C)
  PROVE  CallsIn(N, K, C)
<1> SUFFICES ASSUME NEW i \in DOMAIN C
    PROVE  /\ C[i].mtd \in DOMAIN N
           /\ MeaningIn(N, K, C[i].ns, C[i].class, N[C[i].mtd].name, N[C[i].mtd].sig) # {}
           /\ MeaningIn(N, K, C[i].ns, N[C[i].mtd].class, N[C[i].mtd].name, N[C[i].mtd].sig) = {C[i].mtd}
  BY DEF CallsIn
<1> DEFINE x == C[i].mtd
           n == C[i].ns
           e == C[i].class
           d == M[x].class
           nm == M[x].name
           sg == M[x].sig
<1>1. /\ x \in DOMAIN M /\ MeaningIn(M, L, n, e, nm, sg) # {}
      /\ MeaningIn(M, L, n, d, nm, sg) = {x}
  BY DEF CallsIn
<1>2. n \in NameSpaces /\ e \in Class
  <2>1. DOMAIN C = 1 .. Len(C)
    BY LenProperties
  <2>2. C[i] \in Call
    BY <2>1, ElementOfSeq
  <2> QED
    BY <2>2 DEF Call
<1>3. d \in Class /\ \A m \in DOMAIN N : N[m].class \in Class
  BY <1>1, TypedAre DEF SoundIn
<1>4. x \in DOMAIN N /\ N[x].class = d /\ N[x].name = nm /\ N[x].sig = sg
  BY <1>1 DEF Like
<1>5. /\ Len(M) \in Nat /\ DOMAIN M = 1 .. Len(M) /\ DOMAIN N = 1 .. Len(N)
  BY TypedAre DEF SoundIn
<1> HIDE DEF x, n, e, d, nm, sg
<1>6. MeaningIn(N, K, n, e, nm, sg) # {}
  <2>1. \/ MeaningIn(N, K, n, e, nm, sg) = MeaningIn(M, L, n, e, nm, sg)
        \/ Overtakes(M, L, N, K, N[Len(N)].class, n, e, nm, sg)
    BY <1>2 DEF Kept
  <2> QED
    BY <1>1, <2>1 DEF Overtakes
<1>7. MeaningIn(N, K, n, d, nm, sg) = {x}
  <2> SUFFICES ASSUME Len(N) = Len(M) + 1, Overtakes(M, L, N, K, N[Len(N)].class, n, d, nm, sg)
      PROVE  FALSE
    BY <1>1, <1>2, <1>3 DEF Kept
  <2> DEFINE c == N[Len(N)].class
  <2>1. Len(N) \in DOMAIN N
    BY <1>5
  <2>2. c \in Class
    BY <1>3, <2>1
  <2>3. c \in ToSet(Ancestry[d]) /\ \A r \in MeaningIn(M, L, n, d, nm, sg) : M[r].class \in ToSet(Tail(Ancestry[c]))
    BY DEF Overtakes
  <2>4. d \in ToSet(Tail(Ancestry[c]))
    BY <1>1, <2>3 DEF d
  <2> HIDE DEF c
  <2> QED
    BY <1>3, <2>2, <2>3, <2>4, NoCycle
<1> QED
  BY <1>4, <1>6, <1>7 DEF x, n, e

----------------------------------------------------------------------------
(* The actions.                                                            *)

Good ==
  /\ SoundIn(methods', list', sorted') /\ calls' \in Seq(Call) /\ CallsIn(methods', list', calls')
  /\ Kept(methods, list, methods', list')

Inv == SoundIn(methods, list, sorted) /\ calls \in Seq(Call) /\ CallsIn(methods, list, calls)

LEMMA InvIs == (IInv <=> Inv) /\ (IInv' <=> Inv')
<1>1. IInv <=> Inv
  BY SoundIs, CallsIs DEF IInv, Inv
<1>2. IInv' <=> SoundIn(methods', list', sorted') /\ calls' \in Seq(Call) /\ CallsIn(methods', list', calls')
  BY SoundIs, CallsIs DEF IInv
<1>3. Inv' <=> SoundIn(methods', list', sorted') /\ calls' \in Seq(Call) /\ CallsIn(methods', list', calls')
  BY DEF Inv
<1> QED
  BY <1>1, <1>2, <1>3

LEMMA AddMethodGood ==
  ASSUME Inv, NEW n \in NameSpaces, NEW c \in Class, NEW name \in Name, NEW sig \in Signature,
         AddMethod(n, c, name, sig)
  PROVE  Good
<1>1. SoundIn(methods, list, sorted) /\ ListedIn(methods, list) /\ calls \in Seq(Call) /\ CallsIn(methods, list, calls)
  BY DEF Inv, SoundIn
<1>2. /\ methods \in Seq(Method) /\ Len(methods) \in Nat /\ DOMAIN methods = 1 .. Len(methods)
      /\ \A m \in DOMAIN methods : methods[m] \in Method
  BY <1>1, TypedAre DEF SoundIn, TypedIn
<1> DEFINE Made(flag) == [class |-> c, name |-> name, sig |-> sig, flag |-> flag]
           mean == MeaningIn(methods, list, n, c, name, sig)
           new == Len(methods) + 1
           Virtual == [m \in DOMAIN methods |-> IF m \in mean
                         THEN [methods[m] EXCEPT !.flag = "virtual"] ELSE methods[m]]
<1>3. PICK T \in Resorted(n, c) :
        LET at == Search(T, n, c, name, sig)
            passed == Passed(T, n, c, at)
            rivals == Rivals(n, at)
        IN  /\ sorted' = Counts(passed)
            /\ \/ /\ rivals = {}
                  /\ \E flag \in Declared, l \in {n, c} :
                       /\ methods' = Append(methods, Made(flag))
                       /\ list' = With(Lists(passed), l, new)
               \/ /\ \E r \in rivals : methods[r].class # c /\ methods[r].flag # "final"
                  /\ \E flag \in Declared, l \in {n, c} :
                       /\ methods' = Append([m \in DOMAIN methods |-> IF m \in rivals
                            THEN [methods[m] EXCEPT !.flag = "virtual"] ELSE methods[m]], Made(flag))
                       /\ list' = With(Lists(passed), l, new)
               \/ /\ \E r \in rivals : methods[r].class = c
                  /\ \E flag \in Declared :
                       methods' = [m \in DOMAIN methods |->
                                     IF m \in rivals THEN Made(flag) ELSE methods[m]]
                  /\ list' = Lists(passed)
               \/ /\ list' = Lists(passed)
                  /\ UNCHANGED methods
  BY DEF AddMethod
<1> DEFINE P == Passed(T, n, c, Search(T, n, c, name, sig))
<1>4. Rivals(n, Search(T, n, c, name, sig)) = mean
  BY <1>1, SearchMeans DEF Rivals
<1>5. Sorts(P)
  BY ResortedSorts
<1>6. /\ sorted' = Counts(P)
      /\ \/ /\ mean = {}
            /\ \E flag \in Declared, l \in {n, c} :
                 methods' = Append(methods, Made(flag)) /\ list' = With(Lists(P), l, new)
         \/ /\ \E r \in mean : methods[r].class # c
            /\ \E flag \in Declared, l \in {n, c} :
                 methods' = Append(Virtual, Made(flag)) /\ list' = With(Lists(P), l, new)
         \/ /\ \E r \in mean : methods[r].class = c
            /\ \E flag \in Declared :
                 methods' = [m \in DOMAIN methods |-> IF m \in mean THEN Made(flag) ELSE methods[m]]
            /\ list' = Lists(P)
         \/ methods' = methods /\ list' = Lists(P)
  BY <1>3, <1>4
<1>7. calls' = calls
  BY DEF AddMethod
<1>8. ASSUME NEW flag \in Declared
      PROVE  /\ Made(flag) \in Method /\ Made(flag).class = c /\ Made(flag).name = name
             /\ Made(flag).sig = sig
  BY MethodAssumption DEF Method
<1>9. ASSUME NEW r \in mean
      PROVE  mean = {r} /\ methods[r].name = name /\ methods[r].sig = sig
  BY <1>1, MeantIs
<1>10. SUFFICES /\ SoundIn(methods', list', sorted') /\ Kept(methods, list, methods', list')
                /\ DOMAIN methods \subseteq DOMAIN methods' /\ \A m \in DOMAIN methods : Like(methods, methods', m)
  <2> DEFINE N == methods'
             K == list'
             R == sorted'
  <2> SUFFICES ASSUME SoundIn(N, K, R), Kept(methods, list, N, K),
                      DOMAIN methods \subseteq DOMAIN N, \A m \in DOMAIN methods : Like(methods, N, m)
               PROVE  CallsIn(N, K, calls) /\ SoundIn(N, K, R) /\ Kept(methods, list, N, K)
    BY <1>1, <1>7 DEF Good
  <2> HIDE DEF N, K, R
  <2> QED
    BY <1>1, CallsKept
<1> HIDE DEF mean, P, new
<1>11. ASSUME NEW F \in Seq(Method), Len(F) = Len(methods), \A m \in DOMAIN methods : Like(methods, F, m),
              \A r \in mean : methods[r].class # c, NEW flag \in Declared, NEW l \in {n, c},
              methods' = Append(F, Made(flag)), list' = With(Lists(P), l, new)
       PROVE  /\ SoundIn(methods', list', sorted') /\ Kept(methods, list, methods', list')
              /\ DOMAIN methods \subseteq DOMAIN methods' /\ \A m \in DOMAIN methods : Like(methods, methods', m)
  <2> DEFINE N == methods'
             K == list'
             d == Made(flag)
  <2>1. Alone(methods, list, n, c, name, sig)
    BY <1>11 DEF Alone, mean
  <2>2. /\ N = Append(F, d) /\ K = With(Lists(P), l, Len(methods) + 1)
        /\ d \in Method /\ d.class = c /\ d.name = name /\ d.sig = sig
    BY <1>8, <1>11 DEF new
  <2> HIDE DEF N, K, d
  <2>3. /\ SoundIn(N, K, Counts(P)) /\ Kept(methods, list, N, K)
        /\ DOMAIN methods \subseteq DOMAIN N /\ \A m \in DOMAIN methods : Like(methods, N, m)
    BY <1>1, <1>5, <1>11, <2>1, <2>2, AddStep
  <2> QED
    BY <1>6, <2>3 DEF N, K
<1>12. ASSUME NEW N \in Seq(Method), Len(N) = Len(methods), \A m \in DOMAIN methods : Like(methods, N, m),
              methods' = N, list' = Lists(P)
       PROVE  /\ SoundIn(methods', list', sorted') /\ Kept(methods, list, methods', list')
              /\ DOMAIN methods \subseteq DOMAIN methods' /\ \A m \in DOMAIN methods : Like(methods, methods', m)
  <2>1. SoundIn(N, Lists(P), Counts(P)) /\ Kept(methods, list, N, Lists(P))
    BY <1>1, <1>5, <1>12, SortStep
  <2>2. DOMAIN N = DOMAIN methods
    BY <1>2, <1>12, LenProperties
  <2> QED
    BY <1>6, <1>12, <2>1, <2>2
<1>13. \A m \in DOMAIN methods : Like(methods, methods, m)
  BY DEF Like
<1>14. CASE /\ mean = {}
            /\ \E flag \in Declared, l \in {n, c} :
                 methods' = Append(methods, Made(flag)) /\ list' = With(Lists(P), l, new)
  BY <1>2, <1>11, <1>13, <1>14
<1>15. CASE /\ \E r \in mean : methods[r].class # c
            /\ \E flag \in Declared, l \in {n, c} :
                 methods' = Append(Virtual, Made(flag)) /\ list' = With(Lists(P), l, new)
  <2>1. \A r \in mean : methods[r].class # c
    BY <1>9, <1>15
  <2>2. Virtual \in Seq(Method) /\ Len(Virtual) = Len(methods) /\ \A m \in DOMAIN methods : Like(methods, Virtual, m)
    <3>1. \A m \in DOMAIN methods :
            /\ Virtual[m] \in Method /\ Virtual[m].class = methods[m].class
            /\ Virtual[m].name = methods[m].name /\ Virtual[m].sig = methods[m].sig
      BY <1>2 DEF Method, Flag
    <3>2. DOMAIN Virtual = 1 .. Len(methods) /\ Virtual = [m \in DOMAIN methods |-> Virtual[m]]
      BY <1>2
    <3> HIDE DEF Virtual
    <3>3. Virtual \in [1 .. Len(methods) -> Method]
      BY <1>2, <3>1, <3>2
    <3>4. Virtual \in Seq(Method)
      BY <1>2, <3>3, SeqDef
    <3>5. Len(Virtual) = Len(methods)
      BY <1>2, <3>2, <3>4, LenProperties
    <3> QED
      BY <3>1, <3>4, <3>5 DEF Like
  <2>3. PICK flag \in Declared, l \in {n, c} :
          methods' = Append(Virtual, Made(flag)) /\ list' = With(Lists(P), l, new)
    BY <1>15
  <2> HIDE DEF Virtual, Made
  <2> QED
    BY <1>11, <2>1, <2>2, <2>3
<1>16. CASE /\ \E r \in mean : methods[r].class = c
            /\ \E flag \in Declared :
                 methods' = [m \in DOMAIN methods |-> IF m \in mean THEN Made(flag) ELSE methods[m]]
            /\ list' = Lists(P)
  <2>1. \A r \in mean : methods[r].class = c /\ methods[r].name = name /\ methods[r].sig = sig
    BY <1>9, <1>16
  <2>2. PICK flag \in Declared :
          methods' = [m \in DOMAIN methods |-> IF m \in mean THEN Made(flag) ELSE methods[m]]
    BY <1>16
  <2> DEFINE N == [m \in DOMAIN methods |-> IF m \in mean THEN Made(flag) ELSE methods[m]]
  <2>3. N \in Seq(Method) /\ Len(N) = Len(methods) /\ \A m \in DOMAIN methods : Like(methods, N, m)
    <3>1. \A m \in DOMAIN methods :
            /\ N[m] \in Method /\ N[m].class = methods[m].class
            /\ N[m].name = methods[m].name /\ N[m].sig = methods[m].sig
      BY <1>2, <1>8, <2>1
    <3>2. DOMAIN N = 1 .. Len(methods) /\ N = [m \in DOMAIN methods |-> N[m]]
      BY <1>2
    <3> HIDE DEF N
    <3>3. N \in [1 .. Len(methods) -> Method]
      BY <1>2, <3>1, <3>2
    <3>4. N \in Seq(Method)
      BY <1>2, <3>3, SeqDef
    <3>5. Len(N) = Len(methods)
      BY <1>2, <3>2, <3>4, LenProperties
    <3> QED
      BY <3>1, <3>4, <3>5 DEF Like
  <2>4. methods' = N /\ list' = Lists(P)
    BY <1>16, <2>2
  <2> HIDE DEF N
  <2> QED
    BY <1>12, <2>3, <2>4
<1>17. CASE methods' = methods /\ list' = Lists(P)
  BY <1>2, <1>12, <1>13, <1>17
<1> QED
  BY <1>6, <1>14, <1>15, <1>16, <1>17

(* A search that sorts, and does nothing else.                             *)
LEMMA Sorted ==
  ASSUME Inv, NEW P, Sorts(P), methods' = methods, list' = Lists(P), sorted' = Counts(P)
  PROVE  /\ SoundIn(methods', list', sorted') /\ Kept(methods, list, methods', list')
         /\ CallsIn(methods', list', calls)
         /\ \A n \in NameSpaces, c \in Class : \A name, sig :
              MeaningIn(methods', list', n, c, name, sig) = MeaningIn(methods, list, n, c, name, sig)
<1> DEFINE K == Lists(P)
           S == Counts(P)
           N == methods
<1>1. SoundIn(methods, list, sorted) /\ calls \in Seq(Call) /\ CallsIn(methods, list, calls)
  BY DEF Inv
<1>2. N \in Seq(Method) /\ Len(N) = Len(methods) /\ \A m \in DOMAIN methods : Like(methods, N, m)
  BY <1>1 DEF SoundIn, TypedIn, Like
<1>3. DOMAIN methods \subseteq DOMAIN N
  OBVIOUS
<1>4. methods' = N /\ list' = K /\ sorted' = S
  OBVIOUS
<1> HIDE DEF N
<1>5. /\ SoundIn(N, K, S) /\ Kept(methods, list, N, K)
      /\ \A n \in NameSpaces, c \in Class : \A name, sig :
           MeaningIn(N, K, n, c, name, sig) = MeaningIn(methods, list, n, c, name, sig)
  BY <1>1, <1>2, SortStep
<1> HIDE DEF K, S
<1>6. CallsIn(N, K, calls)
  BY <1>1, <1>2, <1>3, <1>5, CallsKept
<1> QED
  BY <1>4, <1>5, <1>6

LEMMA CompileGood ==
  ASSUME Inv, NEW n \in NameSpaces, NEW c \in Class, NEW name \in Name, NEW sig \in Signature,
         Compile(n, c, name, sig)
  PROVE  Good
<1>1. SoundIn(methods, list, sorted) /\ ListedIn(methods, list) /\ calls \in Seq(Call)
  BY DEF Inv, SoundIn
<1> DEFINE mean == MeaningIn(methods, list, n, c, name, sig)
           Bound(r) == [ns |-> n, class |-> c, mtd |-> r, lookup |-> methods[r].flag = "virtual"]
<1>2. PICK T \in Resorted(n, c) :
        LET at == Search(T, n, c, name, sig)
            passed == Passed(T, n, c, at)
        IN  \E r \in Found(at) :
              /\ list' = Lists(passed) /\ sorted' = Counts(passed)
              /\ calls' = Append(calls, Bound(r))
  BY DEF Compile
<1> DEFINE P == Passed(T, n, c, Search(T, n, c, name, sig))
<1>3. Found(Search(T, n, c, name, sig)) = mean
  BY <1>1, SearchMeans
<1>4. Sorts(P)
  BY ResortedSorts
<1>5. PICK r \in mean : list' = Lists(P) /\ sorted' = Counts(P) /\ calls' = Append(calls, Bound(r))
  BY <1>2, <1>3
<1>6. methods' = methods
  BY DEF Compile
<1>7. /\ mean = {r} /\ methods[r].class \in Class /\ methods[r].name = name /\ methods[r].sig = sig
      /\ MeaningIn(methods, list, n, methods[r].class, name, sig) = {r}
      /\ \E l \in ListId : r \in ToSet(list[l])
  BY <1>1, MeantIs
<1>8. r \in DOMAIN methods /\ r \in Nat
  BY <1>1, <1>7, TypedAre DEF SoundIn
<1> HIDE DEF P
<1>9. /\ SoundIn(methods', list', sorted') /\ Kept(methods, list, methods', list')
      /\ CallsIn(methods', list', calls)
      /\ \A m \in NameSpaces, d \in Class : \A nm, sg :
           MeaningIn(methods', list', m, d, nm, sg) = MeaningIn(methods, list, m, d, nm, sg)
  BY <1>4, <1>5, <1>6, Sorted
<1> DEFINE b == Bound(r)
           C == calls'
<1>10. b \in Call /\ b.ns = n /\ b.class = c /\ b.mtd = r
  BY <1>8 DEF Call
<1>11. C = Append(calls, b)
  BY <1>5
<1> HIDE DEF b, C
<1>12. /\ C \in Seq(Call) /\ Len(C) = Len(calls) + 1 /\ C[Len(calls) + 1] = b
       /\ \A i \in 1 .. Len(calls) : C[i] = calls[i]
  BY <1>1, <1>10, <1>11, AppendProperties
<1>13. Len(calls) \in Nat /\ DOMAIN calls = 1 .. Len(calls) /\ DOMAIN C = 1 .. Len(C)
  BY <1>1, <1>12, LenProperties
<1> DEFINE Ok(x) ==
             /\ x.mtd \in DOMAIN methods'
             /\ MeaningIn(methods', list', x.ns, x.class, methods'[x.mtd].name, methods'[x.mtd].sig) # {}
             /\ MeaningIn(methods', list', x.ns, methods'[x.mtd].class, methods'[x.mtd].name, methods'[x.mtd].sig)
                  = {x.mtd}
<1>14. Ok(b)
  <2>1. MeaningIn(methods', list', n, c, name, sig) = {r}
    BY <1>7, <1>9
  <2>2. MeaningIn(methods', list', n, methods[r].class, name, sig) = {r}
    BY <1>7, <1>9
  <2> QED
    BY <1>6, <1>7, <1>8, <1>10, <2>1, <2>2
<1>15. \A i \in DOMAIN calls : Ok(calls[i])
  BY <1>9 DEF CallsIn
<1> HIDE DEF Ok
<1>16. \A i \in DOMAIN C : Ok(C[i])
  BY <1>12, <1>13, <1>14, <1>15
<1>17. CallsIn(methods', list', C)
  BY <1>16 DEF CallsIn, Ok
<1> QED
  BY <1>9, <1>12, <1>17 DEF Good, C

LEMMA InvokeGood ==
  ASSUME Inv, NEW i \in DOMAIN calls, NEW c \in Class, Invoke(i, c)
  PROVE  Good
<1>1. SoundIn(methods, list, sorted) /\ ListedIn(methods, list) /\ calls \in Seq(Call) /\ CallsIn(methods, list, calls)
  BY DEF Inv, SoundIn
<1> DEFINE x == calls[i].mtd
           n == calls[i].ns
           e == calls[i].class
           nm == methods[x].name
           sg == methods[x].sig
           mean == MeaningIn(methods, list, n, c, nm, sg)
<1>2. calls[i] \in Call /\ DOMAIN calls = 1 .. Len(calls) /\ Len(calls) \in Nat
  BY <1>1, LenProperties, ElementOfSeq
<1>3. n \in NameSpaces /\ e \in Class /\ e \in ToSet(Ancestry[c])
  BY <1>2 DEF Call, Invoke
<1>4. x \in DOMAIN methods /\ MeaningIn(methods, list, n, e, nm, sg) # {}
  BY <1>1 DEF CallsIn
<1>5. nm \in Name
  BY <1>1, <1>4, TypedAre DEF SoundIn
<1>6. PICK T \in Resorted(n, c) :
        LET at == Search(T, n, c, nm, sg)
            passed == Passed(T, n, c, at)
        IN  /\ list' = Lists(passed) /\ sorted' = Counts(passed)
            /\ \E r \in IF Found(at) = {} THEN {NULL} ELSE Found(at) :
                 calls' = [calls EXCEPT ![i].mtd = r]
  BY DEF Invoke
<1> DEFINE P == Passed(T, n, c, Search(T, n, c, nm, sg))
<1>7. methods' = methods
  BY DEF Invoke
<1> HIDE DEF n, e, nm, sg, x
<1>8. Found(Search(T, n, c, nm, sg)) = mean
  BY <1>1, <1>3, <1>5, SearchMeans
<1>9. mean # {}
  BY <1>1, <1>3, <1>4, MeaningPassesOn
<1>10. Sorts(P)
  BY ResortedSorts
<1>11. PICK r \in mean : list' = Lists(P) /\ sorted' = Counts(P) /\ calls' = [calls EXCEPT ![i].mtd = r]
  BY <1>6, <1>8, <1>9
<1>12. /\ mean = {r} /\ methods[r].class \in Class /\ methods[r].name = nm /\ methods[r].sig = sg
       /\ MeaningIn(methods, list, n, methods[r].class, nm, sg) = {r}
       /\ \E l \in ListId : r \in ToSet(list[l])
  BY <1>1, <1>3, MeantIs
<1>13. r \in DOMAIN methods /\ r \in Nat
  BY <1>1, <1>12, TypedAre DEF SoundIn
<1> HIDE DEF P
<1>14. /\ SoundIn(methods', list', sorted') /\ Kept(methods, list, methods', list')
       /\ CallsIn(methods', list', calls)
       /\ \A m \in NameSpaces, d \in Class : \A name, sig :
            MeaningIn(methods', list', m, d, name, sig) = MeaningIn(methods, list, m, d, name, sig)
  BY <1>7, <1>10, <1>11, Sorted
<1> DEFINE b == [calls[i] EXCEPT !.mtd = r]
           C == calls'
<1>15. b \in Call /\ b.ns = n /\ b.class = e /\ b.mtd = r
  BY <1>2, <1>13 DEF Call, n, e
<1>16. C = [calls EXCEPT ![i] = b]
  BY <1>11
<1> HIDE DEF b, C
<1>17. C \in Seq(Call) /\ DOMAIN C = DOMAIN calls /\ C[i] = b /\ \A j \in DOMAIN calls : j # i => C[j] = calls[j]
  BY <1>1, <1>15, <1>16
<1> DEFINE Ok(y) ==
             /\ y.mtd \in DOMAIN methods'
             /\ MeaningIn(methods', list', y.ns, y.class, methods'[y.mtd].name, methods'[y.mtd].sig) # {}
             /\ MeaningIn(methods', list', y.ns, methods'[y.mtd].class, methods'[y.mtd].name, methods'[y.mtd].sig)
                  = {y.mtd}
<1>18. Ok(b)
  <2>1. MeaningIn(methods', list', n, e, nm, sg) # {}
    BY <1>3, <1>4, <1>14
  <2>2. MeaningIn(methods', list', n, methods[r].class, nm, sg) = {r}
    BY <1>3, <1>12, <1>14
  <2> QED
    BY <1>7, <1>12, <1>13, <1>15, <2>1, <2>2
<1>19. \A j \in DOMAIN calls : Ok(calls[j])
  BY <1>14 DEF CallsIn
<1> HIDE DEF Ok
<1>20. \A j \in DOMAIN C : Ok(C[j])
  BY <1>17, <1>18, <1>19
<1>21. CallsIn(methods', list', C)
  BY <1>20 DEF CallsIn, Ok
<1> QED
  BY <1>14, <1>17, <1>21 DEF Good, C

LEMMA InitGood == Init => Inv
<1> SUFFICES ASSUME Init PROVE Inv
  OBVIOUS
<1>1. /\ methods = <<>> /\ calls = <<>> /\ DOMAIN methods = {} /\ DOMAIN calls = {}
      /\ list = [l \in ListId |-> <<>>] /\ sorted = [l \in ListId |-> 0]
  BY DEF Init
<1>2. /\ \A l \in ListId : list[l] = <<>> /\ DOMAIN list[l] = {} /\ sorted[l] = 0 /\ Len(list[l]) = 0
      /\ methods \in Seq(Method) /\ calls \in Seq(Call)
  BY <1>1
<1>3. TypedIn(methods, list, sorted)
  BY <1>1, <1>2 DEF TypedIn
<1>4. ListedIn(methods, list)
  BY <1>1, <1>2 DEF ListedIn
<1>5. SortedIn(methods, list, sorted)
  BY <1>2 DEF SortedIn
<1>6. CallsIn(methods, list, calls)
  BY <1>1 DEF CallsIn
<1> QED
  BY <1>2, <1>3, <1>4, <1>5, <1>6 DEF Inv, SoundIn

LEMMA NextGood == IInv /\ [Next]_vars => IInv' /\ Kept(methods, list, methods', list')
<1> SUFFICES ASSUME Inv, [Next]_vars PROVE Good
  BY InvIs DEF Good, Inv
<1>1. CASE Next
  <2>1. ASSUME NEW n \in NameSpaces, NEW c \in Class, NEW name \in Name, NEW sig \in Signature,
               AddMethod(n, c, name, sig)
        PROVE  Good
    BY <2>1, AddMethodGood
  <2>2. ASSUME NEW n \in NameSpaces, NEW c \in Class, NEW name \in Name, NEW sig \in Signature,
               Compile(n, c, name, sig)
        PROVE  Good
    BY <2>2, CompileGood
  <2>3. ASSUME NEW i \in DOMAIN calls, NEW c \in Class, Invoke(i, c)
        PROVE  Good
    BY <2>3, InvokeGood
  <2> QED
    BY <1>1, <2>1, <2>2, <2>3 DEF Next
<1>2. CASE UNCHANGED vars
  <2>1. methods' = methods /\ list' = list /\ sorted' = sorted /\ calls' = calls
    BY <1>2 DEF vars
  <2> QED
    BY <2>1 DEF Good, Inv, Kept
<1> QED
  BY <1>1, <1>2

----------------------------------------------------------------------------
(* Theorems.                                                               *)

(* Every list that kNameSpace_AddMethod adds to and kMethodList_Match-     *)
(* Method sorts holds its methods once, with no two of the same class,     *)
(* name and signature, and is sorted as far as sortedMethodList says;      *)
(* every call that MiniVM_VisitMethodCallNode has bound is bound to a      *)
(* method that means itself.                                               *)
THEOREM ListsAreSound == Spec => []IInv
<1>1. Init => IInv
  BY InitGood, InvIs
<1>2. IInv /\ [Next]_vars => IInv'
  BY NextGood
<1> QED
  BY <1>1, <1>2, PTL DEF Spec

(* The binary search of kMethodList_MatchMethod, with its walk in both     *)
(* directions and over the unsorted tail, visits every method of the list  *)
(* that has the class and name, and no other: however qsort has ordered    *)
(* those with one key, and however much has been added since.              *)
THEOREM SearchIsExact == Spec => []SearchExact
<1>1. IInv => SearchExact
  BY Exact DEF IInv
<1> QED
  BY <1>1, ListsAreSound, PTL

(* The inline cache of a call is never empty and, where it is used without *)
(* a search, it has what a search would find now: no method that           *)
(* kNameSpace_AddMethod has accepted since can come before it.             *)
THEOREM CachesAreFresh == Spec => []CachesFresh
<1>1. IInv => CachesFresh
  <2> SUFFICES ASSUME SoundIn(methods, list, sorted), CallsInv, NEW i \in DOMAIN calls
      PROVE  /\ calls[i].mtd # NULL
             /\ \A c \in Class :
                  ~Misses(i, c) => Meaning(calls[i].ns, c, methods[calls[i].mtd].name, methods[calls[i].mtd].sig)
                                     = {calls[i].mtd}
    BY SoundIs DEF IInv, CachesFresh
  <2>1. /\ calls[i].mtd \in DOMAIN methods
        /\ Meaning(calls[i].ns, methods[calls[i].mtd].class, methods[calls[i].mtd].name, methods[calls[i].mtd].sig)
             = {calls[i].mtd}
    BY DEF CallsInv
  <2>2. DOMAIN methods = 1 .. Len(methods) /\ Len(methods) \in Nat
    BY TypedAre DEF SoundIn
  <2> QED
    BY <2>1, <2>2 DEF NULL, Misses
<1> QED
  BY <1>1, ListsAreSound, PTL

(* What a call of a name, with a signature, means in a name space changes  *)
(* only to a method just made of a class nearer to the receiver's: not by  *)
(* a definition for the same class in whatever name space, by @Override,   *)
(* by a sort, or by a call.                                                *)
THEOREM MeaningIsKept == Spec => MeaningKept
<1>1. IInv /\ [Next]_vars =>
        \A n \in NameSpaces, c \in Class, name \in Name, sig \in Signature :
          LET before == Meaning(n, c, name, sig)
              after == Meaning(n, c, name, sig)'
              new == Len(methods')
          IN  after = before \/
              /\ after = {new} /\ new > Len(methods)
              /\ \A r \in before : methods[r].class \in ToSet(Tail(Ancestry[methods'[new].class]))
  <2> SUFFICES ASSUME IInv, [Next]_vars, NEW n \in NameSpaces, NEW c \in Class, NEW name \in Name, NEW sig \in Signature
      PROVE  LET before == Meaning(n, c, name, sig)
                 after == Meaning(n, c, name, sig)'
                 new == Len(methods')
             IN  after = before \/
                 /\ after = {new} /\ new > Len(methods)
                 /\ \A r \in before : methods[r].class \in ToSet(Tail(Ancestry[methods'[new].class]))
    OBVIOUS
  <2>1. Kept(methods, list, methods', list') /\ Len(methods) \in Nat
    BY NextGood, LenProperties DEF IInv, TypeOK
  <2>2. \/ Meaning(n, c, name, sig)' = Meaning(n, c, name, sig)
        \/ /\ Len(methods') = Len(methods) + 1
           /\ Meaning(n, c, name, sig)' = {Len(methods) + 1}
           /\ \A r \in Meaning(n, c, name, sig) :
                methods[r].class \in ToSet(Tail(Ancestry[methods'[Len(methods')].class]))
    BY <2>1, MeaningIs DEF Kept, Overtakes
  <2> QED
    BY <2>1, <2>2
<1> QED
  BY <1>1, ListsAreSound, PTL DEF Spec, MeaningKept
=============================================================================
