-------------------------- MODULE BitmapHeapProofs --------------------------
(***************************************************************************)
(* What TLAPS proves of BitmapHeap.tla, for every number of classes, any   *)
(* sizes of their segments, any width of a word, any margins and pools,    *)
(* with and without generations.                                           *)
(***************************************************************************)
EXTENDS BitmapHeap, SequenceTheorems, FiniteSetTheorems, TLAPS

(* Division by the width of a word.                                        *)
LEMMA Quotient ==
  ASSUME NEW n \in Nat
  PROVE  /\ n \div WordBits \in Nat /\ n % WordBits \in 0 .. WordBits - 1
         /\ n = (n \div WordBits) * WordBits + (n % WordBits)
BY HeapAssumption

LEMMA QuotientOf ==
  ASSUME NEW w \in Nat, NEW r \in 0 .. WordBits - 1
  PROVE  /\ (w * WordBits + r) \div WordBits = w
         /\ (w * WordBits + r) % WordBits = r
BY HeapAssumption

LEMMA QuotientUp ==
  ASSUME NEW n \in Nat, NEW m \in Nat, n <= m
  PROVE  n \div WordBits <= m \div WordBits
BY HeapAssumption

LEMMA QuotientBelow ==
  ASSUME NEW n \in Nat, NEW w \in Nat, n < (w + 1) * WordBits
  PROVE  n \div WordBits <= w
BY HeapAssumption

LEMMA NodesAre ==
  ASSUME NEW k \in Klass
  PROVE  /\ NodeCount(k) \in Nat \ {0}
         /\ Node(k) \subseteq Nat /\ 0 \in Node(k) /\ Word(k) \subseteq Nat
         /\ \A n \in Node(k) : WordOf(n) \in Word(k) /\ n \in Bits(k, WordOf(n))
<1>1. Blocks[k] \in Nat \ {0, 1}
  BY HeapAssumption
<1>2. NodeCount(k) \in Nat \ {0} /\ Node(k) \subseteq Nat /\ 0 \in Node(k)
  BY <1>1 DEF NodeCount, Node
<1>3. Word(k) \subseteq Nat
  BY DEF Word
<1>4. ASSUME NEW n \in Node(k) PROVE WordOf(n) \in Word(k)
  <2>1. n \in Nat /\ Blocks[k] - 1 \in Nat /\ n <= Blocks[k] - 1
    BY <1>1 DEF Node
  <2>2. n \div WordBits <= (Blocks[k] - 1) \div WordBits
    BY <2>1, QuotientUp
  <2> QED
    BY <2>1, <2>2, Quotient DEF WordOf, Word
<1> QED
  BY <1>2, <1>3, <1>4 DEF Bits

LEMMA NodesFinite ==
  ASSUME NEW k \in Klass
  PROVE  IsFiniteSet(Node(k)) /\ Cardinality(Node(k)) = NodeCount(k) + 1
<1>1. Blocks[k] \in Nat \ {0, 1}
  BY HeapAssumption
<1>2. Node(k) = 0 .. NodeCount(k) /\ NodeCount(k) \in Nat
  BY <1>1 DEF Node, NodeCount
<1>3. /\ IsFiniteSet(0 .. NodeCount(k))
      /\ Cardinality(0 .. NodeCount(k)) = NodeCount(k) - 0 + 1
  BY <1>2, FS_Interval
<1> QED
  BY <1>2, <1>3

LEMMA BitsAre ==
  ASSUME NEW k \in Klass
  PROVE  /\ Bit(k) \subseteq Nat /\ Node(k) \subseteq Bit(k) /\ 0 \in Bit(k)
         /\ \A n \in Bit(k) : WordOf(n) \in Word(k)
<1> DEFINE m == NodeCount(k)
           w == WordOf(m)
<1>1. m \in Nat \ {0}
  BY NodesAre
<1>2. w \in Nat /\ m = w * WordBits + (m % WordBits) /\ m % WordBits \in 0 .. WordBits - 1
  BY <1>1, Quotient DEF WordOf
<1>3. Word(k) = 0 .. w
  BY DEF Word, WordOf, NodeCount
<1>4. Node(k) = 0 .. m
  BY DEF Node, NodeCount
<1>5. Bit(k) = 0 .. (w + 1) * WordBits - 1
  BY DEF Bit
<1>6. WordBits \in Nat \ {0, 1}
  BY HeapAssumption
<1> HIDE DEF m, w
<1>7. (w + 1) * WordBits = w * WordBits + WordBits /\ w * WordBits \in Nat /\ m < (w + 1) * WordBits
  BY <1>1, <1>2, <1>6
<1>8. ASSUME NEW n \in Bit(k) PROVE n \in Nat /\ WordOf(n) \in Word(k)
  <2>1. n \in Nat /\ n < (w + 1) * WordBits
    <3>1. (w + 1) * WordBits \in Nat /\ n \in 0 .. (w + 1) * WordBits - 1
      BY <1>5, <1>6, <1>7
    <3> QED
      BY <3>1
  <2>2. n \div WordBits <= w
    BY <1>2, <2>1, QuotientBelow
  <2> QED
    BY <1>2, <1>3, <2>1, <2>2, Quotient DEF WordOf
<1> QED
  BY <1>1, <1>4, <1>5, <1>6, <1>7, <1>8

(* The mask goes on to the next bit, or to the first bit of its word.      *)
LEMMA RotateIs ==
  ASSUME NEW k \in Klass, NEW n \in Bit(k)
  PROVE  /\ Rotate(n) \in Bit(k)
         /\ WordOf(Rotate(n)) = WordOf(n)
         /\ \A m \in Nat : WordOf(m) = WordOf(n) /\ m < Rotate(n) => m <= n
<1> DEFINE w == WordOf(n)
           r == (n + 1) % WordBits
           v == WordOf(NodeCount(k))
<1>1. n \in Nat /\ w \in Nat /\ w \in Word(k) /\ n = w * WordBits + (n % WordBits)
      /\ n % WordBits \in 0 .. WordBits - 1
  BY BitsAre, Quotient DEF WordOf
<1>2. r \in 0 .. WordBits - 1 /\ r \in Nat /\ WordBits \in Nat \ {0, 1}
  BY <1>1, Quotient, HeapAssumption
<1>3. Rotate(n) = w * WordBits + r
  BY DEF Rotate
<1>4. WordOf(Rotate(n)) = w
  BY <1>1, <1>2, <1>3, QuotientOf DEF WordOf
<1>5. w <= v /\ v \in Nat /\ Bit(k) = 0 .. (v + 1) * WordBits - 1
  <2>1. NodeCount(k) \in Nat
    BY NodesAre
  <2> QED
    BY <1>1, <2>1, Quotient DEF Word, WordOf, Bit, NodeCount
<1>6. r = (n % WordBits) + 1 \/ r = 0
  <2> DEFINE q == n % WordBits
  <2>1. CASE q + 1 = WordBits
    <3>1. n + 1 = (w + 1) * WordBits + 0
      BY <1>1, <1>2, <2>1
    <3>2. ((w + 1) * WordBits + 0) % WordBits = 0
      BY <1>1, <1>2, QuotientOf
    <3> QED
      BY <3>1, <3>2
  <2>2. CASE q + 1 # WordBits
    <3>1. q + 1 \in 0 .. WordBits - 1
      BY <1>1, <1>2, <2>2
    <3>2. n + 1 = w * WordBits + (q + 1)
      BY <1>1, <1>2
    <3>3. (w * WordBits + (q + 1)) % WordBits = q + 1
      BY <1>1, <3>1, QuotientOf
    <3> QED
      BY <3>2, <3>3
  <2> QED
    BY <2>1, <2>2
<1> HIDE DEF w, r, v
<1>7. Rotate(n) \in Bit(k)
  <2>1. w * WordBits <= v * WordBits /\ w * WordBits \in Nat /\ v * WordBits \in Nat
    BY <1>1, <1>2, <1>5
  <2>2. (v + 1) * WordBits = v * WordBits + WordBits
    BY <1>2, <1>5
  <2> QED
    BY <1>2, <1>3, <1>5, <2>1, <2>2
<1>8. ASSUME NEW m \in Nat, WordOf(m) = w, m < Rotate(n) PROVE m <= n
  <2> DEFINE q == m % WordBits
             p == n % WordBits
  <2>1. m = w * WordBits + q /\ q \in 0 .. WordBits - 1
    BY <1>8, Quotient DEF WordOf
  <2>2. w * WordBits \in Nat /\ p \in Nat
    BY <1>1, <1>2
  <2>3. q < r
    BY <1>2, <1>3, <1>8, <2>1, <2>2
  <2>4. r = p + 1 /\ n = w * WordBits + p
    BY <1>1, <1>6, <2>1, <2>3
  <2> HIDE DEF q, p
  <2> QED
    BY <2>1, <2>2, <2>3, <2>4
<1> QED
  BY <1>4, <1>7, <1>8 DEF w

----------------------------------------------------------------------------
(* A set of numbers has a least one.                                       *)
LEMMA LeastNat ==
  ASSUME NEW T \in SUBSET Nat, T # {}
  PROVE  \E m \in T : \A k \in T : m <= k
<1> DEFINE R == OpToRel(<, Nat)
<1>1. IsWellFoundedOn(R, Nat)
  BY NatLessThanWellFounded
<1>2. \A a, b \in Nat : <<a, b>> \notin R => ~ (a < b)
  BY DEF OpToRel
<1> HIDE DEF R
<1>3. PICK m \in T : \A k \in T : <<k, m>> \notin R
  BY <1>1, WFMin
<1>4. ASSUME NEW k \in T PROVE m <= k
  <2>1. m \in Nat /\ k \in Nat
    OBVIOUS
  <2>2. ~ (k < m)
    BY <1>2, <1>3, <2>1, Zenon
  <2> QED
    BY <2>1, <2>2
<1> QED
  BY <1>4

LEMMA LeastIs ==
  ASSUME NEW T \in SUBSET Nat, T # {}
  PROVE  Least(T) \in T /\ Least(T) \in Nat /\ \A m \in T : Least(T) <= m
BY LeastNat DEF Least

----------------------------------------------------------------------------
(* findNextFreeNode.                                                       *)

(* Every word of f is full of marks, and the pointer n has left no free    *)
(* block behind it in its word.                                            *)
Hides(k, b, f) == \A w \in f : Bits(k, w) \subseteq b
Behind(k, b, n) == \A m \in Bits(k, WordOf(n)) : m < n => m \in b

LEMMA UnfilledIs ==
  ASSUME NEW k \in Klass, NEW b, NEW f, NEW n
  PROVE  /\ Unfilled(k, b, f, n) \in SUBSET Nat
         /\ Unfilled(k, b, f, n) # {} =>
              /\ Least(Unfilled(k, b, f, n)) \in Unfilled(k, b, f, n)
              /\ Bits(k, Least(Unfilled(k, b, f, n))) \ b # {}
<1>1. Unfilled(k, b, f, n) \in SUBSET Nat
  BY NodesAre DEF Unfilled
<1> DEFINE w == Least(Unfilled(k, b, f, n))
<1>2. ASSUME Unfilled(k, b, f, n) # {} PROVE w \in Unfilled(k, b, f, n) /\ Bits(k, w) \ b # {}
  <2>1. w \in Unfilled(k, b, f, n)
    BY <1>1, <1>2, LeastIs
  <2> QED
    BY <2>1 DEF Unfilled
<1> QED
  BY <1>1, <1>2

LEMMA FoundIs ==
  ASSUME NEW k \in Klass, NEW b, NEW f, NEW n \in Bit(k), Behind(k, b, n),
         Found(k, b, f, n) # {}
  PROVE  /\ Least(Found(k, b, f, n)) \in Node(k) \ b
         /\ Behind(k, b, Least(Found(k, b, f, n)))
<1> DEFINE x == Least(Found(k, b, f, n))
<1>1. Found(k, b, f, n) \in SUBSET (Node(k) \ b)
  BY DEF Found, Ahead, Bits
<1>2. x \in Node(k) \ b /\ x \in Found(k, b, f, n) /\ x \in Nat /\ \A m \in Found(k, b, f, n) : x <= m
  BY <1>1, NodesAre, LeastIs
<1> HIDE DEF x
<1>3. ASSUME NEW m \in Bits(k, WordOf(x)), m < x PROVE m \in b
  <2>1. m \in Nat /\ ~ (x <= m) /\ n \in Nat
    BY <1>2, <1>3, NodesAre, BitsAre DEF Bits
  <2>2. CASE Ahead(k, b, n) # {}
    <3>1. WordOf(x) = WordOf(n)
      BY <1>2, <2>2 DEF Found, Ahead, Bits
    <3>2. m \notin Ahead(k, b, n)
      BY <1>2, <2>1, <2>2 DEF Found
    <3>3. m \in b \/ m \in 0 .. n - 1
      BY <1>3, <3>1, <3>2 DEF Ahead
    <3> QED
      BY <1>3, <2>1, <3>1, <3>3 DEF Behind
  <2>3. CASE Ahead(k, b, n) = {}
    <3> DEFINE w == Least(Unfilled(k, b, f, n))
    <3>1. Unfilled(k, b, f, n) # {} /\ Found(k, b, f, n) = Bits(k, w) \ b
      BY <2>3 DEF Found
    <3> HIDE DEF w
    <3>2. WordOf(x) = w
      BY <1>2, <3>1 DEF Bits
    <3> QED
      BY <1>2, <1>3, <2>1, <3>1, <3>2
  <2> QED
    BY <2>2, <2>3
<1> QED
  BY <1>2, <1>3 DEF x, Behind

LEMMA PassedIs ==
  ASSUME NEW k \in Klass, NEW b, NEW f \in SUBSET Nat, NEW n \in Bit(k),
         Behind(k, b, n), Hides(k, b, f)
  PROVE  Passed(k, b, f, n) \in SUBSET Nat /\ Hides(k, b, Passed(k, b, f, n))
<1>1. CASE Ahead(k, b, n) # {}
  BY <1>1 DEF Passed
<1>2. CASE Ahead(k, b, n) = {}
  <2> DEFINE U == Unfilled(k, b, f, n)
             V == {w \in Word(k) : \A u \in U : w < u}
  <2>1. Passed(k, b, f, n) = f \cup {WordOf(n)} \cup V
    BY <1>2 DEF Passed
  <2>2. Bits(k, WordOf(n)) \subseteq b
    <3> SUFFICES ASSUME NEW m \in Bits(k, WordOf(n)) PROVE m \in b
      OBVIOUS
    <3>1. m \in Nat /\ n \in Nat
      BY NodesAre, BitsAre DEF Bits
    <3>2. m \in b \/ m \in 0 .. n - 1
      BY <1>2 DEF Ahead
    <3> QED
      BY <3>1, <3>2 DEF Behind
  <2>3. ASSUME NEW w \in V PROVE Bits(k, w) \subseteq b
    <3>1. w \in Nat /\ w \in Word(k) /\ w \notin U
      <4>1. w \in Nat /\ w \in Word(k) /\ ~ (w < w)
        BY NodesAre
      <4> QED
        BY <4>1
    <3>2. w \in f \/ w = WordOf(n) \/ Bits(k, w) \subseteq b
      BY <3>1 DEF Unfilled
    <3> QED
      BY <2>2, <3>2 DEF Hides
  <2>4. WordOf(n) \in Nat /\ V \in SUBSET Nat
    BY BitsAre, NodesAre
  <2> HIDE DEF V
  <2> QED
    BY <2>1, <2>2, <2>3, <2>4 DEF Hides
<1> QED
  BY <1>1, <1>2

(* A segment with a free block is not taken for one without.               *)
LEMMA FoundFirst ==
  ASSUME NEW k \in Klass, NEW b, NEW f, Hides(k, b, f), NEW x \in Node(k) \ b
  PROVE  Found(k, b, f, 0) # {}
<1>1. CASE Ahead(k, b, 0) # {}
  BY <1>1 DEF Found
<1>2. CASE Ahead(k, b, 0) = {}
  <2>1. Bits(k, WordOf(0)) \subseteq b
    BY <1>2 DEF Ahead
  <2>2. WordOf(x) \in Word(k) /\ x \in Bits(k, WordOf(x))
    BY NodesAre
  <2>3. WordOf(x) \in Unfilled(k, b, f, 0)
    BY <2>1, <2>2 DEF Unfilled, Hides
  <2> QED
    BY <1>2, <2>3, UnfilledIs DEF Found
<1> QED
  BY <1>1, <1>2

(* inc: what is left behind once the block found is taken.                 *)
LEMMA BehindNext ==
  ASSUME NEW k \in Klass, NEW b, NEW x \in Node(k), Behind(k, b, x)
  PROVE  Rotate(x) \in Bit(k) /\ Behind(k, b \cup {x}, Rotate(x))
<1>1. x \in Bit(k) /\ x \in Nat
  BY BitsAre
<1>2. /\ Rotate(x) \in Bit(k) /\ WordOf(Rotate(x)) = WordOf(x)
      /\ \A m \in Nat : WordOf(m) = WordOf(x) /\ m < Rotate(x) => m <= x
  BY <1>1, RotateIs
<1>3. ASSUME NEW m \in Bits(k, WordOf(x)), m < Rotate(x) PROVE m \in b \cup {x}
  <2>1. m \in Nat /\ m <= x
    BY <1>2, <1>3, NodesAre DEF Bits
  <2> QED
    BY <1>1, <2>1 DEF Behind
<1> QED
  BY <1>2, <1>3 DEF Behind

----------------------------------------------------------------------------
(* Induction and recursion over the natural numbers.                       *)
LEMMA Induct ==
  ASSUME NEW T \in SUBSET Nat, 0 \in T, \A n \in Nat : n # 0 /\ n - 1 \in T => n \in T
  PROVE  \A n \in Nat : n \in T
<1> SUFFICES ASSUME Nat \ T # {} PROVE FALSE
  OBVIOUS
<1>1. PICK m \in Nat \ T : \A k \in Nat \ T : m <= k
  BY LeastNat
<1>2. m \in Nat /\ m # 0 /\ m - 1 \in Nat /\ ~ (m <= m - 1)
  BY <1>1
<1>3. m - 1 \in T
  BY <1>1, <1>2
<1> QED
  BY <1>1, <1>2, <1>3

(* A function defined by recursion on 0 .. N.                              *)
Recurses(g, S, a, N, step) ==
  /\ g \in [0 .. N -> S]
  /\ \A i \in 0 .. N : g[i] = IF i = 0 THEN a ELSE step[i][g[i - 1]]
LEMMA Recursion ==
  ASSUME NEW S, NEW a \in S, NEW N \in Nat, NEW step \in [1 .. N -> [S -> S]]
  PROVE  \E g : Recurses(g, S, a, N, step)
<1> DEFINE Upto(n, g) == \A i \in 0 .. n : g[i] = IF i = 0 THEN a ELSE step[i][g[i - 1]]
           T == {n \in Nat : n <= N => \E g \in [0 .. n -> S] : Upto(n, g)}
<1>1. 0 \in T
  <2>1. [i \in 0 .. 0 |-> a] \in [0 .. 0 -> S] /\ Upto(0, [i \in 0 .. 0 |-> a])
    OBVIOUS
  <2> QED
    BY <2>1
<1>2. ASSUME NEW n \in Nat, n # 0, n - 1 \in T PROVE n \in T
  <2> SUFFICES ASSUME n <= N PROVE \E g \in [0 .. n -> S] : Upto(n, g)
    OBVIOUS
  <2>1. n \in Nat /\ n - 1 \in Nat /\ n - 1 <= N /\ n \in 1 .. N
    BY <1>2
  <2>2. PICK g \in [0 .. n - 1 -> S] : Upto(n - 1, g)
    BY <1>2, <2>1
  <2> DEFINE h == [i \in 0 .. n |-> IF i = n THEN step[n][g[n - 1]] ELSE g[i]]
  <2>3. g[n - 1] \in S /\ step[n] \in [S -> S]
    BY <2>1
  <2>4. h \in [0 .. n -> S]
    BY <2>1, <2>3
  <2>5. ASSUME NEW i \in 0 .. n PROVE h[i] = IF i = 0 THEN a ELSE step[i][h[i - 1]]
    <3>1. CASE i = n
      <4>1. i # 0 /\ n - 1 \in 0 .. n /\ n - 1 # n
        BY <1>2, <2>1, <3>1
      <4>2. h[n - 1] = g[n - 1]
        BY <4>1
      <4> QED
        BY <3>1, <4>1, <4>2
    <3>2. CASE i # n
      <4>1. i \in 0 .. n - 1 /\ h[i] = g[i]
        BY <2>1, <3>2
      <4>2. i # 0 => i - 1 \in 0 .. n /\ i - 1 # n /\ h[i - 1] = g[i - 1]
        BY <2>1, <4>1
      <4> HIDE DEF h
      <4> QED
        BY <2>2, <4>1, <4>2
    <3> QED
      BY <3>1, <3>2
  <2> HIDE DEF h
  <2> QED
    BY <2>4, <2>5
<1> HIDE DEF T
<1>3. T \subseteq Nat
  BY DEF T
<1>4. N \in T
  BY <1>1, <1>2, <1>3, Induct
<1> QED
  BY <1>4 DEF T, Recurses


----------------------------------------------------------------------------
(* Lists of segments.                                                      *)

LEMMA RangeIs ==
  ASSUME NEW S, NEW q \in Seq(S)
  PROVE  /\ DOMAIN q = 1 .. Len(q) /\ Len(q) \in Nat
         /\ Range(q) \subseteq S
         /\ \A i \in 1 .. Len(q) : q[i] \in Range(q)
         /\ \A x \in Range(q) : \E i \in 1 .. Len(q) : x = q[i]
<1>1. DOMAIN q = 1 .. Len(q) /\ Len(q) \in Nat
  BY LenProperties
<1>2. \A i \in 1 .. Len(q) : q[i] \in S
  BY ElementOfSeq
<1> QED
  BY <1>1, <1>2 DEF Range

LEMMA AppendIs ==
  ASSUME NEW S, NEW q \in Seq(S), NEW x \in S
  PROVE  /\ Append(q, x) \in Seq(S) /\ Append(q, x) # <<>>
         /\ Range(Append(q, x)) = Range(q) \cup {x}
         /\ IsInjective(q) /\ x \notin Range(q) => IsInjective(Append(q, x))
<1> DEFINE p == Append(q, x)
           n == Len(q)
<1>1. /\ p \in Seq(S) /\ p # <<>> /\ Len(p) = n + 1 /\ p[n + 1] = x
      /\ \A i \in 1 .. n : p[i] = q[i]
  BY AppendProperties
<1>2. DOMAIN p = 1 .. n + 1 /\ DOMAIN q = 1 .. n /\ n \in Nat
  BY <1>1, LenProperties
<1> HIDE DEF p, n
<1>3. 1 .. n + 1 = (1 .. n) \cup {n + 1} /\ n + 1 \notin 1 .. n
  BY <1>2
<1>4. Range(p) = Range(q) \cup {x}
  BY <1>1, <1>2, <1>3 DEF Range
<1>5. ASSUME IsInjective(q), x \notin Range(q) PROVE IsInjective(p)
  BY <1>1, <1>2, <1>3, <1>5 DEF Range, IsInjective
<1> QED
  BY <1>1, <1>4, <1>5 DEF p

LEMMA TailIs ==
  ASSUME NEW S, NEW q \in Seq(S), q # <<>>
  PROVE  /\ Tail(q) \in Seq(S) /\ Head(q) \in S /\ Head(q) \in Range(q)
         /\ Range(Tail(q)) \subseteq Range(q)
         /\ IsInjective(q) => IsInjective(Tail(q)) /\ Range(Tail(q)) = Range(q) \ {Head(q)}
<1> DEFINE t == Tail(q)
           n == Len(q)
<1>1. /\ t \in Seq(S) /\ Len(t) = n - 1 /\ Head(q) = q[1]
      /\ \A i \in 1 .. n - 1 : t[i] = q[i + 1]
  BY HeadTailProperties
<1>2. DOMAIN q = 1 .. n /\ n \in Nat \ {0} /\ DOMAIN t = 1 .. n - 1
  BY <1>1, LenProperties, EmptySeq
<1> HIDE DEF t, n
<1>3. /\ 1 \in 1 .. n /\ \A i \in 1 .. n - 1 : i + 1 \in 1 .. n /\ i + 1 # 1
      /\ \A i \in 1 .. n : i # 1 => i - 1 \in 1 .. n - 1 /\ (i - 1) + 1 = i
      /\ \A i, j \in 1 .. n - 1 : i + 1 = j + 1 => i = j
  BY <1>2
<1>4. Head(q) \in Range(q) /\ Head(q) \in S
  BY <1>1, <1>2, <1>3, ElementOfSeq DEF Range, n
<1>5. Range(t) \subseteq Range(q)
  BY <1>1, <1>2, <1>3 DEF Range
<1>6. ASSUME IsInjective(q) PROVE IsInjective(t) /\ Range(t) = Range(q) \ {Head(q)}
  <2>1. IsInjective(t)
    BY <1>1, <1>2, <1>3, <1>6 DEF IsInjective
  <2>2. Head(q) \notin Range(t)
    BY <1>1, <1>2, <1>3, <1>6 DEF IsInjective, Range
  <2>3. ASSUME NEW x \in Range(q), x # Head(q) PROVE x \in Range(t)
    <3>1. PICK i \in 1 .. n : x = q[i]
      BY <1>2 DEF Range
    <3>2. i # 1 /\ i - 1 \in 1 .. n - 1 /\ t[i - 1] = q[(i - 1) + 1] /\ (i - 1) + 1 = i
      BY <1>1, <1>3, <2>3, <3>1
    <3> QED
      BY <1>2, <3>1, <3>2 DEF Range
  <2> QED
    BY <1>5, <2>1, <2>2, <2>3
<1> QED
  BY <1>1, <1>4, <1>5, <1>6 DEF t

LEMMA LenOne ==
  ASSUME NEW S, NEW q \in Seq(S), IsInjective(q)
  PROVE  Len(q) <= 1 <=> \A x, y \in Range(q) : x = y
<1> DEFINE n == Len(q)
<1>1. DOMAIN q = 1 .. n /\ n \in Nat
  BY LenProperties
<1> HIDE DEF n
<1>2. ASSUME n <= 1 PROVE \A x, y \in Range(q) : x = y
  BY <1>1, <1>2 DEF Range
<1>3. ASSUME ~ (n <= 1) PROVE \E x, y \in Range(q) : x # y
  <2>1. 1 \in 1 .. n /\ 2 \in 1 .. n
    BY <1>1, <1>3
  <2>2. q[1] # q[2]
    BY <1>1, <2>1 DEF IsInjective
  <2> QED
    BY <1>1, <2>1, <2>2 DEF Range
<1> QED
  BY <1>2, <1>3 DEF n

(* Unfilling as a function of a class's segments and their counts: those   *)
(* with a count below m.                                                   *)
UnfilledIn(q, c, m) ==
  LET upto[i \in 0 .. Len(q)] ==
        IF i = 0 THEN <<>>
        ELSE IF c[q[i]] < m THEN Append(upto[i - 1], q[i]) ELSE upto[i - 1]
  IN  upto[Len(q)]

Collects(g, S, q, c, m) ==
  /\ g \in [0 .. Len(q) -> Seq(S)] /\ g[0] = <<>>
  /\ \A i \in 1 .. Len(q) :
       g[i] = IF c[q[i]] < m THEN Append(g[i - 1], q[i]) ELSE g[i - 1]
  /\ UnfilledIn(q, c, m) = g[Len(q)]

LEMMA UnfilledRecurses ==
  ASSUME NEW S, NEW q \in Seq(S), NEW c, NEW m
  PROVE  \E g : Collects(g, S, q, c, m)
<1> DEFINE L == Len(q)
           Z == Seq(S)
           step == [i \in 1 .. L |-> [s \in Z |-> IF c[q[i]] < m THEN Append(s, q[i]) ELSE s]]
<1>1. L \in Nat
  BY LenProperties
<1>2. step \in [1 .. L -> [Z -> Z]]
  <2>1. ASSUME NEW i \in 1 .. L, NEW s \in Z PROVE Append(s, q[i]) \in Z
    <3>1. q[i] \in S
      BY ElementOfSeq
    <3> QED
      BY <3>1, AppendProperties
  <2> HIDE DEF Z, L
  <2> QED
    BY <2>1
<1>3. <<>> \in Z
  OBVIOUS
<1>4. PICK g : Recurses(g, Z, <<>>, L, step)
  <2> HIDE DEF L, step, Z
  <2> QED
    BY <1>1, <1>2, <1>3, Recursion
<1>5. g \in [0 .. L -> Z] /\ g[0] = <<>>
  <2> HIDE DEF L, step, Z
  <2>1. 0 \in 0 .. L
    BY <1>1
  <2> QED
    BY <1>4, <2>1 DEF Recurses
<1>6. ASSUME NEW i \in 1 .. L
      PROVE  g[i] = IF c[q[i]] < m THEN Append(g[i - 1], q[i]) ELSE g[i - 1]
  <2>1. i \in 0 .. L /\ i # 0 /\ i - 1 \in 0 .. L
    BY <1>1
  <2>2. g[i] = step[i][g[i - 1]] /\ g[i - 1] \in Z
    <3> HIDE DEF step, Z
    <3> QED
      BY <1>4, <2>1 DEF Recurses
  <2> HIDE DEF Z, L
  <2> QED
    BY <2>2
<1>7. UnfilledIn(q, c, m) = g[L]
  <2> DEFINE F(h) == h = [i \in 0 .. Len(q) |->
                            IF i = 0 THEN <<>>
                            ELSE IF c[q[i]] < m THEN Append(h[i - 1], q[i]) ELSE h[i - 1]]
             list == CHOOSE h : F(h)
             T == {i \in Nat : i \in 0 .. L => list[i] = g[i]}
  <2>1. F(g)
    <3>1. ASSUME NEW i \in 0 .. L
          PROVE  g[i] = IF i = 0 THEN <<>>
                        ELSE IF c[q[i]] < m THEN Append(g[i - 1], q[i]) ELSE g[i - 1]
      <4>1. CASE i = 0
        BY <1>5, <4>1
      <4>2. CASE i # 0
        <5>1. i \in 1 .. L
          BY <1>1, <4>2
        <5> QED
          BY <1>6, <4>2, <5>1
      <4> QED
        BY <4>1, <4>2
    <3> HIDE DEF Z
    <3> QED
      BY <1>5, <3>1
  <2>2. F(list)
    <3> HIDE DEF F
    <3> QED
      BY <2>1
  <2>3. UnfilledIn(q, c, m) = list[L]
    BY DEF UnfilledIn
  <2> HIDE DEF list
  <2>4. \A i \in 0 .. L : list[i] = IF i = 0 THEN <<>>
                          ELSE IF c[q[i]] < m THEN Append(list[i - 1], q[i]) ELSE list[i - 1]
    BY <2>2
  <2>5. 0 \in T
    BY <1>5, <2>4
  <2>6. ASSUME NEW n \in Nat, n # 0, n - 1 \in T PROVE n \in T
    <3> SUFFICES ASSUME n \in 0 .. L PROVE list[n] = g[n]
      OBVIOUS
    <3>1. n - 1 \in 0 .. L /\ n \in 1 .. L
      BY <1>1, <2>6
    <3>2. list[n - 1] = g[n - 1]
      BY <2>6, <3>1
    <3> QED
      BY <1>6, <2>4, <2>6, <3>1, <3>2
  <2>7. L \in T
    <3> HIDE DEF T, L
    <3> QED
      BY <1>1, <2>5, <2>6, Induct DEF T
  <2> QED
    BY <1>1, <2>3, <2>7
<1> QED
  BY <1>5, <1>6, <1>7 DEF Collects

LEMMA UnfilledAre ==
  ASSUME NEW S, NEW q \in Seq(S), IsInjective(q), NEW c, NEW m
  PROVE  /\ UnfilledIn(q, c, m) \in Seq(S) /\ IsInjective(UnfilledIn(q, c, m))
         /\ Range(UnfilledIn(q, c, m)) = {s \in Range(q) : c[s] < m}
<1> DEFINE L == Len(q)
<1>1. L \in Nat /\ DOMAIN q = 1 .. L /\ \A i \in 1 .. L : q[i] \in S
  BY RangeIs, ElementOfSeq
<1>2. PICK g : Collects(g, S, q, c, m)
  BY UnfilledRecurses
<1>3. /\ g \in [0 .. L -> Seq(S)] /\ g[0] = <<>>
      /\ \A i \in 1 .. L :
           g[i] = IF c[q[i]] < m THEN Append(g[i - 1], q[i]) ELSE g[i - 1]
      /\ UnfilledIn(q, c, m) = g[L]
  BY <1>2 DEF Collects
<1> HIDE DEF L
<1> DEFINE In(i) == {q[j] : j \in {h \in 1 .. i : c[q[h]] < m}}
           T == {i \in Nat : i \in 0 .. L => IsInjective(g[i]) /\ Range(g[i]) = In(i)}
<1>4. 0 \in T
  <2>1. DOMAIN g[0] = {} /\ Range(g[0]) = {}
    <3>1. DOMAIN g[0] = 1 .. Len(g[0]) /\ Len(g[0]) = 0
      BY <1>3, EmptySeq
    <3> QED
      BY <3>1 DEF Range
  <2>2. 1 .. 0 = {}
    OBVIOUS
  <2> QED
    BY <2>1, <2>2 DEF IsInjective
<1>5. ASSUME NEW n \in Nat, n # 0, n - 1 \in T PROVE n \in T
  <2> SUFFICES ASSUME n \in 0 .. L PROVE IsInjective(g[n]) /\ Range(g[n]) = In(n)
    OBVIOUS
  <2>1. n - 1 \in 0 .. L /\ n \in 1 .. L /\ n - 1 \in Nat
    BY <1>1, <1>5
  <2>2. g[n - 1] \in Seq(S) /\ IsInjective(g[n - 1]) /\ Range(g[n - 1]) = In(n - 1)
    BY <1>3, <1>5, <2>1
  <2>3. 1 .. n = (1 .. n - 1) \cup {n} /\ n \notin 1 .. n - 1 /\ 1 .. n - 1 \subseteq 1 .. L
    BY <1>1, <2>1
  <2>4. CASE c[q[n]] < m
    <3>1. g[n] = Append(g[n - 1], q[n]) /\ q[n] \in S
      BY <1>1, <1>3, <2>1, <2>4
    <3>2. In(n) = In(n - 1) \cup {q[n]}
      BY <2>3, <2>4
    <3>3. q[n] \notin In(n - 1)
      <4>1. ASSUME NEW j \in 1 .. n - 1, q[j] = q[n] PROVE FALSE
        BY <1>1, <2>1, <2>3, <4>1 DEF IsInjective
      <4> QED
        BY <4>1
    <3> HIDE DEF In
    <3> QED
      BY <2>2, <3>1, <3>2, <3>3, AppendIs
  <2>5. CASE ~(c[q[n]] < m)
    <3>1. g[n] = g[n - 1]
      BY <1>3, <2>1, <2>5
    <3>2. In(n) = In(n - 1)
      BY <2>3, <2>5
    <3> QED
      BY <2>2, <3>1, <3>2
  <2> QED
    BY <2>4, <2>5
<1>6. L \in T
  <2> HIDE DEF T
  <2> QED
    BY <1>1, <1>4, <1>5, Induct DEF T
<1>7. IsInjective(g[L]) /\ Range(g[L]) = In(L) /\ g[L] \in Seq(S)
  BY <1>1, <1>3, <1>6
<1>8. In(L) = {s \in Range(q) : c[s] < m}
  BY <1>1 DEF Range
<1> QED
  BY <1>3, <1>7, <1>8

(* The dead blocks, and the condition of CheckFull, likewise.              *)
DeadBlocks(k, q, c) == {x \in Range(q) \X (1 .. NodeCount(k)) : c[x[1]] < x[2]}
FullCheck(k, q, c) ==
  /\ q # <<>>
  /\ Cardinality(DeadBlocks(k, q, c)) < NodeCount(k)
  /\ \A s, t \in Range(q) : c[s] < NodeCount(k) /\ c[t] < NodeCount(k) => s = t

LEMMA FullCheckIs ==
  ASSUME NEW k \in Klass, NEW S, NEW q \in Seq(S), IsInjective(q), NEW c
  PROVE  FullCheck(k, q, c) <=>
           /\ q # <<>> /\ Cardinality(DeadBlocks(k, q, c)) < NodeCount(k)
           /\ Len(UnfilledIn(q, c, NodeCount(k))) <= 1
<1> DEFINE u == UnfilledIn(q, c, NodeCount(k))
<1>1. u \in Seq(S) /\ IsInjective(u) /\ Range(u) = {s \in Range(q) : c[s] < NodeCount(k)}
  BY UnfilledAre
<1> HIDE DEF u
<1>2. Len(u) <= 1 <=> \A x, y \in Range(u) : x = y
  BY <1>1, LenOne
<1>3. Len(u) <= 1 <=>
        \A s, t \in Range(q) : c[s] < NodeCount(k) /\ c[t] < NodeCount(k) => s = t
  BY <1>1, <1>2
<1> QED
  BY <1>3 DEF FullCheck, u

LEMMA DeadFinite ==
  ASSUME NEW k \in Klass, NEW q \in Seq(Segment), NEW c
  PROVE  IsFiniteSet(DeadBlocks(k, q, c)) /\ Cardinality(DeadBlocks(k, q, c)) \in Nat
<1>1. NodeCount(k) \in Int /\ MaxSegments \in Int
  BY NodesAre, HeapAssumption
<1>2. IsFiniteSet(1 .. NodeCount(k)) /\ IsFiniteSet(1 .. MaxSegments)
  BY <1>1, FS_Interval
<1>3. IsFiniteSet(Range(q))
  BY <1>2, RangeIs, FS_Subset DEF Segment
<1>4. IsFiniteSet(Range(q) \X (1 .. NodeCount(k)))
  BY <1>2, <1>3, FS_Product
<1>5. DeadBlocks(k, q, c) \subseteq Range(q) \X (1 .. NodeCount(k))
  BY DEF DeadBlocks
<1> QED
  BY <1>4, <1>5, FS_Subset, FS_CardinalityType

(* A class that needs no segment needs none when there are fewer marks.    *)
LEMMA FewerMarks ==
  ASSUME NEW k \in Klass, NEW q \in Seq(Segment), NEW c, NEW d,
         \A s \in Range(q) : c[s] \in Nat /\ d[s] \in Nat /\ d[s] <= c[s],
         FullCheck(k, q, d)
  PROVE  FullCheck(k, q, c)
<1>1. DeadBlocks(k, q, c) \subseteq DeadBlocks(k, q, d)
  <2> SUFFICES ASSUME NEW s \in Range(q), NEW n \in 1 .. NodeCount(k), c[s] < n PROVE d[s] < n
    BY DEF DeadBlocks
  <2> QED
    OBVIOUS
<1>2. /\ Cardinality(DeadBlocks(k, q, c)) <= Cardinality(DeadBlocks(k, q, d))
      /\ Cardinality(DeadBlocks(k, q, c)) \in Nat /\ Cardinality(DeadBlocks(k, q, d)) \in Nat
  BY <1>1, DeadFinite, FS_Subset
<1>3. NodeCount(k) \in Nat
  BY NodesAre
<1>4. Cardinality(DeadBlocks(k, q, c)) < NodeCount(k)
  BY <1>2, <1>3 DEF FullCheck
<1>5. \A s \in Range(q) : c[s] < NodeCount(k) => d[s] < NodeCount(k)
  BY <1>3
<1> QED
  BY <1>4, <1>5 DEF FullCheck

(* Nor does one that has just got a segment.                               *)
LEMMA NotFullNow ==
  ASSUME NEW k \in Klass, NEW q \in Seq(Segment), NEW c, NEW s \in Range(q), c[s] = 0
  PROVE  ~FullCheck(k, q, c)
<1> DEFINE N == NodeCount(k)
           D == {s} \X (1 .. N)
<1>1. N \in Nat
  BY NodesAre
<1>2. IsFiniteSet(1 .. N) /\ Cardinality(1 .. N) = N
  BY <1>1, FS_Interval
<1>3. IsFiniteSet({s}) /\ Cardinality({s}) = 1
  BY FS_Singleton
<1>4. Cardinality(D) = Cardinality({s}) * Cardinality(1 .. N)
  BY <1>2, <1>3, FS_Product
<1>5. D \subseteq DeadBlocks(k, q, c)
  BY <1>1 DEF DeadBlocks
<1>6. Cardinality(D) <= Cardinality(DeadBlocks(k, q, c))
  BY <1>5, DeadFinite, FS_Subset
<1>7. Cardinality(DeadBlocks(k, q, c)) \in Nat
  BY DeadFinite
<1> HIDE DEF D
<1> QED
  BY <1>1, <1>2, <1>3, <1>4, <1>6, <1>7 DEF FullCheck

(* The order in which the classes without free blocks get a segment.       *)
LEMMA Turns ==
  ASSUME NEW N \in SUBSET Klass
  PROVE  /\ Cardinality(N) \in 0 .. Pool /\ (N # {} => Cardinality(N) \in 1 .. Pool)
         /\ \A k \in N : Cardinality({j \in N : j <= k}) \in 1 .. Cardinality(N)
         /\ \A k, j \in N :
              Cardinality({i \in N : i <= k}) = Cardinality({i \in N : i <= j}) => k = j
<1>1. Klasses \in Nat /\ PoolSegments \in Nat /\ Klasses <= 2 * PoolSegments
  BY HeapAssumption
<1>2. IsFiniteSet(Klass) /\ Cardinality(Klass) = Klasses
  BY <1>1, FS_Interval DEF Klass
<1>3. IsFiniteSet(N) /\ Cardinality(N) <= Klasses /\ Cardinality(N) \in Nat
  BY <1>2, FS_Subset, FS_CardinalityType
<1>4. Cardinality(N) \in 0 .. Pool
  BY <1>1, <1>3 DEF Pool
<1>5. ASSUME N # {} PROVE Cardinality(N) # 0
  BY <1>3, <1>5, FS_EmptySet
<1>6. ASSUME NEW k \in N PROVE Cardinality({j \in N : j <= k}) \in 1 .. Cardinality(N)
  <2> DEFINE B == {j \in N : j <= k}
  <2>1. B \subseteq N /\ k \in B
    BY DEF Klass
  <2> HIDE DEF B
  <2>2. IsFiniteSet(B) /\ Cardinality(B) <= Cardinality(N) /\ Cardinality(B) \in Nat
    BY <1>3, <2>1, FS_Subset, FS_CardinalityType
  <2>3. Cardinality(B) # 0
    BY <2>1, <2>2, FS_EmptySet
  <2> QED
    BY <1>3, <2>2, <2>3 DEF B
<1>7. ASSUME NEW k \in N, NEW j \in N, k < j
      PROVE  Cardinality({i \in N : i <= k}) # Cardinality({i \in N : i <= j})
  <2> DEFINE A == {i \in N : i <= k}
             B == {i \in N : i <= j}
  <2>1. A \subseteq B /\ j \in B /\ j \notin A /\ B \subseteq N
    <3>1. k \in Nat /\ j \in Nat /\ \A i \in N : i \in Nat
      BY DEF Klass
    <3>2. \A i \in N : i <= k => i <= j
      BY <1>7, <3>1
    <3>3. j <= j /\ ~ (j <= k)
      BY <1>7, <3>1
    <3> QED
      BY <3>2, <3>3
  <2> HIDE DEF A, B
  <2>2. IsFiniteSet(B)
    BY <1>3, <2>1, FS_Subset
  <2>3. Cardinality(B) = Cardinality(A) => A = B
    BY <2>1, <2>2, FS_Subset
  <2> QED
    BY <2>1, <2>3 DEF A, B
<1>8. \A k, j \in N : k < j \/ j < k \/ k = j
  BY DEF Klass
<1> QED
  BY <1>3, <1>4, <1>5, <1>6, <1>7, <1>8

LEMMA PoolIs == Pool \in Nat \ {0} /\ MaxSegments \in Nat /\ Segment \subseteq Nat \ {0}
BY HeapAssumption DEF Pool, Segment

LEMMA ExpansionIs ==
  ASSUME segments \in Nat, segments + Pool <= MaxSegments
  PROVE  /\ Expansion \in Seq(Segment) /\ Len(Expansion) = Pool /\ Expansion # <<>>
         /\ \A i \in 1 .. Pool : Expansion[i] = segments + i
<1>1. Pool \in Nat \ {0} /\ MaxSegments \in Nat
  BY PoolIs
<1>2. Expansion \in [1 .. Pool -> Segment]
  BY <1>1 DEF Expansion, Segment
<1>3. Expansion \in Seq(Segment) /\ Len(Expansion) = Pool
  BY <1>1, <1>2, SeqDef DEF Expansion
<1> QED
  BY <1>1, <1>3, EmptySeq DEF Expansion

(* What a class is and where its segments are.                             *)
LEMMA KlassOfIs ==
  ASSUME NEW s \in Used
  PROVE  KlassOf(s) \in Klass /\ s \in InUse(KlassOf(s))
BY DEF KlassOf, Used

----------------------------------------------------------------------------
(* Types.                                                                  *)

LEMMA FoundType ==
  ASSUME NEW k \in Klass, NEW b, NEW f, NEW n
  PROVE  Found(k, b, f, n) \in SUBSET Node(k) /\ Found(k, b, f, n) \in SUBSET Nat
BY NodesAre DEF Found, Ahead, Bits

LEMMA PassedType ==
  ASSUME NEW k \in Klass, NEW b, NEW f \in SUBSET Nat, NEW n \in Bit(k)
  PROVE  Passed(k, b, f, n) \in SUBSET Nat
BY NodesAre, BitsAre DEF Passed

(* The pointer of a class, what it finds and what it leaves.               *)
LEMMA PointerType ==
  ASSUME TypeOK, NEW k \in Klass
  PROVE  /\ at[k] = <<at[k][1], at[k][2]>> /\ at[k][2] \in Bit(k) /\ at[k][2] \in Nat
         /\ at[k][1] \in Segment \cup {0}
         /\ FoundAt(k) # {} =>
              /\ at[k][1] \in Segment /\ at[k][1] # 0
              /\ FoundAt(k) = Found(k, base[at[k][1]], full[at[k][1]], at[k][2])
              /\ Least(FoundAt(k)) \in FoundAt(k) /\ Least(FoundAt(k)) \in Node(k)
              /\ Least(FoundAt(k)) \in Bit(k) /\ Least(FoundAt(k)) \in Nat
         /\ PassedAt(k) \in [Segment -> SUBSET Nat]
<1>1. /\ at[k] = <<at[k][1], at[k][2]>> /\ at[k][2] \in Bit(k) /\ at[k][2] \in Nat
      /\ at[k][1] \in Segment \cup {0}
  BY BitsAre DEF TypeOK
<1>2. ASSUME FoundAt(k) # {}
      PROVE  /\ at[k][1] \in Segment /\ at[k][1] # 0
             /\ FoundAt(k) = Found(k, base[at[k][1]], full[at[k][1]], at[k][2])
             /\ Least(FoundAt(k)) \in FoundAt(k) /\ Least(FoundAt(k)) \in Node(k)
             /\ Least(FoundAt(k)) \in Bit(k) /\ Least(FoundAt(k)) \in Nat
  <2>1. /\ at[k][1] \in Segment /\ at[k][1] # 0
        /\ FoundAt(k) = Found(k, base[at[k][1]], full[at[k][1]], at[k][2])
    BY <1>1, <1>2 DEF FoundAt, FoundIn
  <2>2. FoundAt(k) \in SUBSET Node(k) /\ FoundAt(k) \in SUBSET Nat
    BY <2>1, FoundType
  <2>3. Least(FoundAt(k)) \in FoundAt(k)
    BY <1>2, <2>2, LeastIs
  <2> QED
    BY <2>1, <2>2, <2>3, BitsAre
<1>3. ASSUME NEW s \in Segment
      PROVE  (IF s = at[k][1] THEN Passed(k, base[s], full[s], at[k][2]) ELSE full[s]) \in SUBSET Nat
  <2>1. full[s] \in SUBSET Nat
    BY DEF TypeOK
  <2> QED
    BY <1>1, <2>1, PassedType
<1>4. PassedAt(k) \in [Segment -> SUBSET Nat]
  BY <1>3 DEF PassedAt
<1> QED
  BY <1>1, <1>2, <1>4

LEMMA NewSegmentsType ==
  ASSUME TypeOK, NEW pick \in [Klass -> Segment \cup {0}], NEW f \in [Segment -> SUBSET Nat],
         NEW a, \A k \in Klass : pick[k] = 0 => a[k] \in (Segment \cup {0}) \X Bit(k),
         NEW saved \in [Segment -> (SUBSET Nat) \X (SUBSET Nat)],
         NewSegments(pick, f, a, saved)
  PROVE  /\ seglist' \in [Klass -> Seq(Segment)] /\ DOMAIN at' = Klass
         /\ \A k \in Klass : at'[k] \in (Segment \cup {0}) \X Bit(k)
         /\ base' \in [Segment -> SUBSET Nat] /\ full' \in [Segment -> SUBSET Nat]
         /\ snapshot' \in [Segment -> (SUBSET Nat) \X (SUBSET Nat)]
<1>1. ASSUME NEW k \in Klass
      PROVE  (IF pick[k] = 0 THEN seglist[k] ELSE Append(seglist[k], pick[k])) \in Seq(Segment)
  <2>1. seglist[k] \in Seq(Segment)
    BY DEF TypeOK
  <2>2. pick[k] = 0 \/ pick[k] \in Segment
    OBVIOUS
  <2> QED
    BY <2>1, <2>2, AppendProperties
<1>2. seglist' \in [Klass -> Seq(Segment)]
  BY <1>1 DEF NewSegments
<1>3. DOMAIN at' = Klass
  BY DEF NewSegments
<1>4. ASSUME NEW k \in Klass PROVE at'[k] \in (Segment \cup {0}) \X Bit(k)
  <2>1. at'[k] = IF pick[k] = 0 THEN a[k] ELSE <<pick[k], 0>>
    BY DEF NewSegments
  <2> QED
    BY <2>1, BitsAre
<1>5. Limit \in SUBSET Nat
  BY DEF Limit
<1>6. base' \in [Segment -> SUBSET Nat]
  BY <1>5 DEF NewSegments, TypeOK
<1>7. full' \in [Segment -> SUBSET Nat]
  BY DEF NewSegments
<1>8. snapshot' \in [Segment -> (SUBSET Nat) \X (SUBSET Nat)]
  BY <1>5 DEF NewSegments
<1> QED
  BY <1>2, <1>4, <1>6, <1>7, <1>8, <1>3

(* The segment that NextSegment takes, and the list it takes it from.      *)
NextList == IF segmentList = <<>> THEN Expansion ELSE segmentList
NextPick == [k \in Klass |-> IF k = want THEN Head(NextList) ELSE 0]

LEMMA NextSegmentIs ==
  ASSUME TypeOK, want \in Klass, NextSegment
  PROVE  /\ NextList \in Seq(Segment) /\ NextList # <<>>
         /\ Head(NextList) \in Segment /\ Head(NextList) # 0
         /\ segmentList' = Tail(NextList) /\ Tail(NextList) \in Seq(Segment)
         /\ NextPick \in [Klass -> Segment \cup {0}]
         /\ NewSegments(NextPick, PassedAt(want), at, snapshot)
         /\ segments' \in Nat /\ segments' <= MaxSegments
         /\ segments' = IF segmentList = <<>> THEN segments + Pool ELSE segments
<1>1. /\ segmentList' = Tail(NextList)
      /\ NewSegments(NextPick, PassedAt(want), at, snapshot)
      /\ segments' <= MaxSegments
      /\ segments' = IF segmentList = <<>> THEN segments + Pool ELSE segments
  BY DEF NextSegment, NextList, NextPick
<1>2. segments \in Nat /\ segmentList \in Seq(Segment)
  BY PoolIs DEF TypeOK
<1>3. NextList \in Seq(Segment) /\ NextList # <<>>
  BY <1>1, <1>2, ExpansionIs DEF NextList
<1>4. Head(NextList) \in Segment /\ Tail(NextList) \in Seq(Segment)
  BY <1>3, TailIs
<1>5. NextPick \in [Klass -> Segment \cup {0}]
  BY <1>4 DEF NextPick
<1>6. segments' \in Nat
  BY <1>1, <1>2, PoolIs
<1> QED
  BY <1>1, <1>3, <1>4, <1>5, <1>6, PoolIs

(* The classes that get a segment at the end of a collection, the segments *)
(* they get, and where the pointers and the snapshots are otherwise.       *)
Needy == {k \in Klass : CheckFull(k)}
SweepPick == [k \in Klass |->
  IF k \in Needy THEN segments + Cardinality({j \in Needy : j <= k}) ELSE 0]
SweepAt == [k \in Klass |-> IF Unfilling(k) = <<>> THEN at[k] ELSE <<Head(Unfilling(k)), 0>>]
SweepSaved == [s \in Segment |-> IF s \in Used THEN <<base[s], full[s]>> ELSE snapshot[s]]

LEMMA UnfillingIs ==
  ASSUME TypeOK, NEW k \in Klass, IsInjective(seglist[k])
  PROVE  /\ Unfilling(k) \in Seq(Segment) /\ IsInjective(Unfilling(k))
         /\ Range(Unfilling(k)) = {s \in InUse(k) : liveCount[s] < NodeCount(k)}
         /\ CheckFull(k) <=> FullCheck(k, seglist[k], liveCount)
<1>1. seglist[k] \in Seq(Segment)
  BY DEF TypeOK
<1>2. Unfilling(k) = UnfilledIn(seglist[k], liveCount, NodeCount(k))
  BY DEF Unfilling, UnfilledIn
<1>3. Dead(k) = Cardinality(DeadBlocks(k, seglist[k], liveCount))
  BY DEF Dead, DeadBlocks, InUse
<1>4. CheckFull(k) <=> FullCheck(k, seglist[k], liveCount)
  BY <1>1, <1>2, <1>3, FullCheckIs DEF CheckFull
<1> QED
  BY <1>1, <1>2, <1>4, UnfilledAre DEF InUse

LEMMA SweepIs ==
  ASSUME TypeOK, \A k \in Klass : IsInjective(seglist[k]), Sweep
  PROVE  /\ SweepPick \in [Klass -> Segment \cup {0}]
         /\ \A k \in Klass : /\ SweepPick[k] # 0 <=> k \in Needy
                             /\ k \in Needy => SweepPick[k] \in segments + 1 .. segments + Cardinality(Needy)
         /\ \A k, j \in Klass : SweepPick[k] # 0 /\ SweepPick[k] = SweepPick[j] => k = j
         /\ NewSegments(SweepPick, full, SweepAt, SweepSaved)
         /\ Cardinality(Needy) \in 0 .. Pool
         /\ segments' = IF Needy # {} THEN segments + Pool ELSE segments
         /\ segments' \in Nat /\ segments' <= MaxSegments
         /\ segmentList' = IF Needy # {} THEN SubSeq(Expansion, Cardinality(Needy) + 1, Pool)
                           ELSE segmentList
         /\ flags' = IF Needy # {} THEN flags \cup {"major"} ELSE flags
<1>1. /\ NewSegments(SweepPick, full, SweepAt, SweepSaved)
      /\ segments' = IF Needy # {} THEN segments + Pool ELSE segments
      /\ segments' <= MaxSegments
      /\ segmentList' = IF Needy # {} THEN SubSeq(Expansion, Cardinality(Needy) + 1, Pool)
                        ELSE segmentList
      /\ flags' = IF Needy # {} THEN flags \cup {"major"} ELSE flags
  BY DEF Sweep, SweepPick, SweepAt, SweepSaved, Needy
<1>2. Needy \in SUBSET Klass
  BY DEF Needy
<1>3. segments \in Nat /\ Pool \in Nat \ {0} /\ segments <= MaxSegments /\ MaxSegments \in Nat
  BY PoolIs DEF TypeOK
<1> DEFINE C == Cardinality(Needy)
           turn(k) == Cardinality({j \in Needy : j <= k})
<1>4. C \in 0 .. Pool /\ (Needy # {} => C \in 1 .. Pool)
  BY <1>2, Turns
<1>5. \A k \in Needy : turn(k) \in 1 .. C
  BY <1>2, Turns
<1>6. \A k, j \in Needy : turn(k) = turn(j) => k = j
  BY <1>2, Turns
<1>7. \A k \in Klass : SweepPick[k] = IF k \in Needy THEN segments + turn(k) ELSE 0
  BY DEF SweepPick
<1>8. DOMAIN SweepPick = Klass /\ SweepPick = [k \in Klass |-> SweepPick[k]]
  BY DEF SweepPick
<1> HIDE DEF C, turn
<1>9. ASSUME NEW k \in Needy
      PROVE  /\ SweepPick[k] = segments + turn(k) /\ turn(k) \in 1 .. C
             /\ SweepPick[k] \in segments + 1 .. segments + C
             /\ SweepPick[k] # 0 /\ SweepPick[k] \in Segment
  <2>1. SweepPick[k] = segments + turn(k) /\ turn(k) \in 1 .. C
    BY <1>2, <1>5, <1>7
  <2>2. segments + Pool <= MaxSegments
    BY <1>1
  <2> QED
    BY <1>3, <1>4, <2>1, <2>2 DEF Segment
<1>10. \A k \in Klass : SweepPick[k] # 0 <=> k \in Needy
  BY <1>7, <1>9
<1>11. SweepPick \in [Klass -> Segment \cup {0}]
  BY <1>7, <1>8, <1>9
<1>12. ASSUME NEW k \in Klass, NEW j \in Klass, SweepPick[k] # 0, SweepPick[k] = SweepPick[j]
       PROVE  k = j
  <2>1. k \in Needy /\ j \in Needy
    BY <1>10, <1>12
  <2>2. turn(k) = turn(j)
    <3>1. segments + turn(k) = segments + turn(j) /\ turn(k) \in Nat /\ turn(j) \in Nat
      BY <1>9, <1>12, <2>1, <1>4
    <3> QED
      BY <1>3, <3>1
  <2> QED
    BY <1>6, <2>1, <2>2
<1>13. segments' \in Nat
  BY <1>1, <1>3
<1> QED
  BY <1>1, <1>4, <1>9, <1>10, <1>11, <1>12, <1>13 DEF C

(* The objects found by a collection, by segment.                          *)
NewIn(s) == {n \in Node(KlassOf(s)) : <<s, n>> \in NewMarks}

LEMMA VisitedType ==
  ASSUME TypeOK
  PROVE  Visited \in SUBSET Cell /\ NewMarks \in SUBSET Cell
<1>1. roots \in SUBSET Cell /\ ptr \in SUBSET (Cell \X Cell)
  BY DEF TypeOK
<1>2. \A e \in ptr : e[1] \in Cell /\ e[2] \in Cell
  BY <1>1
<1>3. Visited \in SUBSET Cell
  BY <1>1, <1>2 DEF Visited, Children
<1>4. NewMarks \in SUBSET Cell
  <2> DEFINE R == {o \in Visited : ~MarkedAt(o)}
             E == {e \in ptr : ~MarkedAt(e[1]) /\ ~MarkedAt(e[2])}
  <2>1. NewMarks \subseteq Touched(R, E)
    BY DEF NewMarks, Reachable
  <2>2. Touched(R, E) \subseteq Cell
    BY <1>2, <1>3 DEF Touched
  <2> QED
    BY <2>1, <2>2
<1> QED
  BY <1>3, <1>4

LEMMA NewInType ==
  ASSUME NEW s \in Used
  PROVE  /\ NewIn(s) \in SUBSET Node(KlassOf(s)) /\ NewIn(s) \in SUBSET Nat
         /\ IsFiniteSet(NewIn(s)) /\ Cardinality(NewIn(s)) \in Nat
<1>1. KlassOf(s) \in Klass
  BY KlassOfIs
<1>2. NewIn(s) \in SUBSET Node(KlassOf(s))
  BY DEF NewIn
<1> QED
  BY <1>1, <1>2, NodesAre, NodesFinite, FS_Subset, FS_CardinalityType

(* What Mark does to the bitmaps.                                          *)
Filled(s, b) == {w \in Word(KlassOf(s)) : /\ Bits(KlassOf(s), w) \subseteq b
                                          /\ Bits(KlassOf(s), w) \cap NewIn(s) # {}}
LEMMA MarkIs ==
  ASSUME Mark
  PROVE  /\ base' = [s \in Segment |->
              IF s \in Used THEN StartMarks(s)[1] \cup NewIn(s) ELSE base[s]]
         /\ full' = [s \in Segment |->
              IF s \in Used THEN StartMarks(s)[2] \cup Filled(s, base'[s]) ELSE full[s]]
         /\ liveCount' = [s \in Segment |->
              IF s \in Used THEN StartCount(s) + Cardinality(NewIn(s)) ELSE liveCount[s]]
         /\ tenured' = tenured \cup NewMarks
         /\ phase = "run" /\ flags # {} /\ flags' = {} /\ phase' = "sweep"
BY DEF Mark, NewIn, Filled

LEMMA TypeStep ==
  ASSUME TypeOK, \A k \in Klass : IsInjective(seglist[k]),
         phase \in {"search", "init"} => want \in Klass,
         phase = "init" => fresh \in Cell, [Next]_vars
  PROVE  TypeOK'
<1> USE DEF supply, marks, kept, heap, gen, request
<1>1. ASSUME NEW k \in Klass, AllocObject(k) PROVE TypeOK'
  BY <1>1 DEF AllocObject, TypeOK
<1>2. ASSUME TakeBlock PROVE TypeOK'
  <2> DEFINE s == at[want][1]
             n == Least(FoundAt(want))
  <2>1. want \in Klass /\ FoundAt(want) # {}
    BY <1>2 DEF TakeBlock
  <2>2. s \in Segment /\ n \in Nat /\ n \in Bit(want) /\ PassedAt(want) \in [Segment -> SUBSET Nat]
    BY <2>1, PointerType
  <2>3. <<s, n>> \in Cell
    BY <2>2 DEF Cell
  <2>4. Rotate(n) \in Bit(want)
    BY <2>1, <2>2, RotateIs
  <2>5. /\ base' = [base EXCEPT ![s] = @ \cup {n}]
        /\ full' = PassedAt(want)
        /\ liveCount' = [liveCount EXCEPT ![s] = @ + 1]
        /\ at' = [at EXCEPT ![want] = <<s, Rotate(n)>>]
        /\ flags' \subseteq flags \cup {"major"}
        /\ fresh' = <<s, n>>
        /\ live' \subseteq live /\ ptr' \subseteq ptr
        /\ phase' = "init"
        /\ UNCHANGED <<generational, segments, segmentList, seglist, freelist, minorLeft,
                       kept, roots, gen, want, idle>>
    BY <1>2 DEF TakeBlock
  <2> HIDE DEF s, n
  <2>6. \A k \in Klass : at'[k] \in (Segment \cup {0}) \X Bit(k)
    <3> SUFFICES ASSUME NEW k \in Klass PROVE at'[k] \in (Segment \cup {0}) \X Bit(k)
      OBVIOUS
    <3>1. at[k] \in (Segment \cup {0}) \X Bit(k)
      BY DEF TypeOK
    <3>2. at'[k] = IF k = want THEN <<s, Rotate(n)>> ELSE at[k]
      BY <2>1, <2>5 DEF TypeOK
    <3>3. <<s, Rotate(n)>> \in (Segment \cup {0}) \X Bit(want)
      BY <2>2, <2>4
    <3> QED
      BY <3>1, <3>2, <3>3
  <2>7. /\ base' \in [Segment -> SUBSET Nat] /\ liveCount' \in [Segment -> Nat]
        /\ full' \in [Segment -> SUBSET Nat]
    BY <2>2, <2>5 DEF TypeOK
  <2>8. /\ live' \in SUBSET Cell /\ ptr' \in SUBSET (Cell \X Cell) /\ fresh' \in Cell
        /\ flags' \in SUBSET {"minor", "major"}
    BY <2>3, <2>5 DEF TypeOK
  <2> QED
    BY <2>5, <2>6, <2>7, <2>8 DEF TypeOK
<1>3. ASSUME InitObject PROVE TypeOK'
  <2>1. fresh \in Cell
    BY <1>3 DEF InitObject
  <2> QED
    BY <1>3, <2>1 DEF InitObject, TypeOK
<1>4. ASSUME PopSegment PROVE TypeOK'
  <2>1. want \in Klass /\ freelist[want] \in Seq(Segment) /\ freelist[want] # <<>>
    BY <1>4 DEF PopSegment, TypeOK
  <2>2. Head(freelist[want]) \in Segment /\ Tail(freelist[want]) \in Seq(Segment)
    BY <2>1, TailIs
  <2>3. freelist' \in [Klass -> Seq(Segment)] /\ full' \in [Segment -> SUBSET Nat]
    BY <1>4, <2>1, <2>2, PointerType DEF PopSegment, TypeOK
  <2>4. \A k \in Klass : at'[k] \in (Segment \cup {0}) \X Bit(k)
    <3> SUFFICES ASSUME NEW k \in Klass PROVE at'[k] \in (Segment \cup {0}) \X Bit(k)
      OBVIOUS
    <3>1. at[k] \in (Segment \cup {0}) \X Bit(k)
      BY DEF TypeOK
    <3>2. at' = [at EXCEPT ![want] = <<Head(freelist[want]), 0>>]
      BY <1>4 DEF PopSegment
    <3>3. at'[k] = at[k] \/ at'[k] = <<Head(freelist[want]), 0>>
      BY <3>2
    <3> QED
      BY <2>2, <3>1, <3>3, BitsAre
  <2> QED
    BY <1>4, <2>3, <2>4 DEF PopSegment, TypeOK
<1>5. ASSUME NextSegment PROVE TypeOK'
  <2>1. want \in Klass
    BY <1>5 DEF NextSegment
  <2>2. /\ segmentList' \in Seq(Segment) /\ segments' \in 0 .. MaxSegments
        /\ NextPick \in [Klass -> Segment \cup {0}]
        /\ NewSegments(NextPick, PassedAt(want), at, snapshot)
    BY <1>5, <2>1, NextSegmentIs, PoolIs
  <2>3. /\ seglist' \in [Klass -> Seq(Segment)] /\ DOMAIN at' = Klass
        /\ \A k \in Klass : at'[k] \in (Segment \cup {0}) \X Bit(k)
        /\ base' \in [Segment -> SUBSET Nat] /\ full' \in [Segment -> SUBSET Nat]
        /\ snapshot' \in [Segment -> (SUBSET Nat) \X (SUBSET Nat)]
    <3>1. PassedAt(want) \in [Segment -> SUBSET Nat]
      BY <2>1, PointerType
    <3>2. /\ \A k \in Klass : at[k] \in (Segment \cup {0}) \X Bit(k)
          /\ snapshot \in [Segment -> (SUBSET Nat) \X (SUBSET Nat)]
      BY DEF TypeOK
    <3> QED
      BY <2>2, <3>1, <3>2, NewSegmentsType
  <2>4. flags' \in SUBSET {"minor", "major"}
    BY <1>5 DEF NextSegment, TypeOK
  <2>5. minorLeft' \in [Klass -> 0 .. MinorCount - 1]
    <3>1. minorLeft[want] \in 0 .. MinorCount - 1 /\ MinorCount \in Nat \ {0}
      BY <2>1, HeapAssumption DEF TypeOK
    <3>2. (minorLeft[want] - 1) % MinorCount \in 0 .. MinorCount - 1
      BY <3>1
    <3> QED
      BY <1>5, <2>1, <3>1, <3>2 DEF NextSegment, TypeOK
  <2> QED
    BY <1>5, <2>2, <2>3, <2>4, <2>5 DEF NextSegment, TypeOK
<1>6. ASSUME NEW o \in roots, Drop(o) PROVE TypeOK'
  BY <1>6 DEF Drop, TypeOK
<1>7. ASSUME NEW e \in ptr, Load(e[2]) PROVE TypeOK'
  <2>1. e[2] \in Cell
    BY DEF TypeOK
  <2> QED
    BY <1>7, <2>1 DEF Load, TypeOK
<1>8. ASSUME NEW e \in ptr, Erase(e[1], e[2]) PROVE TypeOK'
  <2>1. e[1] \in Cell
    BY DEF TypeOK
  <2>2. ptr' \in SUBSET (Cell \X Cell) /\ remembered' \in SUBSET Cell
    BY <1>8, <2>1 DEF Erase, Remember, TypeOK
  <2> QED
    BY <1>8, <2>2 DEF Erase, TypeOK
<1>9. ASSUME NEW o \in roots, NEW p \in roots, Store(o, p) PROVE TypeOK'
  <2>1. o \in Cell /\ p \in Cell
    BY DEF TypeOK
  <2>2. ptr' \in SUBSET (Cell \X Cell) /\ remembered' \in SUBSET Cell
    BY <1>9, <2>1 DEF Store, Remember, TypeOK
  <2> QED
    BY <1>9, <2>2 DEF Store, TypeOK
<1>10. ASSUME DeleteGcContext PROVE TypeOK'
  <2>1. Limit \in SUBSET Nat
    BY DEF Limit
  <2>2. /\ base' \in [Segment -> SUBSET Nat] /\ full' \in [Segment -> SUBSET Nat]
        /\ liveCount' \in [Segment -> Nat]
    BY <1>10, <2>1 DEF DeleteGcContext, TypeOK
  <2> QED
    BY <1>10, <2>2 DEF DeleteGcContext, TypeOK
<1>11. ASSUME Mark PROVE TypeOK'
  <2>1. ASSUME NEW s \in Segment
        PROVE  /\ StartMarks(s)[1] \in SUBSET Nat /\ StartMarks(s)[2] \in SUBSET Nat
               /\ StartCount(s) \in Nat
    <3>1. Limit \in SUBSET Nat
      BY DEF Limit
    <3> QED
      BY <3>1 DEF StartMarks, StartCount, TypeOK
  <2>2. ASSUME NEW s \in Used, NEW b
        PROVE  /\ NewIn(s) \in SUBSET Nat /\ Cardinality(NewIn(s)) \in Nat
               /\ Filled(s, b) \in SUBSET Nat
    BY KlassOfIs, NodesAre, NewInType DEF Filled
  <2>3. base' \in [Segment -> SUBSET Nat]
    <3>1. ASSUME NEW s \in Segment
          PROVE  (IF s \in Used THEN StartMarks(s)[1] \cup NewIn(s) ELSE base[s]) \in SUBSET Nat
      <4>1. base[s] \in SUBSET Nat
        BY DEF TypeOK
      <4>2. s \in Used => StartMarks(s)[1] \cup NewIn(s) \in SUBSET Nat
        BY <2>1, <2>2
      <4> QED
        BY <4>1, <4>2
    <3>2. base' = [s \in Segment |->
              IF s \in Used THEN StartMarks(s)[1] \cup NewIn(s) ELSE base[s]]
      BY <1>11, MarkIs
    <3> QED
      BY <3>1, <3>2
  <2>4. liveCount' \in [Segment -> Nat]
    <3>1. ASSUME NEW s \in Segment
          PROVE  (IF s \in Used THEN StartCount(s) + Cardinality(NewIn(s)) ELSE liveCount[s]) \in Nat
      <4>1. liveCount[s] \in Nat
        BY DEF TypeOK
      <4>2. s \in Used => StartCount(s) + Cardinality(NewIn(s)) \in Nat
        BY <2>1, <2>2
      <4> QED
        BY <4>1, <4>2
    <3>2. liveCount' = [s \in Segment |->
              IF s \in Used THEN StartCount(s) + Cardinality(NewIn(s)) ELSE liveCount[s]]
      BY <1>11, MarkIs
    <3> QED
      BY <3>1, <3>2
  <2>5. full' \in [Segment -> SUBSET Nat]
    <3>1. ASSUME NEW s \in Segment
          PROVE  (IF s \in Used THEN StartMarks(s)[2] \cup Filled(s, base'[s]) ELSE full[s]) \in SUBSET Nat
      <4>1. full[s] \in SUBSET Nat
        BY DEF TypeOK
      <4>2. s \in Used => StartMarks(s)[2] \cup Filled(s, base'[s]) \in SUBSET Nat
        BY <2>1, <2>2
      <4> QED
        BY <4>1, <4>2
    <3>2. full' = [s \in Segment |->
              IF s \in Used THEN StartMarks(s)[2] \cup Filled(s, base'[s]) ELSE full[s]]
      BY <1>11, MarkIs
    <3> QED
      BY <3>1, <3>2
  <2>6. tenured' \in SUBSET Cell
    BY <1>11, MarkIs, VisitedType DEF TypeOK
  <2>7. remembered' \in SUBSET Cell /\ flags' = {} /\ phase' = "sweep" /\ idle' \in 0 .. 2
    BY <1>11 DEF Mark, TypeOK
  <2> QED
    BY <1>11, <2>3, <2>4, <2>5, <2>6, <2>7 DEF Mark, TypeOK
<1>12. ASSUME Sweep PROVE TypeOK'
  <2>1. /\ SweepPick \in [Klass -> Segment \cup {0}]
        /\ NewSegments(SweepPick, full, SweepAt, SweepSaved)
        /\ Cardinality(Needy) \in 0 .. Pool
        /\ segments' = IF Needy # {} THEN segments + Pool ELSE segments
        /\ segments' \in Nat /\ segments' <= MaxSegments
        /\ segmentList' = IF Needy # {} THEN SubSeq(Expansion, Cardinality(Needy) + 1, Pool)
                          ELSE segmentList
        /\ flags' = IF Needy # {} THEN flags \cup {"major"} ELSE flags
    BY <1>12, SweepIs
  <2>2. segmentList' \in Seq(Segment)
    <3>1. CASE Needy # {}
      <4>1. segments \in Nat /\ segments + Pool <= MaxSegments
        BY <2>1, <3>1, PoolIs DEF TypeOK
      <4>2. Expansion \in Seq(Segment) /\ Len(Expansion) = Pool
        BY <4>1, ExpansionIs
      <4>3. \A i \in Cardinality(Needy) + 1 .. Pool : i \in 1 .. Len(Expansion)
        BY <2>1, <4>2
      <4>4. SubSeq(Expansion, Cardinality(Needy) + 1, Pool) \in Seq(Segment)
        BY <2>1, <4>2, <4>3, PoolIs, SubSeqProperties
      <4> QED
        BY <2>1, <3>1, <4>4
    <3>2. CASE Needy = {}
      BY <2>1, <3>2 DEF TypeOK
    <3> QED
      BY <3>1, <3>2
  <2>3. ASSUME NEW k \in Klass
        PROVE  /\ Unfilling(k) \in Seq(Segment)
               /\ Unfilling(k) # <<>> => Head(Unfilling(k)) \in Segment /\ Tail(Unfilling(k)) \in Seq(Segment)
    BY UnfillingIs, TailIs
  <2>4. \A k \in Klass : SweepPick[k] = 0 => SweepAt[k] \in (Segment \cup {0}) \X Bit(k)
    <3> SUFFICES ASSUME NEW k \in Klass PROVE SweepAt[k] \in (Segment \cup {0}) \X Bit(k)
      OBVIOUS
    <3>1. at[k] \in (Segment \cup {0}) \X Bit(k)
      BY DEF TypeOK
    <3>2. SweepAt[k] = IF Unfilling(k) = <<>> THEN at[k] ELSE <<Head(Unfilling(k)), 0>>
      BY DEF SweepAt
    <3> QED
      BY <2>3, <3>1, <3>2, BitsAre
  <2>5. full \in [Segment -> SUBSET Nat] /\ SweepSaved \in [Segment -> (SUBSET Nat) \X (SUBSET Nat)]
    BY DEF SweepSaved, TypeOK
  <2>6. /\ seglist' \in [Klass -> Seq(Segment)] /\ DOMAIN at' = Klass
        /\ \A k \in Klass : at'[k] \in (Segment \cup {0}) \X Bit(k)
        /\ base' \in [Segment -> SUBSET Nat] /\ full' \in [Segment -> SUBSET Nat]
        /\ snapshot' \in [Segment -> (SUBSET Nat) \X (SUBSET Nat)]
    BY <2>1, <2>4, <2>5, NewSegmentsType
  <2>7. freelist' \in [Klass -> Seq(Segment)]
    <3>1. freelist' = [k \in Klass |-> IF Unfilling(k) = <<>> THEN <<>> ELSE Tail(Unfilling(k))]
      BY <1>12 DEF Sweep
    <3> QED
      BY <2>3, <3>1
  <2>8. tenureCount' \in [Segment -> Nat]
    BY <1>12 DEF Sweep, TypeOK
  <2>9. flags' \in SUBSET {"minor", "major"} /\ segments' \in 0 .. MaxSegments
    BY <2>1, PoolIs DEF TypeOK
  <2> QED
    BY <1>12, <2>2, <2>6, <2>7, <2>8, <2>9 DEF Sweep, TypeOK
<1>13. CASE UNCHANGED vars
  BY <1>13 DEF vars, TypeOK
<1> QED
  BY <1>1, <1>2, <1>3, <1>4, <1>5, <1>6, <1>7, <1>8, <1>9, <1>10, <1>11, <1>12, <1>13 DEF Next

(***************************************************************************)
(* The inductive invariant.                                                *)
(***************************************************************************)

Allocating == phase \in {"run", "search", "init"}

(* Where the segments are: of the first 1 .. segments those in segmentList *)
(* have no class, the lists of the classes share none; while the program   *)
(* allocates, the segments put back for a class are its own and not the    *)
(* one its pointer is in.                                                  *)
Placed(k) ==
  /\ IsInjective(seglist[k]) /\ IsInjective(freelist[k])
  /\ at[k][1] \in InUse(k) \cup {0}
  /\ \A j \in Klass \ {k} : InUse(k) \cap InUse(j) = {}
  /\ Allocating => Range(freelist[k]) \subseteq InUse(k) \ {at[k][1]}
PlaceInv ==
  /\ Used \subseteq 1 .. segments
  /\ Range(segmentList) \subseteq (1 .. segments) \ Used
  /\ IsInjective(segmentList)
  /\ \A k \in Klass : Placed(k)
  /\ \A s \in Segment \ Used : liveCount[s] = 0 /\ tenureCount[s] = 0

(* What the class lists are after newSegment.                              *)
Given(pick) == Range(pick) \ {0}
Fresh(pick) ==
  /\ pick \in [Klass -> Segment \cup {0}]
  /\ \A k \in Klass : pick[k] # 0 => pick[k] \notin Used
  /\ \A k, j \in Klass : pick[k] # 0 /\ pick[k] = pick[j] => k = j

LEMMA NewSegmentsPlaces ==
  ASSUME TypeOK, \A k \in Klass : Placed(k),
         NEW pick, Fresh(pick), NEW f, NEW a, NEW saved, NewSegments(pick, f, a, saved)
  PROVE  /\ \A k \in Klass :
              /\ IsInjective(seglist'[k])
              /\ InUse(k)' = InUse(k) \cup ({pick[k]} \ {0})
              /\ \A j \in Klass \ {k} : InUse(k)' \cap InUse(j)' = {}
              /\ at'[k] = IF pick[k] = 0 THEN a[k] ELSE <<pick[k], 0>>
         /\ Used' = Used \cup Given(pick)
         /\ Used \cap Given(pick) = {} /\ Given(pick) \subseteq Segment
<1>1. pick \in [Klass -> Segment \cup {0}]
  BY DEF Fresh
<1>2. ASSUME NEW k \in Klass
      PROVE  IsInjective(seglist'[k]) /\ InUse(k)' = InUse(k) \cup ({pick[k]} \ {0})
  <2>1. seglist[k] \in Seq(Segment) /\ pick[k] \in Segment \cup {0} /\ IsInjective(seglist[k])
    BY <1>1 DEF TypeOK, Placed
  <2>2. seglist' = [j \in Klass |->
           IF pick[j] = 0 THEN seglist[j] ELSE Append(seglist[j], pick[j])]
    BY DEF NewSegments
  <2>3. seglist'[k] = IF pick[k] = 0 THEN seglist[k] ELSE Append(seglist[k], pick[k])
    BY <2>2
  <2>4. InUse(k) = Range(seglist[k]) /\ InUse(k)' = Range(seglist'[k]) /\ InUse(k) \subseteq Used
    BY DEF InUse, Used
  <2>5. CASE pick[k] = 0
    BY <2>1, <2>3, <2>4, <2>5
  <2>6. CASE pick[k] # 0
    <3>1. pick[k] \in Segment /\ pick[k] \notin Range(seglist[k])
      BY <2>1, <2>4, <2>6 DEF Fresh
    <3>2. /\ Range(Append(seglist[k], pick[k])) = Range(seglist[k]) \cup {pick[k]}
          /\ IsInjective(Append(seglist[k], pick[k]))
      BY <2>1, <3>1, AppendIs
    <3> QED
      BY <2>3, <2>4, <2>6, <3>2
  <2> QED
    BY <2>5, <2>6
<1>3. ASSUME NEW k \in Klass, NEW j \in Klass \ {k}
      PROVE  InUse(k)' \cap InUse(j)' = {}
  <2>1. InUse(k) \cap InUse(j) = {} /\ InUse(k) \subseteq Used /\ InUse(j) \subseteq Used
    BY DEF Placed, Used
  <2>2. /\ InUse(k)' = InUse(k) \cup ({pick[k]} \ {0})
        /\ InUse(j)' = InUse(j) \cup ({pick[j]} \ {0})
    BY <1>2
  <2>3. /\ pick[k] # 0 => pick[k] \notin Used /\ pick[k] # pick[j]
        /\ pick[j] # 0 => pick[j] \notin Used
    BY DEF Fresh
  <2> HIDE DEF NewSegments
  <2> QED
    BY <2>1, <2>2, <2>3
<1>4. at' = [k \in Klass |-> IF pick[k] = 0 THEN a[k] ELSE <<pick[k], 0>>]
  BY DEF NewSegments
<1>5. Given(pick) = UNION {{pick[k]} \ {0} : k \in Klass}
  BY <1>1 DEF Given, Range
<1>6. Used = UNION {InUse(k) : k \in Klass} /\ Used' = UNION {InUse(k)' : k \in Klass}
  BY DEF Used
<1>7. Used' = Used \cup Given(pick)
  BY <1>2, <1>5, <1>6
<1>8. Used \cap Given(pick) = {} /\ Given(pick) \subseteq Segment
  BY <1>1 DEF Given, Range, Fresh
<1> QED
  BY <1>2, <1>3, <1>4, <1>7, <1>8

LEMMA UsedIs ==
  ASSUME TypeOK
  PROVE  /\ Used \subseteq Segment /\ 0 \notin Used
         /\ \A k \in Klass : InUse(k) \subseteq Used /\ InUse(k) \subseteq Segment
         /\ \A k \in Klass : seglist[k] \in Seq(Segment) /\ freelist[k] \in Seq(Segment)
<1>1. \A k \in Klass : seglist[k] \in Seq(Segment) /\ freelist[k] \in Seq(Segment)
  BY DEF TypeOK
<1>2. \A k \in Klass : InUse(k) \subseteq Segment
  BY <1>1, RangeIs DEF InUse
<1> QED
  BY <1>1, <1>2, PoolIs DEF Used

(* What expands the heap: segments no list has.                            *)
LEMMA ExpansionPlaces ==
  ASSUME segments \in Nat, segments + Pool <= MaxSegments
  PROVE  /\ IsInjective(Expansion) /\ Range(Expansion) \subseteq segments + 1 .. segments + Pool
         /\ Expansion \in Seq(Segment) /\ Expansion # <<>>
         /\ \A m \in 0 .. Pool :
              /\ SubSeq(Expansion, m + 1, Pool) \in Seq(Segment)
              /\ IsInjective(SubSeq(Expansion, m + 1, Pool))
              /\ Range(SubSeq(Expansion, m + 1, Pool)) \subseteq segments + m + 1 .. segments + Pool
<1>1. /\ Expansion \in Seq(Segment) /\ Len(Expansion) = Pool /\ Expansion # <<>>
      /\ \A i \in 1 .. Pool : Expansion[i] = segments + i
  BY ExpansionIs
<1>2. Pool \in Nat \ {0}
  BY PoolIs
<1>3. IsInjective(Expansion) /\ Range(Expansion) \subseteq segments + 1 .. segments + Pool
  BY <1>1, <1>2, LenProperties DEF IsInjective, Range
<1>4. ASSUME NEW m \in 0 .. Pool
      PROVE  /\ SubSeq(Expansion, m + 1, Pool) \in Seq(Segment)
             /\ IsInjective(SubSeq(Expansion, m + 1, Pool))
             /\ Range(SubSeq(Expansion, m + 1, Pool)) \subseteq segments + m + 1 .. segments + Pool
  <2> DEFINE q == SubSeq(Expansion, m + 1, Pool)
  <2>1. m + 1 \in 1 .. Pool + 1 /\ \A i \in m + 1 .. Pool : i \in 1 .. Len(Expansion)
    BY <1>1, <1>2
  <2>2. /\ q \in Seq(Segment)
        /\ Len(q) = IF m + 1 <= Pool THEN Pool - (m + 1) + 1 ELSE 0
        /\ \A i \in 1 .. Pool - (m + 1) + 1 : q[i] = Expansion[(m + 1) + i - 1]
    BY <1>1, <1>2, <2>1, SubSeqProperties
  <2>3. Len(q) = Pool - m /\ Pool - (m + 1) + 1 = Pool - m /\ Pool - m \in Nat
    BY <1>2, <2>2
  <2>4. \A i \in 1 .. Pool - m : (m + 1) + i - 1 = i + m /\ i + m \in 1 .. Pool
    BY <1>2
  <2>5. DOMAIN q = 1 .. Pool - m /\ \A i \in 1 .. Pool - m : q[i] = segments + (i + m)
    BY <1>1, <2>2, <2>3, <2>4, LenProperties
  <2>6. q \in Seq(Segment)
    BY <2>2
  <2> HIDE DEF q
  <2>7. IsInjective(q)
    <3>1. \A i, j \in 1 .. Pool - m : segments + (i + m) = segments + (j + m) => i = j
      OBVIOUS
    <3> QED
      BY <2>5, <3>1 DEF IsInjective
  <2>8. Range(q) \subseteq segments + m + 1 .. segments + Pool
    <3>1. \A i \in 1 .. Pool - m : segments + (i + m) \in segments + m + 1 .. segments + Pool
      BY <1>2
    <3> QED
      BY <2>5, <3>1 DEF Range
  <2> QED
    BY <2>6, <2>7, <2>8 DEF q
<1> QED
  BY <1>1, <1>3, <1>4

(* The steps that leave the segments where they are.                       *)
LEMMA PlaceKept ==
  ASSUME TypeOK, PlaceInv, UNCHANGED <<segments, segmentList, seglist, freelist, tenureCount>>,
         \A k \in Klass : at'[k][1] = at[k][1], Allocating' => Allocating,
         \A s \in Segment \ Used : liveCount'[s] = liveCount[s]
  PROVE  PlaceInv' /\ Used' = Used /\ \A k \in Klass : InUse(k)' = InUse(k)
<1>1. Used' = Used /\ \A k \in Klass : InUse(k)' = InUse(k)
  BY DEF Used, InUse
<1>2. ASSUME NEW k \in Klass PROVE Placed(k)'
  <2>1. Placed(k)
    BY DEF PlaceInv
  <2>2. /\ IsInjective(seglist'[k]) /\ IsInjective(freelist'[k])
        /\ Allocating' => Range(freelist'[k]) \subseteq InUse(k)' \ {at'[k][1]}
        /\ at'[k][1] \in InUse(k)' \cup {0}
    BY <1>1, <2>1 DEF Placed
  <2>3. \A j \in Klass \ {k} : InUse(k)' \cap InUse(j)' = {}
    BY <1>1, <2>1 DEF Placed
  <2> QED
    BY <2>2, <2>3 DEF Placed
<1>3. \A s \in Segment \ Used' : liveCount'[s] = 0 /\ tenureCount'[s] = 0
  BY <1>1 DEF PlaceInv
<1> QED
  BY <1>1, <1>2, <1>3 DEF PlaceInv

LEMMA NextSegmentPlaces ==
  ASSUME TypeOK, PlaceInv, want \in Klass, NextSegment
  PROVE  /\ PlaceInv' /\ Fresh(NextPick) /\ Given(NextPick) = {Head(NextList)}
         /\ NewSegments(NextPick, PassedAt(want), at, snapshot)
<1>1. /\ NextList \in Seq(Segment) /\ NextList # <<>>
      /\ Head(NextList) \in Segment /\ Head(NextList) # 0
      /\ segmentList' = Tail(NextList)
      /\ NextPick \in [Klass -> Segment \cup {0}]
      /\ NewSegments(NextPick, PassedAt(want), at, snapshot)
      /\ segments' <= MaxSegments
      /\ segments' = IF segmentList = <<>> THEN segments + Pool ELSE segments
  BY NextSegmentIs
<1>2. segments \in Nat /\ segmentList \in Seq(Segment) /\ Used \subseteq Segment /\ 0 \notin Used
  BY UsedIs DEF TypeOK
<1>3. /\ Range(NextList) \subseteq (1 .. segments') \ Used /\ IsInjective(NextList)
      /\ 1 .. segments \subseteq 1 .. segments'
  <2>1. CASE segmentList = <<>>
    <3>1. /\ IsInjective(Expansion) /\ Range(Expansion) \subseteq segments + 1 .. segments + Pool
      BY <1>1, <1>2, <2>1, ExpansionPlaces
    <3>2. /\ segments + 1 .. segments + Pool \subseteq 1 .. segments'
          /\ (segments + 1 .. segments + Pool) \cap (1 .. segments) = {}
          /\ 1 .. segments \subseteq 1 .. segments'
      BY <1>1, <1>2, <2>1, PoolIs
    <3> QED
      BY <2>1, <3>1, <3>2 DEF NextList, PlaceInv
  <2>2. CASE segmentList # <<>>
    BY <1>1, <2>2 DEF NextList, PlaceInv
  <2> QED
    BY <2>1, <2>2
<1> DEFINE h == Head(NextList)
<1>4. h \in Range(NextList) /\ h \notin Used /\ h \in 1 .. segments'
  BY <1>1, <1>3, TailIs
<1>5. Range(Tail(NextList)) = Range(NextList) \ {h} /\ IsInjective(Tail(NextList))
  BY <1>1, <1>3, TailIs
<1> HIDE DEF h
<1>6. Fresh(NextPick) /\ NextPick = [k \in Klass |-> IF k = want THEN h ELSE 0]
  BY <1>1, <1>4 DEF Fresh, NextPick, h
<1>7. Given(NextPick) = {h}
  <2>1. DOMAIN NextPick = Klass /\ NextPick[want] = h /\ \A k \in Klass : NextPick[k] \in {0, h}
    BY <1>6
  <2>2. h # 0
    BY <1>1 DEF h
  <2> QED
    BY <2>1, <2>2 DEF Given, Range
<1>8. /\ \A k \in Klass :
           /\ IsInjective(seglist'[k])
           /\ InUse(k)' = InUse(k) \cup ({NextPick[k]} \ {0})
           /\ \A j \in Klass \ {k} : InUse(k)' \cap InUse(j)' = {}
           /\ at'[k] = IF NextPick[k] = 0 THEN at[k] ELSE <<NextPick[k], 0>>
      /\ Used' = Used \cup Given(NextPick)
  BY <1>1, <1>6, NewSegmentsPlaces DEF PlaceInv
<1>9. /\ freelist' = freelist /\ liveCount' = liveCount /\ tenureCount' = tenureCount
      /\ phase' = phase
  BY DEF NextSegment
<1>10. ASSUME NEW k \in Klass PROVE Placed(k)'
  <2>1. Placed(k) /\ InUse(k) \subseteq Used /\ Range(freelist[k]) \subseteq Range(freelist[k])
    BY UsedIs DEF PlaceInv
  <2>2. InUse(k)' = InUse(k) \cup ({NextPick[k]} \ {0})
    BY <1>8
  <2>3. at'[k] = IF NextPick[k] = 0 THEN at[k] ELSE <<NextPick[k], 0>>
    BY <1>8
  <2>4. NextPick[k] = 0 \/ NextPick[k] = h
    BY <1>6
  <2>5. at'[k][1] \in InUse(k)' \cup {0} /\ (at'[k][1] = at[k][1] \/ at'[k][1] = h)
    BY <2>1, <2>2, <2>3, <2>4 DEF Placed
  <2>6. Allocating' => Range(freelist'[k]) \subseteq InUse(k)' \ {at'[k][1]}
    BY <1>4, <1>9, <2>1, <2>2, <2>5 DEF Placed, Allocating
  <2>7. IsInjective(seglist'[k]) /\ \A j \in Klass \ {k} : InUse(k)' \cap InUse(j)' = {}
    BY <1>8
  <2>8. IsInjective(freelist'[k])
    BY <1>9, <2>1 DEF Placed
  <2> QED
    BY <2>5, <2>6, <2>7, <2>8 DEF Placed
<1>11. /\ Used' \subseteq 1 .. segments'
       /\ Range(segmentList') \subseteq (1 .. segments') \ Used' /\ IsInjective(segmentList')
  BY <1>1, <1>3, <1>4, <1>5, <1>7, <1>8 DEF PlaceInv
<1>12. \A s \in Segment \ Used' : liveCount'[s] = 0 /\ tenureCount'[s] = 0
  BY <1>8, <1>9 DEF PlaceInv
<1> QED
  BY <1>1, <1>6, <1>7, <1>10, <1>11, <1>12 DEF PlaceInv, h

LEMMA SweepPlaces ==
  ASSUME TypeOK, PlaceInv, Sweep
  PROVE  /\ PlaceInv' /\ Fresh(SweepPick)
         /\ NewSegments(SweepPick, full, SweepAt, SweepSaved)
         /\ \A k \in Klass : Range(freelist'[k]) \subseteq Range(Unfilling(k))
<1>1. \A k \in Klass : Placed(k) /\ IsInjective(seglist[k])
  BY DEF PlaceInv, Placed
<1>2. /\ SweepPick \in [Klass -> Segment \cup {0}]
      /\ \A k \in Klass : /\ SweepPick[k] # 0 <=> k \in Needy
                          /\ k \in Needy => SweepPick[k] \in segments + 1 .. segments + Cardinality(Needy)
      /\ \A k, j \in Klass : SweepPick[k] # 0 /\ SweepPick[k] = SweepPick[j] => k = j
      /\ NewSegments(SweepPick, full, SweepAt, SweepSaved)
      /\ Cardinality(Needy) \in 0 .. Pool
      /\ segments' = IF Needy # {} THEN segments + Pool ELSE segments
      /\ segments' <= MaxSegments
      /\ segmentList' = IF Needy # {} THEN SubSeq(Expansion, Cardinality(Needy) + 1, Pool)
                        ELSE segmentList
  BY <1>1, SweepIs
<1>3. segments \in Nat /\ Pool \in Nat /\ Cardinality(Needy) \in Nat /\ Used \subseteq 1 .. segments
  BY <1>2, PoolIs DEF TypeOK, PlaceInv
<1>4. (segments + 1 .. segments + Cardinality(Needy)) \cap (1 .. segments) = {}
  BY <1>3
<1>5. Fresh(SweepPick)
  BY <1>2, <1>3, <1>4 DEF Fresh
<1>6. /\ \A k \in Klass :
           /\ IsInjective(seglist'[k])
           /\ InUse(k)' = InUse(k) \cup ({SweepPick[k]} \ {0})
           /\ \A j \in Klass \ {k} : InUse(k)' \cap InUse(j)' = {}
           /\ at'[k] = IF SweepPick[k] = 0 THEN SweepAt[k] ELSE <<SweepPick[k], 0>>
      /\ Used' = Used \cup Given(SweepPick)
      /\ Used \cap Given(SweepPick) = {}
  BY <1>1, <1>2, <1>5, NewSegmentsPlaces
<1>7. /\ freelist' = [k \in Klass |-> IF Unfilling(k) = <<>> THEN <<>> ELSE Tail(Unfilling(k))]
      /\ liveCount' = liveCount
      /\ tenureCount' = [s \in Segment |-> IF s \in Used THEN liveCount[s] ELSE tenureCount[s]]
  BY DEF Sweep
<1>8. ASSUME NEW k \in Klass
      PROVE  Placed(k)' /\ Range(freelist'[k]) \subseteq Range(Unfilling(k))
  <2> DEFINE U == Unfilling(k)
  <2>1. U \in Seq(Segment) /\ IsInjective(U) /\ Range(U) \subseteq InUse(k)
    BY <1>1, UnfillingIs
  <2>2. freelist'[k] = IF U = <<>> THEN <<>> ELSE Tail(U)
    BY <1>7
  <2>3. SweepAt[k] = IF U = <<>> THEN at[k] ELSE <<Head(U), 0>>
    BY DEF SweepAt
  <2> HIDE DEF U
  <2>4. Range(<<>>) = {} /\ IsInjective(<<>>)
    BY DEF Range, IsInjective
  <2>5. /\ IsInjective(freelist'[k]) /\ Range(freelist'[k]) \subseteq Range(U)
        /\ Range(freelist'[k]) \subseteq InUse(k) \ {SweepAt[k][1]}
        /\ SweepAt[k][1] \in InUse(k) \cup {0}
    <3>1. CASE U = <<>>
      <4>1. at[k][1] \in InUse(k) \cup {0}
        BY <1>1 DEF Placed
      <4> QED
        BY <2>2, <2>3, <2>4, <3>1, <4>1
    <3>2. CASE U # <<>>
      <4>1. Head(U) \in Range(U) /\ IsInjective(Tail(U)) /\ Range(Tail(U)) = Range(U) \ {Head(U)}
        BY <2>1, <3>2, TailIs
      <4>2. freelist'[k] = Tail(U) /\ SweepAt[k][1] = Head(U)
        BY <2>2, <2>3, <3>2
      <4> QED
        BY <2>1, <4>1, <4>2
    <3> QED
      BY <3>1, <3>2
  <2>6. InUse(k)' = InUse(k) \cup ({SweepPick[k]} \ {0})
    BY <1>6
  <2>7. at'[k] = IF SweepPick[k] = 0 THEN SweepAt[k] ELSE <<SweepPick[k], 0>>
    BY <1>6
  <2>8. InUse(k) \subseteq Used /\ (SweepPick[k] # 0 => SweepPick[k] \notin Used)
    BY <1>5, UsedIs DEF Fresh
  <2>9. /\ at'[k][1] \in InUse(k)' \cup {0}
        /\ Range(freelist'[k]) \subseteq InUse(k)' \ {at'[k][1]}
    <3>1. CASE SweepPick[k] = 0
      BY <2>5, <2>6, <2>7, <3>1
    <3>2. CASE SweepPick[k] # 0
      <4>1. at'[k][1] = SweepPick[k]
        BY <2>7, <3>2
      <4> QED
        BY <2>5, <2>6, <2>8, <3>2, <4>1
    <3> QED
      BY <3>1, <3>2
  <2>10. IsInjective(seglist'[k]) /\ \A j \in Klass \ {k} : InUse(k)' \cap InUse(j)' = {}
    BY <1>6
  <2> QED
    BY <2>5, <2>9, <2>10 DEF Placed, U
<1>9. Given(SweepPick) \subseteq segments + 1 .. segments + Cardinality(Needy)
  BY <1>2 DEF Given, Range
<1>10. /\ Used' \subseteq 1 .. segments'
      /\ Range(segmentList') \subseteq (1 .. segments') \ Used' /\ IsInjective(segmentList')
  <2>1. CASE Needy = {}
    <3>1. Given(SweepPick) = {}
      BY <1>2, <2>1 DEF Given, Range
    <3> QED
      BY <1>2, <1>6, <2>1, <3>1 DEF PlaceInv
  <2>2. CASE Needy # {}
    <3> DEFINE m == Cardinality(Needy)
               q == SubSeq(Expansion, m + 1, Pool)
    <3>1. m \in 0 .. Pool /\ segments' = segments + Pool /\ segmentList' = q
      BY <1>2, <2>2
    <3>2. IsInjective(q) /\ Range(q) \subseteq segments + m + 1 .. segments + Pool
      BY <1>2, <1>3, <3>1, ExpansionPlaces
    <3> HIDE DEF m, q
    <3>3. /\ segments + m + 1 .. segments + Pool \subseteq 1 .. segments + Pool
          /\ segments + 1 .. segments + m \subseteq 1 .. segments + Pool
          /\ 1 .. segments \subseteq 1 .. segments + Pool
          /\ (segments + m + 1 .. segments + Pool) \cap (1 .. segments) = {}
          /\ (segments + m + 1 .. segments + Pool) \cap (segments + 1 .. segments + m) = {}
      BY <1>3, <3>1
    <3>4. Given(SweepPick) \subseteq segments + 1 .. segments + m
      BY <1>9 DEF m
    <3> QED
      BY <1>3, <1>6, <3>1, <3>2, <3>3, <3>4
  <2> QED
    BY <2>1, <2>2
<1>11. \A s \in Segment \ Used' : liveCount'[s] = 0 /\ tenureCount'[s] = 0
  BY <1>6, <1>7 DEF PlaceInv
<1> QED
  BY <1>2, <1>5, <1>8, <1>10, <1>11 DEF PlaceInv

LEMMA TakeBlockIs ==
  ASSUME TypeOK, want \in Klass, TakeBlock
  PROVE  LET s == at[want][1]
             n == Least(FoundAt(want))
         IN  /\ s \in Segment /\ s # 0 /\ n \in Node(want) /\ n \in FoundAt(want)
             /\ FoundAt(want) = Found(want, base[s], full[s], at[want][2])
             /\ base' = [base EXCEPT ![s] = @ \cup {n}]
             /\ full' = PassedAt(want)
             /\ liveCount' = [liveCount EXCEPT ![s] = @ + 1]
             /\ \A k \in Klass : at'[k] = IF k = want THEN <<s, Rotate(n)>> ELSE at[k]
             /\ fresh' = <<s, n>>
             /\ live' = live \ {<<s, n>>} /\ ptr' = {e \in ptr : e[1] # <<s, n>>}
<1> DEFINE s == at[want][1]
           n == Least(FoundAt(want))
<1>1. FoundAt(want) # {}
  BY DEF TakeBlock
<1>2. /\ s \in Segment /\ s # 0 /\ n \in Node(want) /\ n \in FoundAt(want)
      /\ FoundAt(want) = Found(want, base[s], full[s], at[want][2])
  BY <1>1, PointerType
<1>3. /\ base' = [base EXCEPT ![s] = @ \cup {n}]
      /\ full' = PassedAt(want)
      /\ liveCount' = [liveCount EXCEPT ![s] = @ + 1]
      /\ at' = [at EXCEPT ![want] = <<s, Rotate(n)>>]
      /\ fresh' = <<s, n>>
      /\ live' = live \ {<<s, n>>} /\ ptr' = {e \in ptr : e[1] # <<s, n>>}
  BY DEF TakeBlock
<1>4. \A k \in Klass : at'[k] = IF k = want THEN <<s, Rotate(n)>> ELSE at[k]
  BY <1>3 DEF TypeOK
<1> HIDE DEF s, n
<1> QED
  BY <1>2, <1>3, <1>4 DEF s, n

LEMMA PlaceStep ==
  ASSUME TypeOK, PlaceInv, phase \in {"search", "init"} => want \in Klass, [Next]_vars
  PROVE  PlaceInv'
<1> USE DEF supply, marks, kept, heap, gen, request
<1>1. ASSUME NEW k \in Klass, AllocObject(k) PROVE PlaceInv'
  BY <1>1, PlaceKept DEF AllocObject, Allocating
<1>2. ASSUME TakeBlock PROVE PlaceInv'
  <2> DEFINE s == at[want][1]
             n == Least(FoundAt(want))
  <2>1. want \in Klass
    BY <1>2 DEF TakeBlock
  <2>2. /\ s \in Segment /\ s # 0 /\ liveCount' = [liveCount EXCEPT ![s] = @ + 1]
        /\ \A k \in Klass : at'[k] = IF k = want THEN <<s, Rotate(n)>> ELSE at[k]
    BY <1>2, <2>1, TakeBlockIs
  <2>3. s \in Used
    <3>1. s \in InUse(want)
      BY <2>1, <2>2 DEF PlaceInv, Placed
    <3> QED
      BY <2>1, <3>1 DEF Used
  <2>4. \A k \in Klass : at'[k][1] = at[k][1]
    BY <2>2
  <2>5. \A t \in Segment \ Used : liveCount'[t] = liveCount[t]
    BY <2>2, <2>3 DEF TypeOK
  <2>6. /\ UNCHANGED <<segments, segmentList, seglist, freelist, tenureCount>>
        /\ Allocating' => Allocating
    BY <1>2 DEF TakeBlock, Allocating
  <2> QED
    BY <2>4, <2>5, <2>6, PlaceKept
<1>3. ASSUME InitObject PROVE PlaceInv'
  BY <1>3, PlaceKept DEF InitObject, Allocating
<1>4. ASSUME PopSegment PROVE PlaceInv'
  <2> DEFINE q == freelist[want]
  <2>1. want \in Klass /\ q \in Seq(Segment) /\ q # <<>> /\ Placed(want) /\ Allocating
    BY <1>4 DEF PopSegment, TypeOK, PlaceInv, Allocating
  <2>2. /\ Head(q) \in Range(q) /\ IsInjective(Tail(q)) /\ Range(Tail(q)) = Range(q) \ {Head(q)}
    BY <2>1, TailIs DEF Placed
  <2>3. /\ \A k \in Klass : at'[k] = IF k = want THEN <<Head(q), 0>> ELSE at[k]
        /\ \A k \in Klass : freelist'[k] = IF k = want THEN Tail(q) ELSE freelist[k]
    BY <1>4, <2>1 DEF PopSegment, TypeOK
  <2> HIDE DEF q
  <2>4. UNCHANGED <<segments, segmentList, seglist, liveCount, tenureCount, phase>>
    BY <1>4 DEF PopSegment
  <2>5. Used' = Used /\ \A k \in Klass : InUse(k)' = InUse(k)
    BY <2>4 DEF Used, InUse
  <2>6. ASSUME NEW k \in Klass PROVE Placed(k)'
    <3>1. Placed(k)
      BY DEF PlaceInv
    <3>2. \A j \in Klass \ {k} : InUse(k)' \cap InUse(j)' = {}
      BY <2>5, <3>1 DEF Placed
    <3>3. IsInjective(seglist'[k])
      BY <2>4, <3>1 DEF Placed
    <3>4. CASE k = want
      <4>1. at'[k][1] = Head(q) /\ freelist'[k] = Tail(q) /\ Range(q) \subseteq InUse(k)
        BY <2>1, <2>3, <3>4 DEF Placed, q
      <4> QED
        BY <2>2, <2>5, <3>2, <3>3, <4>1 DEF Placed
    <3>5. CASE k # want
      <4>1. at'[k] = at[k] /\ freelist'[k] = freelist[k] /\ Allocating' = Allocating
        BY <2>3, <2>4, <3>5 DEF Allocating
      <4> QED
        BY <2>5, <3>1, <3>2, <3>3, <4>1 DEF Placed
    <3> QED
      BY <3>4, <3>5
  <2> QED
    BY <2>4, <2>5, <2>6 DEF PlaceInv
<1>5. ASSUME NextSegment PROVE PlaceInv'
  <2>1. want \in Klass
    BY <1>5 DEF NextSegment
  <2> QED
    BY <1>5, <2>1, NextSegmentPlaces
<1>6. ASSUME NEW o \in roots, Drop(o) PROVE PlaceInv'
  BY <1>6, PlaceKept DEF Drop, Allocating
<1>7. ASSUME NEW e \in ptr, Load(e[2]) PROVE PlaceInv'
  BY <1>7, PlaceKept DEF Load, Allocating
<1>8. ASSUME NEW e \in ptr, Erase(e[1], e[2]) PROVE PlaceInv'
  BY <1>8, PlaceKept DEF Erase, Allocating
<1>9. ASSUME NEW o \in roots, NEW p \in roots, Store(o, p) PROVE PlaceInv'
  BY <1>9, PlaceKept DEF Store, Allocating
<1>10. ASSUME DeleteGcContext PROVE PlaceInv'
  <2>1. \A s \in Segment \ Used : liveCount'[s] = liveCount[s]
    BY <1>10 DEF DeleteGcContext
  <2>2. /\ UNCHANGED <<segments, segmentList, seglist, freelist, tenureCount, at>>
        /\ Allocating' => Allocating
    BY <1>10 DEF DeleteGcContext, Allocating
  <2> QED
    BY <2>1, <2>2, PlaceKept
<1>11. ASSUME Mark PROVE PlaceInv'
  <2>1. liveCount' = [s \in Segment |->
              IF s \in Used THEN StartCount(s) + Cardinality(NewIn(s)) ELSE liveCount[s]]
    BY <1>11, MarkIs
  <2>2. \A s \in Segment \ Used : liveCount'[s] = liveCount[s]
    BY <2>1
  <2>3. /\ UNCHANGED <<segments, segmentList, seglist, freelist, tenureCount, at>>
        /\ Allocating' => Allocating
    BY <1>11 DEF Mark, Allocating
  <2> QED
    BY <2>2, <2>3, PlaceKept
<1>12. ASSUME Sweep PROVE PlaceInv'
  BY <1>12, SweepPlaces
<1>13. CASE UNCHANGED vars
  BY <1>13, PlaceKept DEF vars, Allocating
<1> QED
  BY <1>1, <1>2, <1>3, <1>4, <1>5, <1>6, <1>7, <1>8, <1>9, <1>10, <1>11, <1>12, <1>13 DEF Next

(* The bitmaps of a segment agree; while the program allocates, a pointer  *)
(* has left no free block behind it in its word and a segment put back has *)
(* a block that is found.                                                  *)
Agrees(k, b, f, count) == b \subseteq Node(k) /\ MarksAgree(k, b, f, count)
Sound(k, s) ==
  /\ Agrees(k, base[s], full[s], liveCount[s])
  /\ Agrees(k, snapshot[s][1], snapshot[s][2], tenureCount[s])
Ready(k) ==
  /\ at[k][1] # 0 => Behind(k, base[at[k][1]], at[k][2])
  /\ \A s \in Range(freelist[k]) : FoundIn(k, s, 0) # {}
BitmapInv ==
  /\ phase # "deleted" => \A k \in Klass : \A s \in InUse(k) : Sound(k, s)
  /\ Allocating => \A k \in Klass : Ready(k)

LEMMA AgreesHides ==
  ASSUME NEW k, NEW b, NEW f, NEW c, Agrees(k, b, f, c)
  PROVE  Hides(k, b, f) /\ b \subseteq Node(k) /\ 0 \in b
BY DEF Agrees, MarksAgree, Hides

LEMMA LimitAgrees ==
  ASSUME NEW k \in Klass
  PROVE  Agrees(k, Limit, {}, 0) /\ \A b : Behind(k, b, 0)
<1>1. 0 \in Node(k) /\ Node(k) \in SUBSET Nat
  BY NodesAre
<1>2. Cardinality({0}) = 1
  BY FS_Singleton
<1>3. Agrees(k, Limit, {}, 0)
  BY <1>1, <1>2 DEF Agrees, MarksAgree, Limit
<1>4. \A m \in Bits(k, WordOf(0)) : ~ (m < 0)
  BY <1>1 DEF Bits
<1> QED
  BY <1>3, <1>4 DEF Behind

(* live_count tells whether a segment has a free block.                    *)
LEMMA CountTells ==
  ASSUME NEW k \in Klass, NEW b, NEW f, NEW c, Agrees(k, b, f, c)
  PROVE  /\ c < NodeCount(k) => Node(k) \ b # {}
         /\ ~ (c < NodeCount(k)) => b = Node(k)
<1>1. /\ IsFiniteSet(Node(k)) /\ Cardinality(Node(k)) = NodeCount(k) + 1
      /\ NodeCount(k) \in Nat
  BY NodesFinite, NodesAre
<1>2. b \subseteq Node(k) /\ c = Cardinality(b) - 1
  BY DEF Agrees, MarksAgree
<1>3. IsFiniteSet(b) /\ Cardinality(b) \in Nat /\ Cardinality(b) <= Cardinality(Node(k))
      /\ (Cardinality(b) = Cardinality(Node(k)) => b = Node(k))
  BY <1>1, <1>2, FS_Subset, FS_CardinalityType
<1>4. (b = Node(k)) => ~ (c < NodeCount(k))
  BY <1>1, <1>2
<1>5. ASSUME ~ (c < NodeCount(k)) PROVE Cardinality(b) = Cardinality(Node(k))
  BY <1>1, <1>2, <1>3, <1>5
<1>6. c < NodeCount(k) => Node(k) \ b # {}
  BY <1>2, <1>4
<1> QED
  BY <1>3, <1>5, <1>6

(* A block that is marked.                                                 *)
LEMMA MarkOne ==
  ASSUME NEW k \in Klass, NEW b, NEW f, NEW c, Agrees(k, b, f, c),
         NEW g, Hides(k, b, g), NEW n \in Node(k) \ b
  PROVE  Agrees(k, b \cup {n}, g, c + 1)
<1>1. IsFiniteSet(Node(k))
  BY NodesFinite
<1>2. b \subseteq Node(k) /\ c = Cardinality(b) - 1 /\ 0 \in b
  BY DEF Agrees, MarksAgree
<1>3. IsFiniteSet(b) /\ Cardinality(b) \in Nat
  BY <1>1, <1>2, FS_Subset, FS_CardinalityType
<1>4. Cardinality(b \cup {n}) = Cardinality(b) + 1
  BY <1>3, FS_AddElement
<1>5. \A w \in g : Bits(k, w) \subseteq b \cup {n}
  BY DEF Hides
<1>6. c + 1 = Cardinality(b \cup {n}) - 1
  BY <1>2, <1>3, <1>4
<1> QED
  BY <1>2, <1>5, <1>6 DEF Agrees, MarksAgree

LEMMA BitmapKept ==
  ASSUME BitmapInv, UNCHANGED <<base, full, liveCount, snapshot, tenureCount, seglist, freelist, at>>,
         Allocating' => Allocating, phase' # "deleted" => phase # "deleted"
  PROVE  BitmapInv'
<1>1. \A k \in Klass : InUse(k)' = InUse(k) /\ \A s : Sound(k, s)' = Sound(k, s)
  BY DEF InUse, Sound
<1>2. \A k \in Klass : Ready(k)' = Ready(k)
  BY DEF Ready, FoundIn
<1> QED
  BY <1>1, <1>2 DEF BitmapInv

(* What the last look at the segment of a pointer leaves.                  *)
LEMMA PassedAtIs ==
  ASSUME TypeOK, PlaceInv, BitmapInv, Allocating, NEW v \in Klass
  PROVE  /\ \A k \in Klass : \A s \in InUse(k) :
              /\ Hides(k, base[s], PassedAt(v)[s])
              /\ Agrees(k, base[s], PassedAt(v)[s], liveCount[s])
              /\ s # at[v][1] => PassedAt(v)[s] = full[s]
         /\ \A k \in Klass : \A s \in Range(freelist[k]) :
              s \in InUse(k) /\ s # at[v][1] /\ s # 0
<1>1. /\ at[v][2] \in Bit(v) /\ at[v][1] \in InUse(v) \cup {0}
      /\ \A k \in Klass : InUse(k) \subseteq Segment
      /\ \A k \in Klass : Placed(k) /\ 0 \notin InUse(k)
  BY PointerType, UsedIs, PoolIs DEF PlaceInv, Placed
<1>2. PassedAt(v) = [s \in Segment |->
         IF s = at[v][1] THEN Passed(v, base[s], full[s], at[v][2]) ELSE full[s]]
  BY DEF PassedAt
<1>3. ASSUME NEW k \in Klass, NEW s \in InUse(k)
      PROVE  /\ Hides(k, base[s], PassedAt(v)[s])
             /\ Agrees(k, base[s], PassedAt(v)[s], liveCount[s])
             /\ s # at[v][1] => PassedAt(v)[s] = full[s]
  <2>1. Agrees(k, base[s], full[s], liveCount[s]) /\ s \in Segment /\ full[s] \in SUBSET Nat
    BY <1>1 DEF BitmapInv, Sound, Allocating, TypeOK
  <2>2. Hides(k, base[s], full[s])
    BY <2>1, AgreesHides
  <2>3. Hides(k, base[s], PassedAt(v)[s])
    <3>1. CASE s = at[v][1]
      <4>1. k = v
        BY <1>1, <3>1 DEF Placed
      <4>2. s # 0
        BY <1>1
      <4>3. Behind(v, base[s], at[v][2])
        BY <3>1, <4>2 DEF BitmapInv, Ready
      <4>4. Hides(v, base[s], Passed(v, base[s], full[s], at[v][2]))
        BY <1>1, <2>1, <2>2, <4>1, <4>3, PassedIs
      <4> QED
        BY <1>2, <2>1, <3>1, <4>1, <4>4
    <3>2. CASE s # at[v][1]
      BY <1>2, <2>1, <2>2, <3>2
    <3> QED
      BY <3>1, <3>2
  <2>4. Agrees(k, base[s], PassedAt(v)[s], liveCount[s])
    BY <2>1, <2>3 DEF Agrees, MarksAgree, Hides
  <2> QED
    BY <1>2, <2>1, <2>3, <2>4
<1>4. ASSUME NEW k \in Klass, NEW s \in Range(freelist[k])
      PROVE  s \in InUse(k) /\ s # at[v][1] /\ s # 0
  <2>1. s \in InUse(k) /\ s # at[k][1] /\ s # 0
    BY <1>1 DEF Placed
  <2>2. k # v => s # at[v][1]
    BY <1>1, <2>1 DEF Placed
  <2> QED
    BY <2>1, <2>2
<1> QED
  BY <1>3, <1>4

LEMMA TakeBlockBitmap ==
  ASSUME TypeOK, PlaceInv, BitmapInv, want \in Klass, TakeBlock
  PROVE  BitmapInv'
<1> USE DEF supply, marks, kept, heap, gen, request
<1> DEFINE s == at[want][1]
           n == Least(FoundAt(want))
<1>1. /\ s \in Segment /\ s # 0 /\ n \in Node(want)
      /\ n \in FoundAt(want)
      /\ FoundAt(want) = Found(want, base[s], full[s], at[want][2])
      /\ base' = [base EXCEPT ![s] = @ \cup {n}]
      /\ full' = PassedAt(want)
      /\ liveCount' = [liveCount EXCEPT ![s] = @ + 1]
      /\ \A k \in Klass : at'[k] = IF k = want THEN <<s, Rotate(n)>> ELSE at[k]
  BY TakeBlockIs
<1>2. /\ UNCHANGED <<snapshot, tenureCount, seglist, freelist>>
      /\ phase = "search" /\ phase' = "init" /\ Allocating
  BY DEF TakeBlock, Allocating
<1>3. s \in InUse(want) /\ at[want][2] \in Bit(want) /\ 0 \notin Used
  BY <1>1, PointerType, UsedIs DEF PlaceInv, Placed
<1>4. n \in Node(want) \ base[s] /\ Behind(want, base[s], n)
  <2>1. Behind(want, base[s], at[want][2])
    BY <1>1, <1>2 DEF BitmapInv, Ready
  <2> HIDE DEF s
  <2> QED
    BY <1>1, <1>3, <2>1, FoundIs
<1>5. Behind(want, base[s] \cup {n}, Rotate(n))
  BY <1>4, BehindNext
<1>6. /\ \A k \in Klass : \A t \in InUse(k) :
           /\ Hides(k, base[t], PassedAt(want)[t])
           /\ Agrees(k, base[t], PassedAt(want)[t], liveCount[t])
           /\ t # at[want][1] => PassedAt(want)[t] = full[t]
      /\ \A k \in Klass : \A t \in Range(freelist[k]) :
           t \in InUse(k) /\ t # at[want][1] /\ t # 0
  BY <1>2, PassedAtIs
<1>7. \A k \in Klass : InUse(k)' = InUse(k)
  BY <1>2 DEF InUse
<1> HIDE DEF n
<1>8. ASSUME NEW k \in Klass, NEW t \in InUse(k) PROVE Sound(k, t)'
  <2>1. Agrees(k, snapshot'[t][1], snapshot'[t][2], tenureCount'[t])
    BY <1>2 DEF BitmapInv, Sound
  <2>2. Agrees(k, base'[t], full'[t], liveCount'[t])
    <3>1. CASE t = s
      <4>1. k = want
        BY <1>3, <3>1 DEF PlaceInv, Placed
      <4>2. Agrees(want, base[s] \cup {n}, PassedAt(want)[s], liveCount[s] + 1)
        BY <1>3, <1>4, <1>6, MarkOne
      <4>3. base'[s] = base[s] \cup {n} /\ liveCount'[s] = liveCount[s] + 1
        BY <1>1 DEF TypeOK
      <4> QED
        BY <1>1, <3>1, <4>1, <4>2, <4>3
    <3>2. CASE t # s
      <4>1. base'[t] = base[t] /\ liveCount'[t] = liveCount[t]
        BY <1>1, <3>2 DEF TypeOK
      <4> QED
        BY <1>1, <1>6, <4>1
    <3> QED
      BY <3>1, <3>2
  <2> QED
    BY <2>1, <2>2 DEF Sound
<1>9. ASSUME NEW k \in Klass PROVE Ready(k)'
  <2>1. Ready(k)
    BY <1>2 DEF BitmapInv
  <2>2. at'[k][1] # 0 => Behind(k, base'[at'[k][1]], at'[k][2])
    <3>1. CASE k = want
      <4>1. base'[s] = base[s] \cup {n} /\ at'[k] = <<s, Rotate(n)>>
        BY <1>1, <3>1 DEF TypeOK
      <4>2. at'[k][1] = s /\ at'[k][2] = Rotate(n)
        BY <4>1
      <4> HIDE DEF s
      <4>3. Behind(k, base'[s], Rotate(n))
        BY <1>5, <3>1, <4>1
      <4> QED
        BY <4>2, <4>3
    <3>2. CASE k # want
      <4>1. at'[k] = at[k]
        BY <1>1, <3>2
      <4>2. at[k][1] # s
        BY <1>1, <1>3, <3>2 DEF PlaceInv, Placed
      <4>3. base'[at[k][1]] = base[at[k][1]]
        BY <1>1, <4>2
      <4> QED
        BY <2>1, <4>1, <4>3 DEF Ready
    <3> QED
      BY <3>1, <3>2
  <2>3. ASSUME NEW t \in Range(freelist[k]) PROVE FoundIn(k, t, 0)' # {}
    <3>1. t \in InUse(k) /\ t # s /\ t \in Segment
      BY <1>6, UsedIs
    <3>2. base'[t] = base[t] /\ full'[t] = full[t]
      BY <1>1, <1>6, <3>1
    <3>3. FoundIn(k, t, 0)' = FoundIn(k, t, 0)
      BY <3>2 DEF FoundIn
    <3> QED
      BY <2>1, <3>3 DEF Ready
  <2> QED
    BY <1>2, <2>2, <2>3 DEF Ready
<1> QED
  BY <1>2, <1>7, <1>8, <1>9 DEF BitmapInv

LEMMA PopSegmentBitmap ==
  ASSUME TypeOK, PlaceInv, BitmapInv, want \in Klass, PopSegment
  PROVE  BitmapInv'
<1> USE DEF supply, marks, kept, heap, gen, request
<1> DEFINE q == freelist[want]
           P == PassedAt(want)
<1>1. /\ UNCHANGED <<base, liveCount, snapshot, tenureCount, seglist, phase>>
      /\ full' = P /\ Allocating /\ phase # "deleted"
  BY DEF PopSegment, Allocating
<1>2. /\ \A k \in Klass : \A t \in InUse(k) :
           /\ Agrees(k, base[t], P[t], liveCount[t])
           /\ t # at[want][1] => P[t] = full[t]
      /\ \A k \in Klass : \A t \in Range(freelist[k]) :
           t \in InUse(k) /\ t # at[want][1] /\ t # 0
  BY <1>1, PassedAtIs
<1> HIDE DEF P
<1>3. /\ \A k \in Klass : at'[k] = IF k = want THEN <<Head(q), 0>> ELSE at[k]
      /\ \A k \in Klass : freelist'[k] = IF k = want THEN Tail(q) ELSE freelist[k]
  BY DEF PopSegment, TypeOK
<1>4. q \in Seq(Segment) /\ q # <<>>
  BY DEF PopSegment, TypeOK
<1>5. Range(Tail(q)) \subseteq Range(q)
  BY <1>4, TailIs
<1>6. \A k \in Klass : InUse(k)' = InUse(k)
  BY <1>1 DEF InUse
<1>7. ASSUME NEW k \in Klass, NEW t \in InUse(k) PROVE Sound(k, t)'
  <2>1. Sound(k, t) /\ Agrees(k, base[t], P[t], liveCount[t])
    BY <1>1, <1>2 DEF BitmapInv
  <2> QED
    BY <1>1, <2>1 DEF Sound
<1>8. ASSUME NEW k \in Klass PROVE Ready(k)'
  <2>1. Ready(k)
    BY <1>1 DEF BitmapInv
  <2>2. at'[k][1] # 0 => Behind(k, base'[at'[k][1]], at'[k][2])
    <3>1. CASE k = want
      <4>1. at'[k][2] = 0
        BY <1>3, <3>1
      <4> QED
        BY <4>1, LimitAgrees
    <3>2. CASE k # want
      BY <1>1, <1>3, <2>1, <3>2 DEF Ready
    <3> QED
      BY <3>1, <3>2
  <2>3. Range(freelist'[k]) \subseteq Range(freelist[k])
    BY <1>3, <1>5
  <2>4. ASSUME NEW t \in Range(freelist[k]) PROVE FoundIn(k, t, 0)' # {}
    <3>1. t \in InUse(k) /\ t # at[want][1]
      BY <1>2
    <3>2. base'[t] = base[t] /\ full'[t] = full[t]
      BY <1>1, <1>2, <3>1
    <3>3. FoundIn(k, t, 0)' = FoundIn(k, t, 0)
      BY <3>2 DEF FoundIn
    <3> QED
      BY <2>1, <3>3 DEF Ready
  <2> QED
    BY <2>2, <2>3, <2>4 DEF Ready
<1> QED
  BY <1>1, <1>6, <1>7, <1>8 DEF BitmapInv

(* The bitmaps of the segments that newSegment gives out.                  *)
LEMMA NewSegmentsBitmap ==
  ASSUME NEW pick, NEW f, NEW a, NEW saved, NewSegments(pick, f, a, saved),
         NEW s \in Segment
  PROVE  /\ s \in Given(pick) =>
              /\ base'[s] = Limit /\ full'[s] = {} /\ snapshot'[s] = <<Limit, {}>>
         /\ s \notin Given(pick) =>
              /\ base'[s] = base[s] /\ full'[s] = f[s] /\ snapshot'[s] = saved[s]
BY DEF NewSegments, Given

LEMMA NextSegmentBitmap ==
  ASSUME TypeOK, PlaceInv, BitmapInv, want \in Klass, NextSegment
  PROVE  BitmapInv'
<1> USE DEF supply, marks, kept, heap, gen, request
<1> DEFINE P == PassedAt(want)
           G == Given(NextPick)
<1>1. /\ UNCHANGED <<freelist, liveCount, tenureCount, phase>>
      /\ Allocating /\ phase # "deleted"
  BY DEF NextSegment, Allocating
<1>2. /\ \A k \in Klass : \A t \in InUse(k) :
           /\ Agrees(k, base[t], P[t], liveCount[t])
           /\ t # at[want][1] => P[t] = full[t]
      /\ \A k \in Klass : \A t \in Range(freelist[k]) :
           t \in InUse(k) /\ t # at[want][1] /\ t # 0
  BY <1>1, PassedAtIs
<1>3. Fresh(NextPick) /\ NewSegments(NextPick, P, at, snapshot)
  BY NextSegmentPlaces
<1>4. /\ \A k \in Klass :
           /\ InUse(k)' = InUse(k) \cup ({NextPick[k]} \ {0})
           /\ at'[k] = IF NextPick[k] = 0 THEN at[k] ELSE <<NextPick[k], 0>>
      /\ Used \cap G = {} /\ G \subseteq Segment
  BY <1>3, NewSegmentsPlaces DEF PlaceInv
<1>5. \A s \in Segment :
        /\ s \in G =>
              /\ base'[s] = Limit /\ full'[s] = {} /\ snapshot'[s] = <<Limit, {}>>
        /\ s \notin G =>
              /\ base'[s] = base[s] /\ full'[s] = P[s] /\ snapshot'[s] = snapshot[s]
  BY <1>3, NewSegmentsBitmap
<1>6. \A k \in Klass : {NextPick[k]} \ {0} \subseteq G
  BY <1>3 DEF Fresh, Given, Range
<1>7. \A k \in Klass : InUse(k) \subseteq Used /\ InUse(k) \subseteq Segment
  BY UsedIs
<1> HIDE DEF P, G
<1>8. ASSUME NEW k \in Klass, NEW t \in InUse(k)' PROVE Sound(k, t)'
  <2>1. CASE t \in InUse(k)
    <3>1. t \notin G /\ t \in Segment
      BY <1>4, <1>7, <2>1
    <3>2. Sound(k, t) /\ Agrees(k, base[t], P[t], liveCount[t])
      BY <1>1, <1>2, <2>1 DEF BitmapInv
    <3> QED
      BY <1>1, <1>5, <3>1, <3>2 DEF Sound
  <2>2. CASE t \notin InUse(k)
    <3>1. t \in G /\ t \in Segment \ Used
      BY <1>4, <1>6, <2>2
    <3>2. liveCount'[t] = 0 /\ tenureCount'[t] = 0
      BY <1>1, <3>1 DEF PlaceInv
    <3>3. base'[t] = Limit /\ full'[t] = {} /\ snapshot'[t][1] = Limit /\ snapshot'[t][2] = {}
      BY <1>5, <3>1
    <3> QED
      BY <3>2, <3>3, LimitAgrees DEF Sound
  <2> QED
    BY <2>1, <2>2
<1>9. ASSUME NEW k \in Klass PROVE Ready(k)'
  <2>1. Ready(k)
    BY <1>1 DEF BitmapInv
  <2>2. at'[k][1] # 0 => Behind(k, base'[at'[k][1]], at'[k][2])
    <3>1. CASE NextPick[k] # 0
      <4>1. at'[k] = <<NextPick[k], 0>>
        BY <1>4, <3>1
      <4>2. at'[k][2] = 0
        BY <4>1
      <4> QED
        BY <4>2, LimitAgrees
    <3>2. CASE NextPick[k] = 0 /\ at[k][1] # 0
      <4>1. at'[k] = at[k] /\ at[k][1] \in InUse(k)
        BY <1>4, <3>2 DEF PlaceInv, Placed
      <4>2. base'[at[k][1]] = base[at[k][1]]
        BY <1>4, <1>5, <1>7, <4>1
      <4> QED
        BY <2>1, <4>1, <4>2 DEF Ready
    <3>3. CASE NextPick[k] = 0 /\ at[k][1] = 0
      BY <1>4, <3>3
    <3> QED
      BY <3>1, <3>2, <3>3
  <2>3. ASSUME NEW t \in Range(freelist[k]) PROVE FoundIn(k, t, 0)' # {}
    <3>1. t \in InUse(k) /\ t # at[want][1]
      BY <1>2
    <3>2. base'[t] = base[t] /\ full'[t] = full[t]
      BY <1>2, <1>4, <1>5, <1>7, <3>1
    <3>3. FoundIn(k, t, 0)' = FoundIn(k, t, 0)
      BY <3>2 DEF FoundIn
    <3> QED
      BY <2>1, <3>3 DEF Ready
  <2> QED
    BY <1>1, <2>2, <2>3 DEF Ready
<1> QED
  BY <1>1, <1>8, <1>9 DEF BitmapInv

(* A collection finds objects that are not marked, from others that are    *)
(* not.                                                                    *)
LEMMA NewUnmarked ==
  \A o \in NewMarks : ~MarkedAt(o)
<1> DEFINE R == {o \in Visited : ~MarkedAt(o)}
           E == {e \in ptr : ~MarkedAt(e[1]) /\ ~MarkedAt(e[2])}
<1>1. \A o \in Touched(R, E) : ~MarkedAt(o)
  BY DEF Touched
<1>2. NewMarks \subseteq Touched(R, E)
  BY DEF NewMarks, Reachable
<1> QED
  BY <1>1, <1>2

LEMMA StartAgrees ==
  ASSUME NEW k \in Klass, NEW s, Sound(k, s)
  PROVE  Agrees(k, StartMarks(s)[1], StartMarks(s)[2], StartCount(s))
<1>1. CASE Major
  BY <1>1, LimitAgrees DEF StartMarks, StartCount
<1>2. CASE ~Major
  BY <1>2 DEF StartMarks, StartCount, Sound
<1> QED
  BY <1>1, <1>2

LEMMA KlassOfOne ==
  ASSUME PlaceInv, NEW k \in Klass, NEW s \in InUse(k)
  PROVE  s \in Used /\ KlassOf(s) = k
<1>1. s \in Used
  BY DEF Used
<1>2. KlassOf(s) \in Klass /\ s \in InUse(KlassOf(s))
  BY <1>1, KlassOfIs
<1> QED
  BY <1>1, <1>2 DEF PlaceInv, Placed

(* The blocks that a collection marks in a segment of class k.             *)
LEMMA MarkBitmap ==
  ASSUME TypeOK, PlaceInv, BitmapInv, Mark
  PROVE  BitmapInv'
<1> USE DEF supply, marks, kept, heap, gen, request
<1>1. /\ base' = [s \in Segment |->
              IF s \in Used THEN StartMarks(s)[1] \cup NewIn(s) ELSE base[s]]
      /\ full' = [s \in Segment |->
              IF s \in Used THEN StartMarks(s)[2] \cup Filled(s, base'[s]) ELSE full[s]]
      /\ liveCount' = [s \in Segment |->
              IF s \in Used THEN StartCount(s) + Cardinality(NewIn(s)) ELSE liveCount[s]]
      /\ phase = "run" /\ phase' = "sweep"
  BY MarkIs
<1>2. UNCHANGED <<seglist, snapshot, tenureCount>>
  BY DEF Mark
<1>3. \A k \in Klass : InUse(k)' = InUse(k)
  BY <1>2 DEF InUse
<1>4. ASSUME NEW k \in Klass, NEW s \in InUse(k) PROVE Sound(k, s)'
  <2> DEFINE b == StartMarks(s)[1]
             f == StartMarks(s)[2]
             c == StartCount(s)
             T == NewIn(s)
  <2>1. s \in Used /\ KlassOf(s) = k /\ s \in Segment
    BY KlassOfOne, UsedIs
  <2>2. Sound(k, s)
    BY <1>1 DEF BitmapInv
  <2>3. /\ base'[s] = b \cup T /\ full'[s] = f \cup Filled(s, base'[s])
        /\ liveCount'[s] = c + Cardinality(T)
    BY <1>1, <2>1
  <2>4. Agrees(k, b, f, c)
    BY <2>2, StartAgrees
  <2>5. T \subseteq Node(k) /\ IsFiniteSet(T) /\ Cardinality(T) \in Nat
    BY <2>1, NewInType
  <2>6. T \cap b = {}
    <3>1. \A n \in T : <<s, n>> \in NewMarks
      BY DEF NewIn
    <3>2. \A n \in T : ~MarkedAt(<<s, n>>)
      BY <3>1, NewUnmarked
    <3> QED
      BY <3>2 DEF MarkedAt
  <2>7. Filled(s, base'[s]) \subseteq {w \in Word(k) : Bits(k, w) \subseteq base'[s]}
    BY <2>1 DEF Filled
  <2> HIDE DEF b, f, c, T
  <2>8. b \subseteq Node(k) /\ 0 \in b /\ c = Cardinality(b) - 1
        /\ \A w \in f : Bits(k, w) \subseteq b
    BY <2>4 DEF Agrees, MarksAgree
  <2>9. IsFiniteSet(b) /\ Cardinality(b) \in Nat
    BY <2>8, NodesFinite, FS_Subset, FS_CardinalityType
  <2>10. Cardinality(b \cup T) = Cardinality(b) + Cardinality(T)
    <3>1. Cardinality(b \cup T) = Cardinality(b) + Cardinality(T) - Cardinality(T \cap b)
      <4>1. T \cap b = b \cap T
        OBVIOUS
      <4> QED
        BY <2>5, <2>9, <4>1, FS_Union
    <3>2. Cardinality(T \cap b) = 0
      <4>1. Cardinality({}) = 0
        BY FS_EmptySet
      <4> QED
        BY <2>6, <4>1
    <3> QED
      BY <2>5, <2>9, <3>1, <3>2
  <2>11. c + Cardinality(T) = Cardinality(b \cup T) - 1
    BY <2>5, <2>8, <2>9, <2>10
  <2>12. Agrees(k, base'[s], full'[s], liveCount'[s])
    BY <2>3, <2>5, <2>7, <2>8, <2>11 DEF Agrees, MarksAgree
  <2> QED
    BY <1>2, <2>2, <2>12 DEF Sound
<1>5. ~Allocating'
  BY <1>1 DEF Allocating
<1> QED
  BY <1>3, <1>4, <1>5 DEF BitmapInv

LEMMA SweepBitmap ==
  ASSUME TypeOK, PlaceInv, BitmapInv, Sweep
  PROVE  BitmapInv'
<1> USE DEF supply, marks, kept, heap, gen, request
<1> DEFINE G == Given(SweepPick)
<1>1. /\ liveCount' = liveCount /\ phase = "sweep" /\ phase' = "run"
      /\ tenureCount' = [s \in Segment |-> IF s \in Used THEN liveCount[s] ELSE tenureCount[s]]
  BY DEF Sweep
<1>2. /\ Fresh(SweepPick) /\ NewSegments(SweepPick, full, SweepAt, SweepSaved)
      /\ \A k \in Klass : Range(freelist'[k]) \subseteq Range(Unfilling(k))
  BY SweepPlaces
<1>3. \A k \in Klass : Placed(k) /\ IsInjective(seglist[k])
  BY DEF PlaceInv, Placed
<1>4. /\ \A k \in Klass :
           /\ InUse(k)' = InUse(k) \cup ({SweepPick[k]} \ {0})
           /\ at'[k] = IF SweepPick[k] = 0 THEN SweepAt[k] ELSE <<SweepPick[k], 0>>
      /\ Used \cap G = {} /\ G \subseteq Segment
  BY <1>2, <1>3, NewSegmentsPlaces
<1>5. \A s \in Segment :
        /\ s \in G =>
              /\ base'[s] = Limit /\ full'[s] = {} /\ snapshot'[s] = <<Limit, {}>>
        /\ s \notin G =>
              /\ base'[s] = base[s] /\ full'[s] = full[s] /\ snapshot'[s] = SweepSaved[s]
  BY <1>2, NewSegmentsBitmap
<1>6. \A k \in Klass : {SweepPick[k]} \ {0} \subseteq G
  BY <1>2 DEF Fresh, Given, Range
<1>7. \A k \in Klass : InUse(k) \subseteq Used /\ InUse(k) \subseteq Segment
  BY UsedIs
<1> HIDE DEF G
<1>8. ASSUME NEW k \in Klass, NEW t \in InUse(k)' PROVE Sound(k, t)'
  <2>1. CASE t \in InUse(k)
    <3>1. t \notin G /\ t \in Segment /\ t \in Used
      BY <1>4, <1>7, <2>1
    <3>2. Agrees(k, base[t], full[t], liveCount[t])
      BY <1>1, <2>1 DEF BitmapInv, Sound
    <3>3. snapshot'[t] = <<base[t], full[t]>> /\ tenureCount'[t] = liveCount[t]
      BY <1>1, <1>5, <3>1 DEF SweepSaved
    <3>4. base'[t] = base[t] /\ full'[t] = full[t] /\ liveCount'[t] = liveCount[t]
      BY <1>1, <1>5, <3>1
    <3>5. snapshot'[t][1] = base[t] /\ snapshot'[t][2] = full[t]
      BY <3>3
    <3> QED
      BY <3>2, <3>3, <3>4, <3>5 DEF Sound
  <2>2. CASE t \notin InUse(k)
    <3>1. t \in G /\ t \in Segment \ Used
      BY <1>4, <1>6, <2>2
    <3>2. liveCount'[t] = 0 /\ tenureCount'[t] = 0
      BY <1>1, <3>1 DEF PlaceInv
    <3>3. base'[t] = Limit /\ full'[t] = {} /\ snapshot'[t][1] = Limit /\ snapshot'[t][2] = {}
      BY <1>5, <3>1
    <3> QED
      BY <3>2, <3>3, LimitAgrees DEF Sound
  <2> QED
    BY <2>1, <2>2
<1>9. ASSUME NEW k \in Klass PROVE Ready(k)'
  <2>1. /\ Range(Unfilling(k)) = {s \in InUse(k) : liveCount[s] < NodeCount(k)}
        /\ Unfilling(k) \in Seq(Segment)
    BY <1>3, UnfillingIs
  <2>2. at'[k][1] # 0 => Behind(k, base'[at'[k][1]], at'[k][2])
    <3>1. CASE SweepPick[k] # 0
      <4>1. at'[k] = <<SweepPick[k], 0>>
        BY <1>4, <3>1
      <4>2. at'[k][2] = 0
        BY <4>1
      <4> QED
        BY <4>2, LimitAgrees
    <3>2. CASE SweepPick[k] = 0 /\ Unfilling(k) # <<>>
      <4>1. at'[k] = <<Head(Unfilling(k)), 0>>
        BY <1>4, <3>2 DEF SweepAt
      <4>2. at'[k][2] = 0
        BY <4>1
      <4> QED
        BY <4>2, LimitAgrees
    <3>3. CASE SweepPick[k] = 0 /\ Unfilling(k) = <<>> /\ at[k][1] # 0
      <4>1. at'[k] = at[k] /\ at[k][1] \in InUse(k)
        BY <1>3, <1>4, <3>3 DEF SweepAt, Placed
      <4> DEFINE s == at[k][1]
      <4>2. Range(Unfilling(k)) = {}
        BY <3>3 DEF Range
      <4>3. ~ (liveCount[s] < NodeCount(k)) /\ Agrees(k, base[s], full[s], liveCount[s])
        BY <1>1, <2>1, <4>1, <4>2 DEF BitmapInv, Sound
      <4>4. base[s] = Node(k)
        BY <4>3, CountTells
      <4>5. base'[s] = base[s]
        BY <1>4, <1>5, <1>7, <4>1
      <4> QED
        BY <4>1, <4>4, <4>5 DEF Behind, Bits
    <3>4. CASE SweepPick[k] = 0 /\ Unfilling(k) = <<>> /\ at[k][1] = 0
      BY <1>4, <3>4 DEF SweepAt
    <3> QED
      BY <3>1, <3>2, <3>3, <3>4
  <2>3. ASSUME NEW t \in Range(Unfilling(k)) PROVE FoundIn(k, t, 0)' # {}
    <3>1. t \in InUse(k) /\ liveCount[t] < NodeCount(k)
      BY <2>1
    <3>2. t \in Segment /\ t # 0 /\ t \notin G
      BY <1>4, <1>7, <3>1, PoolIs
    <3>3. base'[t] = base[t] /\ full'[t] = full[t]
      BY <1>5, <3>2
    <3>4. Agrees(k, base[t], full[t], liveCount[t])
      BY <1>1, <3>1 DEF BitmapInv, Sound
    <3>5. PICK x \in Node(k) \ base[t] : TRUE
      BY <3>1, <3>4, CountTells
    <3>6. Found(k, base[t], full[t], 0) # {}
      BY <3>4, <3>5, AgreesHides, FoundFirst
    <3> QED
      BY <3>2, <3>3, <3>6 DEF FoundIn
  <2> QED
    BY <1>2, <2>2, <2>3 DEF Ready
<1> QED
  BY <1>1, <1>8, <1>9 DEF BitmapInv

LEMMA BitmapStep ==
  ASSUME TypeOK, PlaceInv, BitmapInv, phase \in {"search", "init"} => want \in Klass, [Next]_vars
  PROVE  BitmapInv'
<1> USE DEF supply, marks, kept, heap, gen, request
<1>1. ASSUME NEW k \in Klass, AllocObject(k) PROVE BitmapInv'
  BY <1>1, BitmapKept DEF AllocObject, Allocating
<1>2. ASSUME TakeBlock PROVE BitmapInv'
  <2>1. want \in Klass
    BY <1>2 DEF TakeBlock
  <2> QED
    BY <1>2, <2>1, TakeBlockBitmap
<1>3. ASSUME InitObject PROVE BitmapInv'
  BY <1>3, BitmapKept DEF InitObject, Allocating
<1>4. ASSUME PopSegment PROVE BitmapInv'
  <2>1. want \in Klass
    BY <1>4 DEF PopSegment
  <2> QED
    BY <1>4, <2>1, PopSegmentBitmap
<1>5. ASSUME NextSegment PROVE BitmapInv'
  <2>1. want \in Klass
    BY <1>5 DEF NextSegment
  <2> QED
    BY <1>5, <2>1, NextSegmentBitmap
<1>6. ASSUME NEW o \in roots, Drop(o) PROVE BitmapInv'
  BY <1>6, BitmapKept DEF Drop, Allocating
<1>7. ASSUME NEW e \in ptr, Load(e[2]) PROVE BitmapInv'
  BY <1>7, BitmapKept DEF Load, Allocating
<1>8. ASSUME NEW e \in ptr, Erase(e[1], e[2]) PROVE BitmapInv'
  BY <1>8, BitmapKept DEF Erase, Allocating
<1>9. ASSUME NEW o \in roots, NEW p \in roots, Store(o, p) PROVE BitmapInv'
  BY <1>9, BitmapKept DEF Store, Allocating
<1>10. ASSUME DeleteGcContext PROVE BitmapInv'
  BY <1>10 DEF DeleteGcContext, BitmapInv, Allocating
<1>11. ASSUME Mark PROVE BitmapInv'
  BY <1>11, MarkBitmap
<1>12. ASSUME Sweep PROVE BitmapInv'
  BY <1>12, SweepBitmap
<1>13. CASE UNCHANGED vars
  BY <1>13, BitmapKept DEF vars, Allocating
<1> QED
  BY <1>1, <1>2, <1>3, <1>4, <1>5, <1>6, <1>7, <1>8, <1>9, <1>10, <1>11, <1>12, <1>13 DEF Next

(* The objects that are marked, and the cells that are blocks.             *)
Held == {o \in live : o[1] \in Used /\ o[2] \in base[o[1]]}
IsBlock(o) == \E k \in Klass : o[1] \in InUse(k) /\ o[2] \in Node(k) \ {0}

(* Every object is a block, the fields of objects hold objects, but for    *)
(* those that held the block an allocation has just taken; the objects the *)
(* program holds are marked, and the marked ones lead to marked ones only. *)
GraphInv ==
  /\ \A o \in live : IsBlock(o)
  /\ \A e \in ptr : e[1] \in live /\ (e[2] \in live \/ (phase = "init" /\ e[2] = fresh))
  /\ phase = "deleted" => live = {} /\ roots = {}
  /\ phase # "deleted" => roots \subseteq Held /\ Closed(Held, ptr)
  /\ phase = "init" => IsBlock(fresh) /\ fresh \notin live /\ fresh[2] \in base[fresh[1]]
  /\ phase \in {"search", "init"} => want \in Klass

(* What the collections are told: the marks of the last one are among the  *)
(* present ones, the objects it marked are tenured, a field of such an     *)
(* object that holds a young one is remembered.                            *)
AgeInv ==
  /\ ~generational => flags = {} /\ phase # "sweep"
  /\ Allocating =>
       /\ \A s \in Used : snapshot[s][1] \subseteq base[s]
       /\ generational => \A e \in ptr : Tenure(e[1]) => Tenure(e[2]) \/ e[1] \in remembered
       /\ \A o \in live : Tenure(o) => o \in tenured
  /\ phase = "init" => ~Tenure(fresh)
  /\ phase = "sweep" => Held \subseteq tenured

LEMMA ReachableInClosed ==
  ASSUME NEW S, NEW R, NEW E, R \subseteq S, Closed(S, E)
  PROVE  Reachable(R, E) \subseteq S
<1> DEFINE T == S \cap Touched(R, E)
<1>1. R \subseteq T /\ T \in SUBSET Touched(R, E)
  BY DEF Touched
<1>2. Closed(T, E)
  BY DEF Closed, Touched
<1> QED
  BY <1>1, <1>2 DEF Reachable

LEMMA ReachableCloses ==
  ASSUME NEW R, NEW E
  PROVE  R \subseteq Reachable(R, E) /\ Closed(Reachable(R, E), E)
<1>1. R \subseteq Reachable(R, E)
  BY DEF Reachable, Touched
<1>2. ASSUME NEW e \in E, e[1] \in Reachable(R, E) PROVE e[2] \in Reachable(R, E)
  <2>1. e[2] \in Touched(R, E)
    BY DEF Touched
  <2>2. ASSUME NEW S \in SUBSET Touched(R, E), R \subseteq S, Closed(S, E) PROVE e[2] \in S
    BY <1>2, <2>2 DEF Reachable, Closed
  <2> QED
    BY <2>1, <2>2 DEF Reachable
<1> QED
  BY <1>1, <1>2 DEF Closed

(* A block of an object is in the segment of one class.                    *)
LEMMA BlockIs ==
  ASSUME PlaceInv, NEW o, IsBlock(o)
  PROVE  o[1] \in Used /\ o[2] \in Node(KlassOf(o[1])) /\ o[2] # 0
<1>1. PICK k \in Klass : o[1] \in InUse(k) /\ o[2] \in Node(k) \ {0}
  BY DEF IsBlock
<1> QED
  BY <1>1, KlassOfOne

(* What a collection marks, among the objects.                             *)
LEMMA MarkedObjects ==
  ASSUME TypeOK, PlaceInv, GraphInv, Mark
  PROVE  /\ NewMarks \subseteq live
         /\ \A o \in live : o \in Held' <=> MarkedAt(o) \/ o \in NewMarks
         /\ Major => \A o \in live : ~MarkedAt(o)
         /\ ~Major => Minor /\ \A o \in live : MarkedAt(o) <=> Tenure(o)
         /\ live' = live /\ ptr' = ptr /\ roots' = roots /\ Used' = Used
         /\ \A o \in live : IsBlock(o)' <=> IsBlock(o)
         /\ phase = "run" /\ phase' = "sweep"
<1> USE DEF supply, marks, kept, heap, gen, request
<1>1. /\ base' = [s \in Segment |->
              IF s \in Used THEN StartMarks(s)[1] \cup NewIn(s) ELSE base[s]]
      /\ phase = "run" /\ phase' = "sweep" /\ flags # {}
  BY MarkIs
<1>2. live' = live /\ ptr' = ptr /\ roots' = roots /\ seglist' = seglist
  BY DEF Mark
<1>3. Used' = Used /\ \A o : IsBlock(o)' <=> IsBlock(o)
  BY <1>2 DEF Used, InUse, IsBlock
<1>4. Visited \subseteq live
  BY <1>1 DEF GraphInv, Visited, Children, Held
<1>5. NewMarks \subseteq live
  <2> DEFINE R == {o \in Visited : ~MarkedAt(o)}
             E == {e \in ptr : ~MarkedAt(e[1]) /\ ~MarkedAt(e[2])}
  <2>1. R \subseteq live /\ Closed(live, E)
    BY <1>1, <1>4 DEF GraphInv, Closed
  <2> QED
    BY <2>1, ReachableInClosed DEF NewMarks
<1>6. ASSUME NEW o \in live
      PROVE  /\ o[1] \in Used /\ o[1] \in Segment /\ o[2] \in Node(KlassOf(o[1])) /\ o[2] # 0
             /\ o = <<o[1], o[2]>>
  <2>1. IsBlock(o) /\ o \in Cell
    BY DEF GraphInv, TypeOK
  <2> QED
    BY <2>1, BlockIs DEF Cell
<1>7. ASSUME NEW o \in live PROVE o \in Held' <=> MarkedAt(o) \/ o \in NewMarks
  <2>1. base'[o[1]] = StartMarks(o[1])[1] \cup NewIn(o[1])
    BY <1>1, <1>6
  <2>2. o[2] \in NewIn(o[1]) <=> o \in NewMarks
    BY <1>6 DEF NewIn
  <2>3. o \in Held' <=> o[2] \in base'[o[1]]
    BY <1>2, <1>3, <1>6 DEF Held
  <2> QED
    BY <2>1, <2>2, <2>3 DEF MarkedAt
<1>8. Major => \A o \in live : ~MarkedAt(o)
  BY <1>6 DEF MarkedAt, StartMarks, Limit
<1>9. ASSUME ~Major PROVE Minor /\ \A o \in live : MarkedAt(o) <=> Tenure(o)
  <2>1. Minor
    BY <1>1, <1>9 DEF Major, Minor, TypeOK
  <2> QED
    BY <1>6, <1>9, <2>1 DEF MarkedAt, StartMarks, Tenure
<1> QED
  BY <1>1, <1>2, <1>3, <1>5, <1>7, <1>8, <1>9

(* After a collection every object the program holds is marked, and no     *)
(* marked object leads to one that is not.                                 *)
LEMMA MarkCloses ==
  ASSUME TypeOK, PlaceInv, GraphInv, AgeInv, Mark
  PROVE  roots' \subseteq Held' /\ Closed(Held', ptr')
<1> DEFINE R == {o \in Visited : ~MarkedAt(o)}
           E == {e \in ptr : ~MarkedAt(e[1]) /\ ~MarkedAt(e[2])}
<1>1. /\ NewMarks \subseteq live
      /\ \A o \in live : o \in Held' <=> MarkedAt(o) \/ o \in NewMarks
      /\ Major => \A o \in live : ~MarkedAt(o)
      /\ ~Major => Minor /\ \A o \in live : MarkedAt(o) <=> Tenure(o)
      /\ live' = live /\ ptr' = ptr /\ roots' = roots
      /\ phase = "run" /\ phase' = "sweep"
  BY MarkedObjects
<1>2. R \subseteq NewMarks /\ Closed(NewMarks, E)
  BY ReachableCloses DEF NewMarks
<1>3. roots \subseteq live /\ roots \subseteq Visited
  BY <1>1 DEF GraphInv, Held, Visited
<1>4. roots \subseteq Held'
  BY <1>1, <1>2, <1>3
<1>5. ASSUME NEW e \in ptr, e[1] \in Held' PROVE e[2] \in Held'
  <2>1. e[1] \in live /\ e[2] \in live
    BY <1>1 DEF GraphInv
  <2>2. SUFFICES ASSUME ~MarkedAt(e[2]) PROVE e[2] \in NewMarks
    BY <1>1, <2>1
  <2>3. CASE ~MarkedAt(e[1])
    <3>1. e \in E /\ e[1] \in NewMarks
      BY <1>1, <1>5, <2>1, <2>2, <2>3
    <3> QED
      BY <1>2, <3>1 DEF Closed
  <2>4. CASE MarkedAt(e[1])
    <3>1. ~Major /\ Minor /\ Tenure(e[1]) /\ ~Tenure(e[2])
      BY <1>1, <2>1, <2>2, <2>4
    <3>2. generational
      BY <3>1 DEF AgeInv, Minor
    <3>3. e[1] \in remembered
      BY <1>1, <3>1, <3>2 DEF AgeInv, Allocating
    <3>4. e[2] \in Visited
      BY <3>1, <3>3 DEF Visited, Children
    <3> QED
      BY <1>2, <2>2, <3>4
  <2> QED
    BY <2>3, <2>4
<1> QED
  BY <1>1, <1>4, <1>5 DEF Closed

(* The steps that leave every bitmap of a segment in use as it is.         *)
LEMMA HeldKept ==
  ASSUME PlaceInv, GraphInv, live' = live, Used \subseteq Used',
         \A k \in Klass : InUse(k) \subseteq InUse(k)',
         \A s \in Used : base'[s] = base[s]
  PROVE  Held' = Held /\ \A o : IsBlock(o) => IsBlock(o)'
<1>1. \A o \in live : o[1] \in Used
  BY BlockIs DEF GraphInv
<1>2. Held' = Held
  BY <1>1 DEF Held
<1>3. \A o : IsBlock(o) => IsBlock(o)'
  BY DEF IsBlock
<1> QED
  BY <1>2, <1>3

LEMMA SameLists ==
  ASSUME seglist' = seglist
  PROVE  Used' = Used /\ (\A k \in Klass : InUse(k)' = InUse(k)) /\ (\A o : IsBlock(o)' <=> IsBlock(o))
BY DEF Used, InUse, IsBlock

(* What newSegment leaves of the bitmaps of the other segments.            *)
LEMMA NewSegmentsKeep ==
  ASSUME TypeOK, PlaceInv, NEW pick, Fresh(pick), NEW f, NEW a, NEW saved,
         NewSegments(pick, f, a, saved)
  PROVE  /\ Used \subseteq Used' /\ \A k \in Klass : InUse(k) \subseteq InUse(k)'
         /\ \A s \in Used : base'[s] = base[s] /\ snapshot'[s] = saved[s]
         /\ \A s \in Used' \ Used : base'[s] = Limit /\ snapshot'[s][1] = Limit
<1>1. /\ \A k \in Klass : InUse(k)' = InUse(k) \cup ({pick[k]} \ {0})
      /\ Used' = Used \cup Given(pick)
      /\ Used \cap Given(pick) = {} /\ Given(pick) \subseteq Segment
  BY NewSegmentsPlaces DEF PlaceInv
<1>2. \A s \in Segment :
        /\ s \in Given(pick) =>
              /\ base'[s] = Limit /\ full'[s] = {} /\ snapshot'[s] = <<Limit, {}>>
        /\ s \notin Given(pick) =>
              /\ base'[s] = base[s] /\ full'[s] = f[s] /\ snapshot'[s] = saved[s]
  BY NewSegmentsBitmap
<1>3. Used \subseteq Segment
  BY UsedIs
<1>4. \A s \in Used : base'[s] = base[s] /\ snapshot'[s] = saved[s]
  BY <1>1, <1>2, <1>3
<1>5. \A s \in Used' \ Used : base'[s] = Limit /\ snapshot'[s][1] = Limit
  BY <1>1, <1>2
<1> QED
  BY <1>1, <1>4, <1>5

(* The block that an allocation takes: no object that is marked.           *)
LEMMA TakenBlock ==
  ASSUME TypeOK, PlaceInv, BitmapInv, GraphInv, TakeBlock
  PROVE  /\ want \in Klass /\ phase = "search" /\ phase' = "init"
         /\ fresh' \in Cell /\ fresh' \notin Held /\ fresh'[2] \notin base[fresh'[1]]
         /\ IsBlock(fresh') /\ fresh'[1] \in Used /\ fresh'[2] \in base'[fresh'[1]]
         /\ live' = live \ {fresh'} /\ ptr' = {e \in ptr : e[1] # fresh'}
         /\ base' = [base EXCEPT ![fresh'[1]] = @ \cup {fresh'[2]}]
         /\ Held' = Held /\ roots' = roots /\ seglist' = seglist
         /\ UNCHANGED <<generational, snapshot, tenured, remembered>>
         /\ (flags' = flags \/ (generational /\ flags' = flags \cup {"major"}))
<1> USE DEF supply, marks, kept, heap, gen, request
<1> DEFINE s == at[want][1]
           n == Least(FoundAt(want))
<1>1. phase = "search" /\ phase' = "init" /\ want \in Klass /\ Allocating
  BY DEF TakeBlock, GraphInv, Allocating
<1>2. /\ s \in Segment /\ s # 0 /\ n \in Node(want)
      /\ FoundAt(want) = Found(want, base[s], full[s], at[want][2]) /\ n \in FoundAt(want)
      /\ base' = [base EXCEPT ![s] = @ \cup {n}]
      /\ fresh' = <<s, n>>
      /\ live' = live \ {<<s, n>>} /\ ptr' = {e \in ptr : e[1] # <<s, n>>}
  BY <1>1, TakeBlockIs
<1>3. s \in InUse(want) /\ s \in Used /\ at[want][2] \in Bit(want)
  BY <1>1, <1>2, PointerType DEF PlaceInv, Placed, Used
<1>4. n \in Node(want) \ base[s] /\ 0 \in base[s]
  <2>1. Behind(want, base[s], at[want][2])
    BY <1>1, <1>2 DEF BitmapInv, Ready
  <2>2. 0 \in base[s]
    BY <1>1, <1>3 DEF BitmapInv, Sound, Agrees, MarksAgree
  <2> HIDE DEF s
  <2> QED
    BY <1>1, <1>2, <1>3, <2>1, <2>2, FoundIs
<1>5. UNCHANGED <<generational, snapshot, tenured, remembered, roots, seglist>>
      /\ (flags' = flags \/ (generational /\ flags' = flags \cup {"major"}))
  <2>1. UNCHANGED <<generational, snapshot, tenured, remembered, roots, seglist>>
    BY DEF TakeBlock
  <2>2. flags' = flags \cup {f \in {"major"} : /\ generational
                                /\ segmentList = <<>> /\ freelist[want] = <<>>
                                /\ liveCount[s] + 1 > Margin[want]}
    BY DEF TakeBlock
  <2> QED
    BY <2>1, <2>2
<1>6. Used' = Used
  BY <1>5 DEF Used, InUse
<1> HIDE DEF s, n
<1>7. <<s, n>> \in Cell /\ IsBlock(<<s, n>>)
  <2>1. n \in Nat /\ n # 0
    BY <1>1, <1>2, <1>4, NodesAre
  <2> QED
    BY <1>1, <1>2, <1>3, <2>1 DEF Cell, IsBlock
<1>8. <<s, n>> \notin Held
  BY <1>4 DEF Held
<1>9. ASSUME NEW o \in live PROVE o = <<s, n>> \/ (o \in Held <=> o \in Held')
  <2>1. o = <<o[1], o[2]>> /\ o[1] \in Segment
    BY DEF TypeOK, Cell
  <2>2. CASE o[1] = s /\ o[2] = n
    BY <2>1, <2>2
  <2>3. CASE o[1] # s
    <3>1. base'[o[1]] = base[o[1]] /\ o \in live'
      BY <1>2, <2>1, <2>3
    <3> QED
      BY <1>6, <3>1 DEF Held
  <2>4. CASE o[1] = s /\ o[2] # n
    <3>1. base'[o[1]] = base[o[1]] \cup {n} /\ o \in live'
      BY <1>2, <2>1, <2>4 DEF TypeOK
    <3> QED
      BY <1>6, <2>4, <3>1 DEF Held
  <2> QED
    BY <2>2, <2>3, <2>4
<1>10. Held' = Held
  <2>1. Held \subseteq live /\ Held' \subseteq live' /\ live' = live \ {<<s, n>>}
    BY <1>2 DEF Held
  <2> QED
    BY <1>8, <1>9, <2>1
<1>11. n \in base'[s]
  BY <1>2 DEF TypeOK
<1> QED
  BY <1>1, <1>2, <1>3, <1>4, <1>5, <1>7, <1>8, <1>10, <1>11

LEMMA NextSegmentKeeps ==
  ASSUME TypeOK, PlaceInv, GraphInv, NextSegment
  PROVE  /\ want \in Klass /\ phase = "search" /\ phase' = "search"
         /\ Held' = Held /\ \A o : IsBlock(o) => IsBlock(o)'
         /\ Used \subseteq Used'
         /\ \A s \in Used : base'[s] = base[s] /\ snapshot'[s] = snapshot[s]
         /\ \A s \in Used' \ Used : base'[s] = Limit /\ snapshot'[s][1] = Limit
         /\ UNCHANGED <<generational, live, ptr, roots, tenured, remembered, want, fresh>>
<1> USE DEF supply, marks, kept, heap, gen, request
<1>1. /\ phase = "search" /\ phase' = "search" /\ want \in Klass
      /\ UNCHANGED <<generational, live, ptr, roots, tenured, remembered, want, fresh>>
  BY DEF NextSegment, GraphInv
<1>2. Fresh(NextPick) /\ NewSegments(NextPick, PassedAt(want), at, snapshot)
  BY <1>1, NextSegmentPlaces
<1>3. /\ Used \subseteq Used' /\ \A k \in Klass : InUse(k) \subseteq InUse(k)'
      /\ \A s \in Used : base'[s] = base[s] /\ snapshot'[s] = snapshot[s]
      /\ \A s \in Used' \ Used : base'[s] = Limit /\ snapshot'[s][1] = Limit
  BY <1>2, NewSegmentsKeep
<1>4. Held' = Held /\ \A o : IsBlock(o) => IsBlock(o)'
  BY <1>1, <1>3, HeldKept
<1> QED
  BY <1>1, <1>3, <1>4

LEMMA SweepKeeps ==
  ASSUME TypeOK, PlaceInv, GraphInv, Sweep
  PROVE  /\ phase = "sweep" /\ phase' = "run"
         /\ Held' = Held /\ \A o : IsBlock(o) => IsBlock(o)'
         /\ Used \subseteq Used'
         /\ \A s \in Used : base'[s] = base[s] /\ snapshot'[s][1] = base[s]
         /\ \A s \in Used' \ Used : base'[s] = Limit /\ snapshot'[s][1] = Limit
         /\ UNCHANGED <<generational, live, ptr, roots, tenured, remembered, want, fresh>>
<1> USE DEF supply, marks, kept, heap, gen, request
<1>1. /\ phase = "sweep" /\ phase' = "run"
      /\ UNCHANGED <<generational, live, ptr, roots, tenured, remembered, want, fresh>>
  BY DEF Sweep
<1>2. Fresh(SweepPick) /\ NewSegments(SweepPick, full, SweepAt, SweepSaved)
  BY SweepPlaces
<1>3. /\ Used \subseteq Used' /\ \A k \in Klass : InUse(k) \subseteq InUse(k)'
      /\ \A s \in Used : base'[s] = base[s] /\ snapshot'[s] = SweepSaved[s]
      /\ \A s \in Used' \ Used : base'[s] = Limit /\ snapshot'[s][1] = Limit
  BY <1>2, NewSegmentsKeep
<1>4. Held' = Held /\ \A o : IsBlock(o) => IsBlock(o)'
  BY <1>1, <1>3, HeldKept
<1>5. \A s \in Used : SweepSaved[s][1] = base[s]
  BY UsedIs DEF SweepSaved
<1> QED
  BY <1>1, <1>3, <1>4, <1>5

(* The steps that change neither the objects nor the marks.                *)
LEMMA GraphKept ==
  ASSUME GraphInv, Held' = Held, \A o : IsBlock(o) => IsBlock(o)',
         UNCHANGED <<live, ptr, roots, want, fresh>>,
         phase = "init" => base' = base,
         phase' = phase \/ (phase \in {"run", "search", "sweep"} /\ phase' = "run")
  PROVE  GraphInv'
<1>1. \A o \in live' : IsBlock(o)'
  BY DEF GraphInv
<1>2. \A e \in ptr' : e[1] \in live' /\ (e[2] \in live' \/ (phase' = "init" /\ e[2] = fresh'))
  BY DEF GraphInv
<1>3. phase' # "init" \/ phase' = phase
  OBVIOUS
<1> QED
  BY <1>1, <1>2, <1>3 DEF GraphInv

LEMMA GraphStep ==
  ASSUME TypeOK, PlaceInv, BitmapInv, GraphInv, AgeInv, [Next]_vars
  PROVE  GraphInv'
<1> USE DEF supply, marks, kept, heap, gen, request
<1>1. /\ roots \subseteq Held \/ phase = "deleted"
      /\ Held \subseteq live
  BY DEF GraphInv, Held
<1>2. ASSUME NEW k \in Klass, AllocObject(k) PROVE GraphInv'
  <2>1. /\ UNCHANGED <<base, seglist, live, ptr, roots>>
        /\ phase = "run" /\ phase' = "search" /\ want' = k
    BY <1>2 DEF AllocObject
  <2>2. Held' = Held /\ \A o : IsBlock(o)' <=> IsBlock(o)
    BY <2>1, SameLists DEF Held
  <2> QED
    BY <2>1, <2>2 DEF GraphInv
<1>3. ASSUME TakeBlock PROVE GraphInv'
  <2>1. /\ want \in Klass /\ phase = "search" /\ phase' = "init"
        /\ fresh' \notin Held /\ IsBlock(fresh') /\ fresh'[2] \in base'[fresh'[1]]
        /\ live' = live \ {fresh'} /\ ptr' = {e \in ptr : e[1] # fresh'}
        /\ Held' = Held /\ roots' = roots /\ seglist' = seglist
    BY <1>3, TakenBlock
  <2>2. want' = want
    BY <1>3 DEF TakeBlock
  <2>3. (\A o : IsBlock(o)' <=> IsBlock(o)) /\ IsBlock(fresh)'
    <3>1. \A k \in Klass : InUse(k)' = InUse(k)
      BY <2>1 DEF InUse
    <3> QED
      BY <2>1, <3>1 DEF IsBlock
  <2>4. \A e \in ptr' : e[1] \in live' /\ (e[2] \in live' \/ e[2] = fresh')
    BY <2>1 DEF GraphInv
  <2>5. Closed(Held', ptr') /\ roots' \subseteq Held'
    BY <2>1 DEF GraphInv, Closed
  <2>6. \A o \in live' : IsBlock(o)'
    BY <2>1, <2>3 DEF GraphInv
  <2> QED
    BY <2>1, <2>2, <2>3, <2>4, <2>5, <2>6 DEF GraphInv
<1>4. ASSUME InitObject PROVE GraphInv'
  <2>1. /\ UNCHANGED <<base, seglist, ptr>> /\ phase = "init" /\ phase' = "run"
        /\ live' = live \cup {fresh} /\ roots' = roots \cup {fresh}
    BY <1>4 DEF InitObject
  <2>2. IsBlock(fresh) /\ fresh \notin live /\ fresh[2] \in base[fresh[1]]
    BY <2>1 DEF GraphInv
  <2>3. Used' = Used /\ \A o : IsBlock(o)' <=> IsBlock(o)
    BY <2>1, SameLists
  <2>4. Held' = Held \cup {fresh}
    BY <2>1, <2>2, <2>3, BlockIs DEF Held
  <2>5. Closed(Held', ptr') /\ roots' \subseteq Held'
    BY <2>1, <2>2, <2>4 DEF GraphInv, Closed
  <2>6. \A e \in ptr' : e[1] \in live' /\ e[2] \in live'
    BY <2>1 DEF GraphInv
  <2>7. \A o \in live' : IsBlock(o)'
    BY <2>1, <2>2, <2>3 DEF GraphInv
  <2> QED
    BY <2>1, <2>5, <2>6, <2>7 DEF GraphInv
<1>5. ASSUME PopSegment PROVE GraphInv'
  <2>1. UNCHANGED <<base, seglist, live, ptr, roots, want, fresh, phase>>
    BY <1>5 DEF PopSegment
  <2>2. Held' = Held /\ \A o : IsBlock(o)' <=> IsBlock(o)
    BY <2>1, SameLists DEF Held
  <2> QED
    BY <2>1, <2>2, GraphKept
<1>6. ASSUME NextSegment PROVE GraphInv'
  <2>1. /\ Held' = Held /\ \A o : IsBlock(o) => IsBlock(o)'
        /\ UNCHANGED <<live, ptr, roots, want, fresh>> /\ phase' = phase /\ phase = "search"
    BY <1>6, NextSegmentKeeps
  <2> QED
    BY <2>1, GraphKept
<1>7. ASSUME NEW o \in roots, Drop(o) PROVE GraphInv'
  <2>1. UNCHANGED <<base, seglist, live, ptr, want, fresh, phase>> /\ roots' \subseteq roots /\ phase = "run"
    BY <1>7 DEF Drop
  <2>2. Held' = Held /\ \A p : IsBlock(p)' <=> IsBlock(p)
    BY <2>1, SameLists DEF Held
  <2> QED
    BY <2>1, <2>2 DEF GraphInv
<1>8. ASSUME NEW e \in ptr, Load(e[2]) PROVE GraphInv'
  <2>1. /\ UNCHANGED <<base, seglist, live, ptr, want, fresh, phase>>
        /\ roots' = roots \cup {e[2]} /\ phase = "run"
        /\ \E r \in roots : <<r, e[2]>> \in ptr
    BY <1>8 DEF Load
  <2>2. Held' = Held /\ \A p : IsBlock(p)' <=> IsBlock(p)
    BY <2>1, SameLists DEF Held
  <2>3. e[2] \in Held
    BY <2>1 DEF GraphInv, Closed
  <2> QED
    BY <2>1, <2>2, <2>3 DEF GraphInv
<1>9. ASSUME NEW e \in ptr, Erase(e[1], e[2]) PROVE GraphInv'
  <2>1. /\ UNCHANGED <<base, seglist, live, roots, want, fresh, phase>>
        /\ ptr' \subseteq ptr /\ phase = "run"
    BY <1>9 DEF Erase
  <2>2. Held' = Held /\ \A p : IsBlock(p)' <=> IsBlock(p)
    BY <2>1, SameLists DEF Held
  <2> QED
    BY <2>1, <2>2 DEF GraphInv, Closed
<1>10. ASSUME NEW o \in roots, NEW p \in roots, Store(o, p) PROVE GraphInv'
  <2>1. /\ UNCHANGED <<base, seglist, live, roots, want, fresh, phase>>
        /\ ptr' = ptr \cup {<<o, p>>} /\ phase = "run"
    BY <1>10 DEF Store
  <2>2. Held' = Held /\ \A q : IsBlock(q)' <=> IsBlock(q)
    BY <2>1, SameLists DEF Held
  <2>3. o \in live /\ p \in Held /\ p \in live
    BY <1>1, <2>1
  <2>4. Closed(Held', ptr') /\ roots' \subseteq Held'
    BY <1>1, <2>1, <2>2, <2>3 DEF GraphInv, Closed
  <2>5. \A e \in ptr' : e[1] \in live' /\ e[2] \in live'
    BY <2>1, <2>3 DEF GraphInv
  <2> QED
    BY <2>1, <2>2, <2>4, <2>5 DEF GraphInv
<1>11. ASSUME DeleteGcContext PROVE GraphInv'
  BY <1>11 DEF DeleteGcContext, GraphInv
<1>12. ASSUME Mark PROVE GraphInv'
  <2>1. /\ live' = live /\ ptr' = ptr
        /\ \A o \in live : IsBlock(o)' <=> IsBlock(o)
        /\ phase = "run" /\ phase' = "sweep"
    BY <1>12, MarkedObjects
  <2>2. roots' \subseteq Held' /\ Closed(Held', ptr')
    BY <1>12, MarkCloses
  <2> QED
    BY <2>1, <2>2 DEF GraphInv
<1>13. ASSUME Sweep PROVE GraphInv'
  <2>1. /\ Held' = Held /\ \A o : IsBlock(o) => IsBlock(o)'
        /\ UNCHANGED <<live, ptr, roots, want, fresh>> /\ phase = "sweep" /\ phase' = "run"
    BY <1>13, SweepKeeps
  <2> QED
    BY <2>1, GraphKept
<1>14. CASE UNCHANGED vars
  <2>1. UNCHANGED <<base, seglist, live, ptr, roots, want, fresh, phase>>
    BY <1>14 DEF vars
  <2>2. Held' = Held /\ \A o : IsBlock(o)' <=> IsBlock(o)
    BY <2>1, SameLists DEF Held
  <2> QED
    BY <2>1, <2>2, GraphKept
<1> QED
  BY <1>2, <1>3, <1>4, <1>5, <1>6, <1>7, <1>8, <1>9, <1>10, <1>11, <1>12, <1>13, <1>14 DEF Next

(* The steps that change neither the marks nor the snapshots.              *)
LEMMA AgeKept ==
  ASSUME AgeInv, UNCHANGED <<generational, base, snapshot, seglist, live, ptr, tenured, remembered, fresh>>,
         flags' = flags \/ generational,
         phase' = phase \/ (Allocating /\ phase' \in {"search", "deleted"})
  PROVE  AgeInv'
<1>1. Used' = Used
  BY SameLists
<1>2. Held' = Held /\ \A o : Tenure(o)' <=> Tenure(o)
  BY <1>1 DEF Held, Tenure
<1>3. phase' # "sweep" \/ phase' = phase
  OBVIOUS
<1>4. phase' # "init" \/ phase' = phase
  OBVIOUS
<1>5. Allocating' => Allocating
  BY DEF Allocating
<1> QED
  BY <1>1, <1>2, <1>3, <1>4, <1>5 DEF AgeInv

LEMMA AgeStep ==
  ASSUME TypeOK, PlaceInv, BitmapInv, GraphInv, AgeInv, [Next]_vars
  PROVE  AgeInv'
<1> USE DEF supply, marks, kept, heap, gen, request
<1>1. ASSUME NEW k \in Klass, AllocObject(k) PROVE AgeInv'
  BY <1>1, AgeKept DEF AllocObject, Allocating
<1>2. ASSUME TakeBlock PROVE AgeInv'
  <2>1. /\ phase = "search" /\ phase' = "init"
        /\ fresh' \in Cell /\ fresh'[2] \notin base[fresh'[1]] /\ fresh'[1] \in Used
        /\ live' = live \ {fresh'} /\ ptr' = {e \in ptr : e[1] # fresh'}
        /\ base' = [base EXCEPT ![fresh'[1]] = @ \cup {fresh'[2]}]
        /\ seglist' = seglist
        /\ UNCHANGED <<generational, snapshot, tenured, remembered>>
        /\ (flags' = flags \/ (generational /\ flags' = flags \cup {"major"}))
    BY <1>2, TakenBlock
  <2>2. Used' = Used
    BY <2>1, SameLists
  <2>3. \A o : Tenure(o)' <=> Tenure(o)
    BY <2>1, <2>2 DEF Tenure
  <2>4. Allocating
    BY <2>1 DEF Allocating
  <2>5. \A s \in Used : base[s] \subseteq base'[s]
    BY <2>1, UsedIs DEF TypeOK
  <2>6. \A s \in Used : snapshot[s][1] \subseteq base[s]
    BY <2>4 DEF AgeInv
  <2>7. ~Tenure(fresh')
    BY <2>1, <2>6 DEF Tenure
  <2>8. ~ Tenure(fresh)'
    BY <2>1, <2>2, <2>7 DEF Tenure
  <2>9. \A s \in Used' : snapshot'[s][1] \subseteq base'[s]
    BY <2>1, <2>2, <2>5, <2>6
  <2>10. generational' => \A e \in ptr' : Tenure(e[1])' => Tenure(e[2])' \/ e[1] \in remembered'
    BY <2>1, <2>3, <2>4 DEF AgeInv
  <2>11. \A o \in live' : Tenure(o)' => o \in tenured'
    BY <2>1, <2>3, <2>4 DEF AgeInv
  <2>12. ~generational' => flags' = {} /\ phase' # "sweep"
    BY <2>1 DEF AgeInv
  <2> QED
    BY <2>1, <2>8, <2>9, <2>10, <2>11, <2>12 DEF AgeInv
<1>3. ASSUME InitObject PROVE AgeInv'
  <2>1. /\ UNCHANGED <<generational, base, snapshot, seglist, ptr, remembered, flags>>
        /\ phase = "init" /\ phase' = "run" /\ Allocating
        /\ live' = live \cup {fresh} /\ tenured' = tenured \ {fresh}
    BY <1>3 DEF InitObject, Allocating
  <2>2. Used' = Used
    BY <2>1, SameLists
  <2>3. \A o : Tenure(o)' <=> Tenure(o)
    BY <2>1, <2>2 DEF Tenure
  <2>4. ~Tenure(fresh) /\ fresh \notin live
    BY <2>1 DEF AgeInv, GraphInv
  <2>5. \A o \in live' : Tenure(o)' => o \in tenured'
    BY <2>1, <2>3, <2>4 DEF AgeInv
  <2>6. generational' => \A e \in ptr' : Tenure(e[1])' => Tenure(e[2])' \/ e[1] \in remembered'
    BY <2>1, <2>3 DEF AgeInv
  <2>7. \A s \in Used' : snapshot'[s][1] \subseteq base'[s]
    BY <2>1, <2>2 DEF AgeInv
  <2>8. ~generational' => flags' = {}
    BY <2>1 DEF AgeInv
  <2> QED
    BY <2>1, <2>5, <2>6, <2>7, <2>8 DEF AgeInv
<1>4. ASSUME PopSegment PROVE AgeInv'
  BY <1>4, AgeKept DEF PopSegment
<1>5. ASSUME NextSegment PROVE AgeInv'
  <2>1. /\ phase = "search" /\ phase' = "search"
        /\ Used \subseteq Used'
        /\ \A s \in Used : base'[s] = base[s] /\ snapshot'[s] = snapshot[s]
        /\ \A s \in Used' \ Used : base'[s] = Limit /\ snapshot'[s][1] = Limit
        /\ UNCHANGED <<generational, live, ptr, roots, tenured, remembered>>
    BY <1>5, NextSegmentKeeps
  <2>2. Allocating
    BY <2>1 DEF Allocating
  <2>3. \A o \in live : o[1] \in Used /\ (Tenure(o)' <=> Tenure(o))
    <3>1. \A o \in live : o[1] \in Used
      BY BlockIs DEF GraphInv
    <3> QED
      BY <2>1, <3>1 DEF Tenure
  <2>4. \A e \in ptr : e[1] \in live /\ e[2] \in live
    BY <2>1 DEF GraphInv
  <2>5. generational' => \A e \in ptr' : Tenure(e[1])' => Tenure(e[2])' \/ e[1] \in remembered'
    BY <2>1, <2>2, <2>3, <2>4 DEF AgeInv
  <2>6. \A o \in live' : Tenure(o)' => o \in tenured'
    BY <2>1, <2>2, <2>3 DEF AgeInv
  <2>7. \A s \in Used' : snapshot'[s][1] \subseteq base'[s]
    BY <2>1, <2>2 DEF AgeInv
  <2>8. ~generational' => flags' = {}
    <3>1. ~generational => flags' = flags
      BY <1>5 DEF NextSegment
    <3> QED
      BY <2>1, <3>1 DEF AgeInv
  <2> QED
    BY <2>1, <2>5, <2>6, <2>7, <2>8 DEF AgeInv
<1>6. ASSUME NEW o \in roots, Drop(o) PROVE AgeInv'
  BY <1>6, AgeKept DEF Drop
<1>7. ASSUME NEW e \in ptr, Load(e[2]) PROVE AgeInv'
  BY <1>7, AgeKept DEF Load
<1>8. ASSUME NEW e \in ptr, Erase(e[1], e[2]) PROVE AgeInv'
  <2>1. /\ UNCHANGED <<generational, base, snapshot, seglist, live, tenured, flags, phase>>
        /\ ptr' \subseteq ptr /\ remembered \subseteq remembered' /\ phase = "run"
    BY <1>8 DEF Erase, Remember
  <2>2. Used' = Used /\ Allocating
    BY <2>1, SameLists DEF Allocating
  <2>3. \A o : Tenure(o)' <=> Tenure(o)
    BY <2>1, <2>2 DEF Tenure
  <2> QED
    BY <2>1, <2>2, <2>3 DEF AgeInv
<1>9. ASSUME NEW o \in roots, NEW p \in roots, Store(o, p) PROVE AgeInv'
  <2>1. /\ UNCHANGED <<generational, base, snapshot, seglist, live, tenured, flags, phase>>
        /\ ptr' = ptr \cup {<<o, p>>} /\ phase = "run"
        /\ remembered \subseteq remembered'
        /\ generational /\ o \in tenured => o \in remembered'
    BY <1>9 DEF Store, Remember
  <2>2. Used' = Used /\ Allocating
    BY <2>1, SameLists DEF Allocating
  <2>3. \A q : Tenure(q)' <=> Tenure(q)
    BY <2>1, <2>2 DEF Tenure
  <2>4. o \in live
    BY <2>1 DEF GraphInv, Held
  <2>5. Tenure(o) => o \in tenured
    BY <2>2, <2>4 DEF AgeInv
  <2>6. generational' => \A e \in ptr' : Tenure(e[1])' => Tenure(e[2])' \/ e[1] \in remembered'
    <3> SUFFICES ASSUME generational, NEW e \in ptr', Tenure(e[1])
                 PROVE  Tenure(e[2]) \/ e[1] \in remembered'
      BY <2>1, <2>3
    <3>1. CASE e \in ptr
      BY <2>1, <2>2, <3>1 DEF AgeInv
    <3>2. CASE e = <<o, p>>
      BY <2>1, <2>5, <3>2
    <3> QED
      BY <2>1, <3>1, <3>2
  <2> QED
    BY <2>1, <2>2, <2>3, <2>6 DEF AgeInv
<1>10. ASSUME DeleteGcContext PROVE AgeInv'
  BY <1>10 DEF DeleteGcContext, AgeInv, Allocating
<1>11. ASSUME Mark PROVE AgeInv'
  <2>1. /\ NewMarks \subseteq live
        /\ \A o \in live : o \in Held' <=> MarkedAt(o) \/ o \in NewMarks
        /\ Major => \A o \in live : ~MarkedAt(o)
        /\ ~Major => \A o \in live : MarkedAt(o) <=> Tenure(o)
        /\ live' = live /\ phase = "run" /\ phase' = "sweep"
    BY <1>11, MarkedObjects
  <2>2. tenured' = tenured \cup NewMarks /\ flags # {} /\ flags' = {} /\ generational' = generational
    BY <1>11, MarkIs DEF Mark
  <2>3. generational
    BY <2>2 DEF AgeInv
  <2>4. \A o \in live : Tenure(o) => o \in tenured
    BY <2>1 DEF AgeInv, Allocating
  <2>5. Held' \subseteq live
    BY <2>1 DEF Held
  <2>6. Held' \subseteq tenured'
    BY <2>1, <2>2, <2>4, <2>5
  <2>7. ~Allocating'
    BY <2>1 DEF Allocating
  <2> QED
    BY <2>1, <2>2, <2>3, <2>6, <2>7 DEF AgeInv
<1>12. ASSUME Sweep PROVE AgeInv'
  <2>1. /\ phase = "sweep" /\ phase' = "run"
        /\ Held' = Held /\ Used \subseteq Used'
        /\ \A s \in Used : base'[s] = base[s] /\ snapshot'[s][1] = base[s]
        /\ \A s \in Used' \ Used : base'[s] = Limit /\ snapshot'[s][1] = Limit
        /\ UNCHANGED <<generational, live, ptr, tenured>>
    BY <1>12, SweepKeeps
  <2>2. generational /\ Held \subseteq tenured
    BY <2>1 DEF AgeInv
  <2>3. \A o \in live : o[1] \in Used /\ (Tenure(o)' <=> o \in Held)
    <3>1. \A o \in live : o[1] \in Used
      BY BlockIs DEF GraphInv
    <3> QED
      BY <2>1, <3>1 DEF Tenure, Held
  <2>4. \A e \in ptr : e[1] \in live /\ e[2] \in live
    BY <2>1 DEF GraphInv
  <2>5. \A e \in ptr' : Tenure(e[1])' => Tenure(e[2])'
    BY <2>1, <2>3, <2>4 DEF GraphInv, Closed
  <2>6. \A o \in live' : Tenure(o)' => o \in tenured'
    BY <2>1, <2>2, <2>3
  <2>7. \A s \in Used' : snapshot'[s][1] \subseteq base'[s]
    BY <2>1
  <2> QED
    BY <2>1, <2>2, <2>5, <2>6, <2>7 DEF AgeInv
<1>13. CASE UNCHANGED vars
  BY <1>13, AgeKept DEF vars
<1> QED
  BY <1>1, <1>2, <1>3, <1>4, <1>5, <1>6, <1>7, <1>8, <1>9, <1>10, <1>11, <1>12, <1>13 DEF Next

(* A class that has just got a segment, or had a segment's worth of free   *)
(* blocks, needs none; the flags a settled program still has.              *)
SettleInv ==
  /\ phase = "sweep" => flags = {}
  /\ phase \in {"search", "init"} => idle = 0
  /\ phase = "run" /\ idle # 0 => flags \subseteq {"major"} /\ \A k \in Klass : ~CheckFull(k)
  /\ phase = "sweep" /\ idle = 2 => \A k \in Klass : ~CheckFull(k)
  /\ phase = "run" /\ idle = 2 => flags = {}

LEMMA CheckFullIs ==
  ASSUME TypeOK, TypeOK', PlaceInv, PlaceInv', NEW k \in Klass
  PROVE  /\ seglist[k] \in Seq(Segment) /\ seglist'[k] \in Seq(Segment)
         /\ CheckFull(k) <=> FullCheck(k, seglist[k], liveCount)
         /\ CheckFull(k)' <=> FullCheck(k, seglist'[k], liveCount')
<1>1. /\ seglist[k] \in Seq(Segment) /\ seglist'[k] \in Seq(Segment)
      /\ IsInjective(seglist[k]) /\ IsInjective(seglist'[k])
  BY DEF TypeOK, PlaceInv, Placed
<1>2. Unfilling(k)' = UnfilledIn(seglist'[k], liveCount', NodeCount(k))
  BY DEF Unfilling, UnfilledIn
<1>3. Dead(k)' = Cardinality(DeadBlocks(k, seglist'[k], liveCount'))
  BY DEF Dead, DeadBlocks, InUse
<1>4. FullCheck(k, seglist'[k], liveCount') <=>
        /\ seglist'[k] # <<>> /\ Cardinality(DeadBlocks(k, seglist'[k], liveCount')) < NodeCount(k)
        /\ Len(UnfilledIn(seglist'[k], liveCount', NodeCount(k))) <= 1
  BY <1>1, FullCheckIs
<1>5. CheckFull(k)' <=> FullCheck(k, seglist'[k], liveCount')
  BY <1>2, <1>3, <1>4 DEF CheckFull
<1> QED
  BY <1>1, <1>5, UnfillingIs

(* A major collection marks what is reachable, and that was marked before. *)
LEMMA MajorMarks ==
  ASSUME TypeOK, PlaceInv, GraphInv, Mark, Major, ~Minor
  PROVE  /\ NewMarks = Reachable(roots, ptr) /\ NewMarks \subseteq Held
         /\ Held' = NewMarks
<1>1. /\ NewMarks \subseteq live
      /\ \A o \in live : o \in Held' <=> MarkedAt(o) \/ o \in NewMarks
      /\ \A o \in live : ~MarkedAt(o)
      /\ live' = live /\ phase = "run"
  BY MarkedObjects
<1>2. roots \subseteq Held /\ Closed(Held, ptr) /\ Held \subseteq live
  BY <1>1 DEF GraphInv, Held
<1>3. Visited = roots
  BY DEF Visited
<1>4. {o \in Visited : ~MarkedAt(o)} = roots
  BY <1>1, <1>2, <1>3
<1>5. {e \in ptr : ~MarkedAt(e[1]) /\ ~MarkedAt(e[2])} = ptr
  BY <1>1 DEF GraphInv
<1>6. NewMarks = Reachable(roots, ptr)
  BY <1>4, <1>5 DEF NewMarks
<1>7. Held' \subseteq live
  BY <1>1 DEF Held
<1> QED
  BY <1>1, <1>2, <1>6, <1>7, ReachableInClosed

LEMMA MajorCounts ==
  ASSUME TypeOK, TypeOK', PlaceInv, PlaceInv', BitmapInv, BitmapInv', GraphInv, Mark, Major, ~Minor,
         NEW k \in Klass, NEW s \in InUse(k)
  PROVE  liveCount'[s] \in Nat /\ liveCount[s] \in Nat /\ liveCount'[s] <= liveCount[s]
<1>1. /\ NewMarks \subseteq Held
  BY MajorMarks
<1>2. /\ base' = [t \in Segment |->
              IF t \in Used THEN StartMarks(t)[1] \cup NewIn(t) ELSE base[t]]
      /\ phase = "run" /\ phase' = "sweep"
  BY MarkIs
<1>3. s \in Used /\ s \in Segment /\ s \in InUse(k)'
  <2>1. InUse(k)' = InUse(k)
    BY DEF Mark, InUse, supply
  <2> QED
    BY <2>1, KlassOfOne, UsedIs
<1>4. base'[s] = Limit \cup NewIn(s)
  BY <1>2, <1>3 DEF StartMarks
<1>5. /\ base[s] \subseteq Node(k) /\ 0 \in base[s] /\ liveCount[s] = Cardinality(base[s]) - 1
      /\ base'[s] \subseteq Node(k) /\ liveCount'[s] = Cardinality(base'[s]) - 1
  BY <1>2, <1>3 DEF BitmapInv, Sound, Agrees, MarksAgree
<1>6. base'[s] \subseteq base[s]
  <2>1. ASSUME NEW n \in NewIn(s) PROVE n \in base[s]
    <3>1. <<s, n>> \in Held
      BY <1>1 DEF NewIn
    <3> QED
      BY <3>1 DEF Held
  <2> QED
    BY <1>4, <1>5, <2>1 DEF Limit
<1>7. IsFiniteSet(base[s]) /\ Cardinality(base[s]) \in Nat
  BY <1>5, NodesFinite, FS_Subset, FS_CardinalityType
<1>8. Cardinality(base'[s]) \in Nat /\ Cardinality(base'[s]) <= Cardinality(base[s])
  BY <1>6, <1>7, FS_Subset, FS_CardinalityType
<1>9. liveCount[s] \in Nat /\ liveCount'[s] \in Nat
  BY <1>3 DEF TypeOK
<1> QED
  BY <1>5, <1>7, <1>8, <1>9

LEMMA SettleKept ==
  ASSUME SettleInv, UNCHANGED <<seglist, liveCount, flags, phase, idle>>
  PROVE  SettleInv'
<1>1. \A k \in Klass : CheckFull(k)' <=> CheckFull(k)
  BY DEF CheckFull, Dead, Unfilling, InUse
<1> QED
  BY <1>1 DEF SettleInv

LEMMA SettleStep ==
  ASSUME TypeOK, TypeOK', PlaceInv, PlaceInv', BitmapInv, BitmapInv', GraphInv, SettleInv, [Next]_vars
  PROVE  SettleInv'
<1> USE DEF supply, marks, kept, heap, gen, request
<1>1. ASSUME NEW k \in Klass, AllocObject(k) PROVE SettleInv'
  BY <1>1 DEF AllocObject, SettleInv
<1>2. ASSUME TakeBlock PROVE SettleInv'
  BY <1>2 DEF TakeBlock, SettleInv
<1>3. ASSUME InitObject PROVE SettleInv'
  BY <1>3 DEF InitObject, SettleInv
<1>4. ASSUME PopSegment PROVE SettleInv'
  BY <1>4 DEF PopSegment, SettleInv
<1>5. ASSUME NextSegment PROVE SettleInv'
  BY <1>5 DEF NextSegment, SettleInv
<1>6. ASSUME NEW o \in roots, Drop(o) PROVE SettleInv'
  BY <1>6, SettleKept DEF Drop
<1>7. ASSUME NEW e \in ptr, Load(e[2]) PROVE SettleInv'
  BY <1>7, SettleKept DEF Load
<1>8. ASSUME NEW e \in ptr, Erase(e[1], e[2]) PROVE SettleInv'
  BY <1>8, SettleKept DEF Erase
<1>9. ASSUME NEW o \in roots, NEW p \in roots, Store(o, p) PROVE SettleInv'
  BY <1>9, SettleKept DEF Store
<1>10. ASSUME DeleteGcContext PROVE SettleInv'
  BY <1>10 DEF DeleteGcContext, SettleInv
<1>11. ASSUME Mark PROVE SettleInv'
  <2>1. /\ phase = "run" /\ flags # {} /\ flags' = {} /\ phase' = "sweep"
        /\ idle' = IF idle < 2 THEN idle + 1 ELSE 2
        /\ seglist' = seglist
    BY <1>11 DEF Mark
  <2>2. idle' = 2 => idle # 0
    BY <2>1 DEF TypeOK
  <2>3. ASSUME idle # 0, NEW k \in Klass PROVE ~CheckFull(k)'
    <3>1. flags = {"major"} /\ ~CheckFull(k)
      BY <2>1, <2>3 DEF SettleInv
    <3>2. Major /\ ~Minor
      BY <3>1 DEF Major, Minor
    <3>3. /\ seglist[k] \in Seq(Segment)
          /\ CheckFull(k) <=> FullCheck(k, seglist[k], liveCount)
          /\ CheckFull(k)' <=> FullCheck(k, seglist[k], liveCount')
      BY <2>1, CheckFullIs
    <3>4. \A s \in Range(seglist[k]) :
            liveCount[s] \in Nat /\ liveCount'[s] \in Nat /\ liveCount'[s] <= liveCount[s]
      BY <1>11, <3>2, MajorCounts DEF InUse
    <3> QED
      BY <3>1, <3>3, <3>4, FewerMarks
  <2> QED
    BY <2>1, <2>2, <2>3 DEF SettleInv
<1>12. ASSUME Sweep PROVE SettleInv'
  <2>1. phase = "sweep" /\ phase' = "run" /\ idle' = idle /\ liveCount' = liveCount
    BY <1>12 DEF Sweep
  <2>2. \A k \in Klass : Placed(k) /\ IsInjective(seglist[k])
    BY DEF PlaceInv, Placed
  <2>3. flags' = IF Needy # {} THEN flags \cup {"major"} ELSE flags
    BY <1>12, <2>2, SweepIs
  <2>4. flags = {} /\ (idle = 2 => Needy = {})
    BY <2>1 DEF SettleInv, Needy
  <2>5. Fresh(SweepPick) /\ NewSegments(SweepPick, full, SweepAt, SweepSaved)
    BY <1>12, SweepPlaces
  <2>6. \A k \in Klass : SweepPick[k] # 0 <=> k \in Needy
    BY <1>12, <2>2, SweepIs
  <2>7. ASSUME NEW k \in Klass PROVE ~CheckFull(k)'
    <3>1. /\ seglist[k] \in Seq(Segment) /\ seglist'[k] \in Seq(Segment)
          /\ CheckFull(k) <=> FullCheck(k, seglist[k], liveCount)
          /\ CheckFull(k)' <=> FullCheck(k, seglist'[k], liveCount')
      BY CheckFullIs
    <3>2. CASE k \in Needy
      <4>1. SweepPick[k] # 0 /\ SweepPick[k] \in Segment \ Used
        BY <2>5, <2>6, <3>2 DEF Fresh
      <4>2. SweepPick[k] \in Range(seglist'[k])
        <5>1. InUse(k)' = InUse(k) \cup ({SweepPick[k]} \ {0})
          BY <2>2, <2>5, NewSegmentsPlaces
        <5> QED
          BY <4>1, <5>1 DEF InUse
      <4>3. liveCount'[SweepPick[k]] = 0
        BY <2>1, <4>1 DEF PlaceInv
      <4> QED
        BY <3>1, <4>2, <4>3, NotFullNow
    <3>3. CASE k \notin Needy
      <4>1. SweepPick[k] = 0 /\ ~CheckFull(k)
        BY <2>6, <3>3 DEF Needy
      <4>2. seglist' = [j \in Klass |->
               IF SweepPick[j] = 0 THEN seglist[j] ELSE Append(seglist[j], SweepPick[j])]
        BY <2>5 DEF NewSegments
      <4>3. seglist'[k] = seglist[k]
        BY <4>1, <4>2
      <4> QED
        BY <2>1, <3>1, <4>1, <4>3
    <3> QED
      BY <3>2, <3>3
  <2>8. flags' \subseteq {"major"} /\ (idle = 2 => flags' = {})
    BY <2>3, <2>4
  <2> QED
    BY <2>1, <2>7, <2>8 DEF SettleInv
<1>13. CASE UNCHANGED vars
  BY <1>13, SettleKept DEF vars
<1> QED
  BY <1>1, <1>2, <1>3, <1>4, <1>5, <1>6, <1>7, <1>8, <1>9, <1>10, <1>11, <1>12, <1>13 DEF Next

IInv == PlaceInv /\ BitmapInv /\ GraphInv /\ AgeInv /\ SettleInv

LEMMA InitInvariants == Init => TypeOK /\ IInv
<1> SUFFICES ASSUME Init PROVE TypeOK /\ IInv
  OBVIOUS
<1>1. /\ PoolSegments \in Nat \ {0} /\ MaxSegments \in Nat /\ PoolSegments <= MaxSegments
      /\ MinorCount \in Nat \ {0}
  BY HeapAssumption
<1>2. /\ segmentList \in Seq(Segment) /\ IsInjective(segmentList)
      /\ Range(segmentList) = 1 .. PoolSegments
  <2>1. segmentList = [i \in 1 .. PoolSegments |-> i] /\ 1 .. PoolSegments \subseteq Segment
    BY <1>1 DEF Init, Segment
  <2>2. segmentList \in Seq(Segment)
    BY <1>1, <2>1, SeqDef
  <2> QED
    BY <2>1, <2>2 DEF IsInjective, Range
<1>3. <<>> \in Seq(Segment) /\ Range(<<>>) = {} /\ IsInjective(<<>>)
  BY EmptySeq DEF Range, IsInjective
<1>4. \A k \in Klass : /\ seglist[k] = <<>> /\ freelist[k] = <<>> /\ at[k] = <<0, 0>>
                       /\ InUse(k) = {}
  BY <1>3 DEF Init, InUse
<1>5. Used = {}
  BY <1>4 DEF Used
<1>6. TypeOK
  <2>1. DOMAIN at = Klass /\ \A k \in Klass : at[k] \in (Segment \cup {0}) \X Bit(k)
    BY BitsAre DEF Init
  <2>2. segments \in 0 .. MaxSegments
    BY <1>1 DEF Init
  <2>3. minorLeft \in [Klass -> 0 .. MinorCount - 1]
    BY <1>1 DEF Init
  <2>4. snapshot \in [Segment -> (SUBSET Nat) \X (SUBSET Nat)]
    BY DEF Init
  <2> QED
    BY <1>2, <1>3, <2>1, <2>2, <2>3, <2>4 DEF Init, TypeOK
<1>7. PlaceInv
  <2>1. \A k \in Klass : Placed(k)
    BY <1>3, <1>4 DEF Placed
  <2> QED
    BY <1>1, <1>2, <1>5, <2>1 DEF Init, PlaceInv
<1>8. BitmapInv
  BY <1>3, <1>4 DEF BitmapInv, Ready
<1>9. GraphInv /\ AgeInv /\ SettleInv
  BY <1>5 DEF Init, GraphInv, AgeInv, SettleInv, Held, Closed
<1> QED
  BY <1>6, <1>7, <1>8, <1>9 DEF IInv

LEMMA NextInvariants ==
  ASSUME TypeOK, IInv, [Next]_vars
  PROVE  TypeOK' /\ IInv'
<1>1. PlaceInv /\ BitmapInv /\ GraphInv /\ AgeInv /\ SettleInv
  BY DEF IInv
<1>2. \A k \in Klass : IsInjective(seglist[k])
  BY <1>1 DEF PlaceInv, Placed
<1>3. phase \in {"search", "init"} => want \in Klass
  BY <1>1 DEF GraphInv
<1>4. phase = "init" => fresh \in Cell
  <2> SUFFICES ASSUME phase = "init" PROVE fresh \in Cell
    OBVIOUS
  <2>1. fresh[1] \in Used
    BY <1>1, BlockIs DEF GraphInv
  <2>2. fresh # <<0, 0>>
    BY <2>1, UsedIs
  <2> QED
    BY <2>2 DEF TypeOK
<1>5. TypeOK'
  BY <1>2, <1>3, <1>4, TypeStep
<1>6. PlaceInv'
  BY <1>1, <1>3, PlaceStep
<1>7. BitmapInv'
  BY <1>1, <1>3, BitmapStep
<1>8. GraphInv' /\ AgeInv'
  BY <1>1, GraphStep, AgeStep
<1>9. SettleInv'
  BY <1>1, <1>5, <1>6, <1>7, SettleStep
<1> QED
  BY <1>5, <1>6, <1>7, <1>8, <1>9 DEF IInv

THEOREM InductiveInvariant == Spec => [](TypeOK /\ IInv)
BY InitInvariants, NextInvariants, PTL DEF Spec

(* The variables keep their types, with the classes, the blocks, the words *)
(* and the margins of any build: every segment number, block, word and     *)
(* pointer is one that exists (HeapManager_ExpandHeap, BitPtr0_inc).       *)
THEOREM TypeCorrect == Spec => []TypeOK
BY InductiveInvariant, PTL

(* No segment is at two places, and one put back for allocation has a free *)
(* block that findNextFreeNode finds (nextSegment, rearrangeSegList,       *)
(* newSegment).                                                            *)
THEOREM SegmentsArePlaced == Spec => []SegmentsPlaced
<1>1. TypeOK /\ IInv => SegmentsPlaced
  <2> SUFFICES ASSUME TypeOK, IInv PROVE SegmentsPlaced
    OBVIOUS
  <2>1. PlaceInv /\ BitmapInv /\ \A k \in Klass : Placed(k)
    BY DEF IInv, PlaceInv
  <2>2. Range(segmentList) \subseteq Segment
    BY RangeIs DEF TypeOK
  <2>3. \A s \in Range(segmentList) : s \notin Used /\ liveCount[s] = 0
    BY <2>1, <2>2 DEF PlaceInv
  <2>4. ASSUME NEW k \in Klass, Allocating, NEW s \in Range(freelist[k])
        PROVE  s \in InUse(k) \ {at[k][1]} /\ FoundIn(k, s, 0) # {}
    BY <2>1, <2>4 DEF Placed, BitmapInv, Ready
  <2> QED
    BY <2>1, <2>3, <2>4 DEF PlaceInv, Placed, SegmentsPlaced, Allocating
<1> QED
  BY <1>1, InductiveInvariant, PTL

(* live_count is the number of marks, and level 1 hides no free block, of  *)
(* the marks and of the snapshot (BITMAP_MARK, findNextFreeNode,           *)
(* bmgc_gc_mark, bmgc_gc_sweep).                                           *)
THEOREM BitmapsAreSound == Spec => []BitmapSound
<1>1. TypeOK /\ IInv => BitmapSound
  BY DEF IInv, BitmapInv, Sound, Agrees, BitmapSound
<1> QED
  BY <1>1, InductiveInvariant, PTL

(* What is reachable is held, whatever the phase.                          *)
LEMMA ReachableIsHeld ==
  ASSUME GraphInv PROVE Reachable(roots, ptr) \subseteq Held
<1>1. CASE phase # "deleted"
  BY <1>1, ReachableInClosed DEF GraphInv
<1>2. CASE phase = "deleted"
  <2>1. roots = {} /\ Closed({}, ptr)
    BY <1>2 DEF GraphInv, Closed
  <2>2. Reachable(roots, ptr) \subseteq {}
    BY <2>1, ReachableInClosed
  <2> QED
    BY <2>2
<1> QED
  BY <1>1, <1>2

(* No block of an object that the program can reach is ever free for an    *)
(* allocation, whatever collections ran before (bmgc_gc_mark, tryAlloc).   *)
THEOREM ReachableIsMarked == Spec => []ReachableMarked
<1>1. TypeOK /\ IInv => ReachableMarked
  BY ReachableIsHeld DEF IInv, Held, ReachableMarked
<1> QED
  BY <1>1, InductiveInvariant, PTL

(* A field of a tenured object that holds a young one is remembered        *)
(* (Kwrite_barrier, RememberSet_Add, mark_mstack).                         *)
THEOREM YoungAreRemembered == Spec => []YoungRemembered
<1>1. TypeOK /\ IInv => YoungRemembered
  BY DEF IInv, AgeInv, YoungRemembered, Allocating, TypeOK
<1> QED
  BY <1>1, InductiveInvariant, PTL

(* A second collection with no allocation since the first asks for no      *)
(* third (rearrangeSegList, bmgc_gc_sweep).                                *)
THEOREM CollectionSettles == Spec => []CollectSettles
<1>1. TypeOK /\ IInv => CollectSettles
  BY DEF IInv, SettleInv, CollectSettles
<1> QED
  BY <1>1, InductiveInvariant, PTL

LEMMA OnlyMark ==
  ASSUME [Next]_vars, phase = "run", phase' = "sweep" PROVE Mark
BY DEF Next, vars, AllocObject, TakeBlock, InitObject, PopSegment, NextSegment, Drop, Load,
       Erase, Store, DeleteGcContext, Sweep

(* A major collection leaves marks on the objects that are reachable and   *)
(* on no other (bmgc_gc_mark).                                             *)
THEOREM MajorIsExact == Spec => MajorExact
<1>1. TypeOK /\ IInv /\ [Next]_vars => MarksExactly
  <2> SUFFICES ASSUME TypeOK, IInv, [Next]_vars, phase = "run", phase' = "sweep", flags = {"major"}
               PROVE  {o \in live : o[1] \in Used /\ o[2] \in base'[o[1]]} = Reachable(roots, ptr)
    BY DEF MarksExactly
  <2>1. Mark /\ Major /\ ~Minor /\ PlaceInv /\ GraphInv
    BY OnlyMark DEF Major, Minor, IInv
  <2>2. Held' = Reachable(roots, ptr)
    BY <2>1, MajorMarks
  <2>3. live' = live /\ Used' = Used
    BY <2>1, MarkedObjects
  <2> QED
    BY <2>2, <2>3 DEF Held
<1> QED
  BY <1>1, InductiveInvariant, PTL DEF Spec, MajorExact

(***************************************************************************)
(* The collector implements ObjectHeap.                                    *)
(***************************************************************************)

LEMMA SameReachable == \A R, E : Heap!Reachable(R, E) = Reachable(R, E)
BY DEF Heap!Reachable, Heap!Touched, Heap!Closed, Reachable, Touched, Closed

(* An object goes when its block is taken again, one comes when the header *)
(* of the block is set; a collection changes nothing there.                *)
LEMMA HeapStep ==
  ASSUME TypeOK, IInv, [Next]_vars PROVE [Heap!Next]_(Heap!heapVars)
<1> USE DEF Heap!Next, Heap!heapVars, supply, marks, kept, heap, gen, request
<1>1. PlaceInv /\ BitmapInv /\ GraphInv
  BY DEF IInv
<1>2. ASSUME NEW k \in Klass, AllocObject(k) PROVE UNCHANGED Heap!heapVars
  BY <1>2 DEF AllocObject
<1>3. ASSUME TakeBlock PROVE [Heap!Next]_(Heap!heapVars)
  <2> DEFINE x == fresh'
  <2>1. /\ x \notin Held /\ live' = live \ {x} /\ ptr' = {e \in ptr : e[1] # x}
        /\ roots' = roots /\ phase = "search" /\ phase' = "init"
    BY <1>1, <1>3, TakenBlock
  <2> HIDE DEF x
  <2>2. x \notin Reachable(roots, ptr)
    BY <1>1, <2>1, ReachableIsHeld
  <2>3. CASE x \in live
    <3>1. Heap!Reclaim(x)
      BY <2>1, <2>2, <2>3, SameReachable DEF Heap!Reclaim
    <3>2. x \in live \ live'
      BY <2>1, <2>3
    <3> QED
      BY <3>1, <3>2
  <2>4. CASE x \notin live
    <3>1. live' = live
      BY <2>1, <2>4
    <3>2. ptr' = ptr
      BY <1>1, <2>1, <2>4 DEF GraphInv
    <3> QED
      BY <2>1, <3>1, <3>2
  <2> QED
    BY <2>3, <2>4
<1>4. ASSUME InitObject PROVE Heap!Next
  <2>1. /\ phase = "init" /\ phase' = "run" /\ live' = live \cup {fresh}
        /\ roots' = roots \cup {fresh} /\ ptr' = ptr
    BY <1>4 DEF InitObject
  <2>2. fresh \notin live /\ fresh[1] \in Used
    BY <1>1, <2>1, BlockIs DEF GraphInv
  <2>3. fresh \in Segment \X Nat
    <3>1. fresh # <<0, 0>>
      BY <2>2, UsedIs
    <3> QED
      BY <3>1 DEF TypeOK, Cell
  <2>4. Heap!Alloc(fresh)
    BY <2>1, <2>2, <2>3 DEF Heap!Alloc
  <2>5. fresh \in live' \ live
    BY <2>1, <2>2
  <2> QED
    BY <2>4, <2>5
<1>5. ASSUME PopSegment \/ NextSegment PROVE UNCHANGED Heap!heapVars
  BY <1>5 DEF PopSegment, NextSegment
<1>6. ASSUME NEW o \in roots, Drop(o) PROVE Heap!Next
  BY <1>6 DEF Drop, Heap!Drop
<1>7. ASSUME NEW e \in ptr, Load(e[2]) PROVE Heap!Next
  BY <1>7 DEF Load, Heap!Load
<1>8. ASSUME NEW e \in ptr, Erase(e[1], e[2]) PROVE Heap!Next
  BY <1>8 DEF Erase, Heap!Erase
<1>9. ASSUME NEW o \in roots, NEW p \in roots, Store(o, p) PROVE Heap!Next
  BY <1>9 DEF Store, Heap!Store
<1>10. ASSUME DeleteGcContext PROVE Heap!Next
  BY <1>10 DEF DeleteGcContext, Heap!Delete
<1>11. ASSUME Mark PROVE UNCHANGED Heap!heapVars
  BY <1>11 DEF Mark
<1>12. ASSUME Sweep PROVE UNCHANGED Heap!heapVars
  BY <1>12 DEF Sweep
<1>13. ASSUME UNCHANGED vars PROVE UNCHANGED Heap!heapVars
  BY <1>13 DEF vars
<1> QED
  BY <1>2, <1>3, <1>4, <1>5, <1>6, <1>7, <1>8, <1>9, <1>10, <1>11, <1>12, <1>13 DEF Next

(* bmgc.h is a heap: a program sees objects go only when nothing leads to  *)
(* them, though they go at allocations and not at collections.             *)
THEOREM ImplementsHeap == Spec => HeapSpec
<1>1. Init => Heap!Init
  BY DEF Init, Heap!Init
<1> QED
  BY <1>1, HeapStep, InductiveInvariant, PTL DEF Spec, HeapSpec, Heap!Spec
============================================================================
