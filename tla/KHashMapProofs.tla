---------------------------- MODULE KHashMapProofs ----------------------------
(***************************************************************************)
(* What TLAPS proves of KHashMap.tla, for every set of names and hashes,   *)
(* any size of the first arena and of the first table, and any number of   *)
(* growths.                                                                *)
(***************************************************************************)
EXTENDS KHashMap, FiniteSetTheorems, SequenceTheorems, WellFoundedInduction, TLAPS

(***************************************************************************)
(* Chains.  nx gives the next entry of each, or 0.                         *)
(***************************************************************************)
Edges(nx)    == {<<c, nx[c]>> : c \in {d \in DOMAIN nx : nx[d] # 0}}
Reach(nx, c) == IF c = 0 THEN {} ELSE Reachable({c}, Edges(nx))
Nexts(D)     == [D -> D \cup {0}]

LEMMA ReachClosed ==
  ASSUME NEW D, NEW nx \in Nexts(D), NEW c \in D \cup {0}, 0 \notin D
  PROVE  /\ Reach(nx, c) \subseteq D
         /\ c # 0 => c \in Reach(nx, c)
         /\ \A x \in Reach(nx, c) : nx[x] # 0 => nx[x] \in Reach(nx, c)
<1>1. CASE c = 0
  BY <1>1 DEF Reach
<1>2. CASE c # 0
  <2> DEFINE E == Edges(nx)
             T == Touched({c}, E)
  <2>1. DOMAIN nx = D
    BY DEF Nexts
  <2>2. \A d \in E : d[1] \in D /\ d[2] \in D /\ d[2] = nx[d[1]]
    BY <2>1 DEF Edges, Nexts
  <2>3. T \subseteq D
    BY <1>2, <2>2 DEF Touched
  <2>4. Reach(nx, c) = Reachable({c}, E)
    BY <1>2 DEF Reach
  <2>5. Reachable({c}, E) \subseteq T
    BY DEF Reachable
  <2>6. c \in Reachable({c}, E)
    BY DEF Reachable, Touched
  <2>7. ASSUME NEW x \in Reachable({c}, E), nx[x] # 0
        PROVE  nx[x] \in Reachable({c}, E)
    <3>1. x \in D
      BY <2>3, <2>5
    <3>2. <<x, nx[x]>> \in E
      BY <2>1, <2>7, <3>1 DEF Edges
    <3>3. nx[x] \in T
      BY <3>2 DEF Touched
    <3> HIDE DEF E
    <3>4. ASSUME NEW S \in SUBSET T, {c} \subseteq S, Closed(S, E)
          PROVE  nx[x] \in S
      <4>1. x \in S
        BY <3>4 DEF Reachable
      <4> QED
        BY <3>2, <3>4, <4>1 DEF Closed
    <3> QED
      BY <3>3, <3>4 DEF Reachable
  <2> QED
    BY <2>3, <2>4, <2>5, <2>6, <2>7
<1> QED
  BY <1>1, <1>2

LEMMA ReachLeast ==
  ASSUME NEW D, NEW nx \in Nexts(D), NEW c \in D \cup {0}, 0 \notin D,
         NEW S, c # 0 => c \in S, \A x \in S \cap D : nx[x] # 0 => nx[x] \in S
  PROVE  Reach(nx, c) \subseteq S
<1>1. CASE c = 0
  BY <1>1 DEF Reach
<1>2. CASE c # 0
  <2> DEFINE E == Edges(nx)
             T == S \cap Touched({c}, E)
  <2>1. {c} \subseteq T /\ T \in SUBSET Touched({c}, E)
    BY <1>2 DEF Touched
  <2>2. Closed(T, E)
    <3> SUFFICES ASSUME NEW d \in E, d[1] \in T PROVE d[2] \in T
      BY DEF Closed
    <3>1. d[1] \in D /\ d[2] = nx[d[1]] /\ d[2] # 0
      BY DEF Edges, Nexts
    <3>2. d[2] \in Touched({c}, E)
      BY DEF Touched
    <3> QED
      BY <3>1, <3>2
  <2>3. Reachable({c}, E) \subseteq T
    BY <2>1, <2>2 DEF Reachable
  <2> QED
    BY <1>2, <2>3 DEF Reach
<1> QED
  BY <1>1, <1>2

(* Two chains are equal if the links are the same on one of them.          *)
LEMMA ReachSame ==
  ASSUME NEW D, NEW nx \in Nexts(D), NEW ny \in Nexts(D),
         NEW c \in D \cup {0}, 0 \notin D,
         \A x \in Reach(nx, c) : ny[x] = nx[x]
  PROVE  Reach(ny, c) = Reach(nx, c)
<1> DEFINE A == Reach(nx, c)
           B == Reach(ny, c)
<1>1. A \subseteq D /\ (c # 0 => c \in A) /\ \A x \in A : nx[x] # 0 => nx[x] \in A
  BY ReachClosed
<1>2. B \subseteq D /\ (c # 0 => c \in B) /\ \A x \in B : ny[x] # 0 => ny[x] \in B
  BY ReachClosed
<1>3. B \subseteq A
  <2>1. \A x \in A \cap D : ny[x] # 0 => ny[x] \in A
    BY <1>1
  <2> HIDE DEF A
  <2> QED
    BY <1>1, <2>1, ReachLeast
<1>4. A \subseteq B
  <2> DEFINE C == A \cap B
  <2>1. \A x \in C \cap D : nx[x] # 0 => nx[x] \in C
    BY <1>1, <1>2
  <2>2. c # 0 => c \in C
    BY <1>1, <1>2
  <2> HIDE DEF C
  <2>3. A \subseteq C
    BY <2>1, <2>2, ReachLeast
  <2> QED
    BY <2>3 DEF C
<1> QED
  BY <1>3, <1>4

(* The chain from an entry is the entry and the chain from its next one.   *)
LEMMA ReachStep ==
  ASSUME NEW D, NEW nx \in Nexts(D), NEW c \in D, 0 \notin D
  PROVE  Reach(nx, c) = {c} \cup Reach(nx, nx[c])
<1> DEFINE A == Reach(nx, c)
           B == Reach(nx, nx[c])
<1>0. nx[c] \in D \cup {0}
  BY DEF Nexts
<1>1. A \subseteq D /\ c \in A /\ \A x \in A : nx[x] # 0 => nx[x] \in A
  BY ReachClosed
<1>2. B \subseteq D /\ (nx[c] # 0 => nx[c] \in B) /\ \A x \in B : nx[x] # 0 => nx[x] \in B
  BY <1>0, ReachClosed
<1>3. B \subseteq A
  <2> HIDE DEF A
  <2> QED
    BY <1>0, <1>1, ReachLeast
<1>4. A \subseteq {c} \cup B
  <2> DEFINE C == {c} \cup B
  <2>1. \A x \in C \cap D : nx[x] # 0 => nx[x] \in C
    BY <1>2
  <2> HIDE DEF C
  <2>2. c \in C
    BY DEF C
  <2>3. A \subseteq C
    BY <2>1, <2>2, ReachLeast
  <2> QED
    BY <2>3 DEF C
<1> QED
  BY <1>1, <1>3, <1>4

(***************************************************************************)
(* A table: n heads h, the free list from u.  B gives the entries of each  *)
(* chain, F those that are free.                                           *)
(***************************************************************************)
Heads(n, D) == [0 .. n - 1 -> D \cup {0}]
NoPointer(D, nx, n, h, c) ==
  /\ \A p \in D : nx[p] # c
  /\ \A b \in 0 .. n - 1 : h[b] # c
OnePointer(D, nx, n, h, c) ==
  /\ \A p, q \in D : nx[p] = c /\ nx[q] = c => p = q
  /\ \A b, d \in 0 .. n - 1 : h[b] = c /\ h[d] = c => b = d
  /\ \A p \in D, b \in 0 .. n - 1 : nx[p] # c \/ h[b] # c
  /\ (\E p \in D : nx[p] = c) \/ (\E b \in 0 .. n - 1 : h[b] = c)
Shape(D, nx, n, h, u) ==
  /\ 0 \notin D /\ n \in Nat
  /\ nx \in Nexts(D) /\ h \in Heads(n, D) /\ u \in D \cup {0}
Pointed(D, nx, n, h, u) ==
  \A c \in D : /\ c = u => NoPointer(D, nx, n, h, c)
               /\ c # u => OnePointer(D, nx, n, h, c)
Apart(D, n, B, F) ==
  /\ B \in [0 .. n - 1 -> SUBSET D] /\ F \subseteq D
  /\ \A c \in D : c \notin F => \E b \in 0 .. n - 1 : c \in B[b]
  /\ \A b \in 0 .. n - 1 : B[b] \cap F = {}
  /\ \A b, d \in 0 .. n - 1 : b # d => B[b] \cap B[d] = {}
Sound(D, nx, n, h, u, B, F) ==
  /\ Shape(D, nx, n, h, u) /\ Pointed(D, nx, n, h, u) /\ Apart(D, n, B, F)
  /\ Reach(nx, u) = F
  /\ \A b \in 0 .. n - 1 : Reach(nx, h[b]) = B[b]

(* The first free entry becomes the head of a chain (KHashMap_newEntry).   *)
LEMMA Insert ==
  ASSUME NEW D, NEW nx, NEW n, NEW h, NEW u, NEW B, NEW F,
         Sound(D, nx, n, h, u, B, F), u # 0, NEW b \in 0 .. n - 1
  PROVE  Sound(D, [nx EXCEPT ![u] = h[b]], n, [h EXCEPT ![b] = u], nx[u],
               [B EXCEPT ![b] = B[b] \cup {u}], F \ {u})
<1> DEFINE ny == [nx EXCEPT ![u] = h[b]]
           g  == [h EXCEPT ![b] = u]
           C  == [B EXCEPT ![b] = B[b] \cup {u}]
<1>1. /\ 0 \notin D /\ n \in Nat /\ nx \in Nexts(D) /\ h \in Heads(n, D) /\ u \in D
      /\ h[b] \in D \cup {0} /\ nx[u] \in D \cup {0}
  BY DEF Sound, Shape, Heads, Nexts
<1>2. /\ B \in [0 .. n - 1 -> SUBSET D] /\ F \subseteq D
      /\ \A c \in D : c \notin F => \E d \in 0 .. n - 1 : c \in B[d]
      /\ \A c \in 0 .. n - 1 : B[c] \cap F = {}
      /\ \A c, d \in 0 .. n - 1 : c # d => B[c] \cap B[d] = {}
  BY DEF Sound, Apart
<1>3. Reach(nx, u) = F /\ \A d \in 0 .. n - 1 : Reach(nx, h[d]) = B[d]
  BY DEF Sound
<1>4. u \in F
  BY <1>1, <1>3, ReachClosed
<1>5. \A p \in D : nx[p] # u
  BY <1>1 DEF Sound, Pointed, NoPointer
<1>6. \A d \in 0 .. n - 1 : h[d] # u
  BY <1>1 DEF Sound, Pointed, NoPointer
<1>7. /\ ny \in Nexts(D) /\ ny[u] = h[b]
      /\ \A c \in D : c # u => ny[c] = nx[c]
  BY <1>1 DEF Nexts
<1>8. /\ g \in Heads(n, D) /\ g[b] = u
      /\ \A d \in 0 .. n - 1 : d # b => g[d] = h[d]
  BY <1>1 DEF Heads
<1>9. /\ C[b] = B[b] \cup {u} /\ \A d \in 0 .. n - 1 : d # b => C[d] = B[d]
      /\ C \in [0 .. n - 1 -> SUBSET D]
  BY <1>1, <1>2
<1> HIDE DEF ny, g, C
<1>10. Shape(D, ny, n, g, nx[u])
  BY <1>1, <1>7, <1>8 DEF Shape
<1>11. Apart(D, n, C, F \ {u})
  <2>1. ASSUME NEW c \in D, c \notin F \ {u}
        PROVE  \E d \in 0 .. n - 1 : c \in C[d]
    BY <1>2, <1>9, <2>1
  <2>2. ASSUME NEW d \in 0 .. n - 1
        PROVE  C[d] \cap (F \ {u}) = {}
    BY <1>2, <1>9
  <2>3. ASSUME NEW c \in 0 .. n - 1, NEW d \in 0 .. n - 1, c # d
        PROVE  C[c] \cap C[d] = {}
    BY <1>2, <1>4, <1>9, <2>3
  <2> QED
    BY <1>2, <1>9, <2>1, <2>2, <2>3 DEF Apart
<1>12. Reach(ny, nx[u]) = F \ {u}
  <2>1. F = {u} \cup Reach(nx, nx[u])
    BY <1>1, <1>3, ReachStep
  <2>2. u \notin Reach(nx, nx[u])
    <3>1. nx[u] # u
      BY <1>1, <1>5
    <3>2. Reach(nx, nx[u]) \subseteq D \ {u}
      <4>1. nx[u] # 0 => nx[u] \in D \ {u}
        BY <1>1, <3>1
      <4>2. \A x \in (D \ {u}) \cap D : nx[x] # 0 => nx[x] \in D \ {u}
        BY <1>1, <1>5 DEF Nexts
      <4> QED
        BY <1>1, <4>1, <4>2, ReachLeast
    <3> QED
      BY <3>2
  <2>3. Reach(nx, nx[u]) \subseteq D
    BY <1>1, ReachClosed
  <2>4. \A x \in Reach(nx, nx[u]) : ny[x] = nx[x]
    BY <1>7, <2>2, <2>3
  <2>5. Reach(ny, nx[u]) = Reach(nx, nx[u])
    BY <1>1, <1>7, <2>4, ReachSame
  <2> QED
    BY <2>1, <2>2, <2>5
<1>13. ASSUME NEW d \in 0 .. n - 1
       PROVE  Reach(ny, h[d]) = B[d]
  <2>1. h[d] \in D \cup {0}
    BY <1>1 DEF Heads
  <2>2. \A x \in Reach(nx, h[d]) : ny[x] = nx[x]
    BY <1>2, <1>3, <1>4, <1>7
  <2>3. Reach(ny, h[d]) = Reach(nx, h[d])
    BY <1>1, <1>7, <2>1, <2>2, ReachSame
  <2> QED
    BY <1>3, <2>3
<1>14. ASSUME NEW d \in 0 .. n - 1
       PROVE  Reach(ny, g[d]) = C[d]
  <2>1. CASE d = b
    <3>1. Reach(ny, u) = {u} \cup Reach(ny, ny[u])
      BY <1>1, <1>7, ReachStep
    <3>2. Reach(ny, ny[u]) = B[b]
      BY <1>7, <1>13
    <3>3. g[d] = u /\ C[d] = B[b] \cup {u}
      BY <1>8, <1>9, <2>1
    <3> QED
      BY <3>1, <3>2, <3>3
  <2>2. CASE d # b
    BY <1>8, <1>9, <1>13, <2>2
  <2> QED
    BY <2>1, <2>2
<1>15. ASSUME NEW c \in D
       PROVE  /\ c = nx[u] => NoPointer(D, ny, n, g, c)
              /\ c # nx[u] => OnePointer(D, ny, n, g, c)
  <2>1. CASE c = nx[u]
    <3>1. c # u /\ OnePointer(D, nx, n, h, c)
      BY <1>1, <1>5, <2>1 DEF Sound, Pointed
    <3>2. \A p \in D : p # u => nx[p] # c
      BY <1>1, <2>1, <3>1 DEF OnePointer
    <3>3. \A d \in 0 .. n - 1 : h[d] # c
      BY <1>1, <2>1, <3>1 DEF OnePointer
    <3> QED
      BY <1>7, <1>8, <2>1, <3>1, <3>2, <3>3 DEF NoPointer
  <2>2. CASE c # nx[u] /\ c = u
    <3>1. ny[u] # u
      BY <1>6, <1>7
    <3>2. \A p \in D : ny[p] # c
      BY <1>5, <1>7, <2>2, <3>1
    <3>3. \A d \in 0 .. n - 1 : g[d] = c => d = b
      BY <1>6, <1>8, <2>2
    <3> QED
      BY <1>8, <2>2, <3>2, <3>3 DEF OnePointer
  <2>3. CASE c # nx[u] /\ c # u
    <3>1. /\ \A p, q \in D : nx[p] = c /\ nx[q] = c => p = q
          /\ \A e1, d \in 0 .. n - 1 : h[e1] = c /\ h[d] = c => e1 = d
          /\ \A p \in D, d \in 0 .. n - 1 : nx[p] # c \/ h[d] # c
          /\ (\E p \in D : nx[p] = c) \/ (\E d \in 0 .. n - 1 : h[d] = c)
      BY <2>3 DEF Sound, Pointed, OnePointer
    <3>2. \A p \in D : ny[p] = c <=> IF p = u THEN h[b] = c ELSE nx[p] = c
      BY <1>7
    <3>3. \A d \in 0 .. n - 1 : g[d] = c <=> d # b /\ h[d] = c
      BY <1>8, <2>3
    <3>4. /\ \A p, q \in D : ny[p] = c /\ ny[q] = c => p = q
          /\ \A e1, d \in 0 .. n - 1 : g[e1] = c /\ g[d] = c => e1 = d
      BY <3>1, <3>2, <3>3
    <3>5. \A p \in D, d \in 0 .. n - 1 : ny[p] # c \/ g[d] # c
      BY <3>1, <3>2, <3>3
    <3>6. (\E p \in D : ny[p] = c) \/ (\E d \in 0 .. n - 1 : g[d] = c)
      <4>1. CASE \E p \in D : nx[p] = c
        <5>1. PICK p \in D : nx[p] = c
          BY <4>1
        <5>2. p # u /\ ny[p] = c
          BY <2>3, <3>2, <5>1
        <5> QED
          BY <5>2
      <4>2. CASE \E d \in 0 .. n - 1 : h[d] = c
        <5>1. PICK d \in 0 .. n - 1 : h[d] = c
          BY <4>2
        <5>2. CASE d = b
          BY <1>1, <3>2, <5>1, <5>2
        <5>3. CASE d # b
          BY <3>3, <5>1, <5>3
        <5> QED
          BY <5>2, <5>3
      <4> QED
        BY <3>1, <4>1, <4>2
    <3> QED
      BY <2>3, <3>4, <3>5, <3>6 DEF OnePointer
  <2> QED
    BY <2>1, <2>2, <2>3
<1>16. Pointed(D, ny, n, g, nx[u])
  BY <1>15 DEF Pointed
<1> QED
  BY <1>10, <1>11, <1>12, <1>14, <1>16 DEF Sound, ny, g, C

(* An entry is taken out of its chain and put at the head of the free list *)
(* (KHashMap_Remove, KHashMap_Unuse).                                      *)
Unlinked(D, nx, u, F, x) ==
  [c \in D |-> IF c = x THEN u ELSE IF c \notin F /\ nx[c] = x THEN nx[x] ELSE nx[c]]
Unheaded(D, nx, h, F, b, x) ==
  IF \A p \in D : p \notin F => nx[p] # x THEN [h EXCEPT ![b] = nx[x]] ELSE h

LEMMA TakeOut ==
  ASSUME NEW D, NEW nx, NEW n, NEW h, NEW u, NEW B, NEW F,
         Sound(D, nx, n, h, u, B, F), NEW b \in 0 .. n - 1, NEW x \in B[b]
  PROVE  Sound(D, Unlinked(D, nx, u, F, x), n, Unheaded(D, nx, h, F, b, x), x,
               [B EXCEPT ![b] = B[b] \ {x}], F \cup {x})
<1> DEFINE ny == Unlinked(D, nx, u, F, x)
           g  == Unheaded(D, nx, h, F, b, x)
           C  == [B EXCEPT ![b] = B[b] \ {x}]
<1>1. /\ 0 \notin D /\ n \in Nat /\ nx \in Nexts(D) /\ h \in Heads(n, D) /\ u \in D \cup {0}
  BY DEF Sound, Shape
<1>2. /\ B \in [0 .. n - 1 -> SUBSET D] /\ F \subseteq D
      /\ \A c \in D : c \notin F => \E d \in 0 .. n - 1 : c \in B[d]
      /\ \A c \in 0 .. n - 1 : B[c] \cap F = {}
      /\ \A c, d \in 0 .. n - 1 : c # d => B[c] \cap B[d] = {}
  BY DEF Sound, Apart
<1>3. Reach(nx, u) = F /\ \A d \in 0 .. n - 1 : Reach(nx, h[d]) = B[d]
  BY DEF Sound
<1>4. x \in D /\ x \notin F /\ x # 0 /\ x # u
  <2>1. u # 0 => u \in F
    BY <1>1, <1>3, ReachClosed
  <2> QED
    BY <1>1, <1>2, <2>1
<1>5. /\ \A c \in D : nx[c] \in D \cup {0}
      /\ \A d \in 0 .. n - 1 : h[d] \in D \cup {0}
  BY <1>1 DEF Nexts, Heads
<1>6. \A c \in F : nx[c] # 0 => nx[c] \in F
  BY <1>1, <1>3, ReachClosed
<1>7. /\ \A d \in 0 .. n - 1 : h[d] # 0 => h[d] \in B[d]
      /\ \A d \in 0 .. n - 1 : \A c \in B[d] : nx[c] # 0 => nx[c] \in B[d]
  BY <1>1, <1>3, <1>5, ReachClosed
<1>8. /\ \A p, q \in D : nx[p] = x /\ nx[q] = x => p = q
      /\ \A p \in D, d \in 0 .. n - 1 : nx[p] # x \/ h[d] # x
      /\ (\E p \in D : nx[p] = x) \/ (\E d \in 0 .. n - 1 : h[d] = x)
  BY <1>4 DEF Sound, Pointed, OnePointer
<1>9. nx[x] # x
  <2> SUFFICES ASSUME nx[x] = x PROVE FALSE
    OBVIOUS
  <2>1. h[b] # 0 => h[b] \in D \ {x}
    BY <1>4, <1>5, <1>8
  <2>2. \A c \in (D \ {x}) \cap D : nx[c] # 0 => nx[c] \in D \ {x}
    BY <1>4, <1>5, <1>8
  <2>3. Reach(nx, h[b]) \subseteq D \ {x}
    <3> DEFINE S == D \ {x}
    <3>1. h[b] # 0 => h[b] \in S
      BY <2>1
    <3>2. \A c \in S \cap D : nx[c] # 0 => nx[c] \in S
      BY <2>2
    <3> HIDE DEF S, ny, g, C
    <3>3. Reach(nx, h[b]) \subseteq S
      BY <1>1, <1>5, <3>1, <3>2, ReachLeast
    <3> QED
      BY <3>3 DEF S
  <2> QED
    BY <1>3, <2>3
<1>10. \A d \in 0 .. n - 1 : h[d] = x => d = b
  BY <1>2, <1>4, <1>7
<1>11. /\ ny \in Nexts(D)
       /\ \A c \in D : ny[c] = IF c = x THEN u ELSE IF nx[c] = x THEN nx[x] ELSE nx[c]
  <2>1. \A c \in D : ny[c] = IF c = x THEN u ELSE IF nx[c] = x THEN nx[x] ELSE nx[c]
    BY <1>4, <1>6 DEF Unlinked
  <2>2. ny = [c \in D |-> ny[c]]
    BY DEF Unlinked
  <2>3. \A c \in D : ny[c] \in D \cup {0}
    BY <1>1, <1>4, <1>5, <2>1
  <2> HIDE DEF ny
  <2> QED
    BY <2>1, <2>2, <2>3 DEF Nexts
<1>12. /\ g \in Heads(n, D)
       /\ \A d \in 0 .. n - 1 : g[d] = IF h[d] = x THEN nx[x] ELSE h[d]
  <2>1. CASE \A p \in D : p \notin F => nx[p] # x
    <3>1. g = [h EXCEPT ![b] = nx[x]]
      BY <2>1 DEF Unheaded
    <3>2. \A p \in D : nx[p] # x
      BY <1>4, <1>6, <2>1
    <3>3. h[b] = x
      BY <1>8, <1>10, <3>2
    <3> HIDE DEF g
    <3> QED
      BY <1>1, <1>4, <1>5, <1>10, <3>1, <3>3 DEF Heads
  <2>2. CASE ~ \A p \in D : p \notin F => nx[p] # x
    <3>1. g = h
      BY <2>2 DEF Unheaded
    <3>2. \A d \in 0 .. n - 1 : h[d] # x
      BY <1>8, <2>2
    <3> HIDE DEF g
    <3> QED
      BY <1>1, <3>1, <3>2
  <2> QED
    BY <2>1, <2>2
<1>13. /\ C[b] = B[b] \ {x} /\ \A d \in 0 .. n - 1 : d # b => C[d] = B[d]
       /\ C \in [0 .. n - 1 -> SUBSET D]
  BY <1>1, <1>2
<1> HIDE DEF ny, g, C
<1>14. Shape(D, ny, n, g, x)
  BY <1>1, <1>4, <1>11, <1>12 DEF Shape
<1>15. Apart(D, n, C, F \cup {x})
  <2>1. ASSUME NEW c \in D, c \notin F \cup {x}
        PROVE  \E d \in 0 .. n - 1 : c \in C[d]
    BY <1>2, <1>13, <2>1
  <2>2. ASSUME NEW d \in 0 .. n - 1
        PROVE  C[d] \cap (F \cup {x}) = {}
    BY <1>2, <1>13
  <2>3. ASSUME NEW c \in 0 .. n - 1, NEW d \in 0 .. n - 1, c # d
        PROVE  C[c] \cap C[d] = {}
    BY <1>2, <1>13, <2>3
  <2> QED
    BY <1>2, <1>4, <1>13, <2>1, <2>2, <2>3 DEF Apart
<1>16. Reach(ny, x) = F \cup {x}
  <2>1. \A c \in Reach(nx, u) : ny[c] = nx[c]
    BY <1>2, <1>3, <1>4, <1>6, <1>11
  <2>2. Reach(ny, u) = F
    BY <1>1, <1>3, <1>11, <2>1, ReachSame
  <2>3. Reach(ny, x) = {x} \cup Reach(ny, ny[x])
    BY <1>1, <1>4, <1>11, ReachStep
  <2> QED
    BY <1>4, <1>11, <2>2, <2>3
<1>17. ASSUME NEW d \in 0 .. n - 1, d # b
       PROVE  Reach(ny, g[d]) = C[d]
  <2>1. x \notin B[d]
    BY <1>2, <1>17
  <2>2. h[d] # x /\ g[d] = h[d]
    BY <1>10, <1>12, <1>17
  <2>3. \A c \in Reach(nx, h[d]) : ny[c] = nx[c]
    BY <1>2, <1>3, <1>4, <1>7, <1>11, <2>1
  <2>4. Reach(ny, h[d]) = Reach(nx, h[d])
    BY <1>1, <1>5, <1>11, <2>3, ReachSame
  <2> QED
    BY <1>3, <1>13, <1>17, <2>2, <2>4
<1>18. Reach(ny, g[b]) = C[b]
  <2> DEFINE S == B[b] \ {x}
             Y == Reach(ny, g[b])
             T == Y \cup {y \in {x} : nx[x] = 0 \/ nx[x] \in Y}
  <2>1. g[b] \in D \cup {0} /\ g[b] = IF h[b] = x THEN nx[x] ELSE h[b]
    BY <1>12 DEF Heads
  <2>2. g[b] # 0 => g[b] \in S
    BY <1>7, <1>9, <2>1
  <2>3. \A c \in S \cap D : ny[c] # 0 => ny[c] \in S
    BY <1>7, <1>9, <1>11
  <2>4. Y \subseteq S
    <3> HIDE DEF S
    <3> QED
      BY <1>1, <1>11, <2>1, <2>2, <2>3, ReachLeast
  <2>5. Y \subseteq D /\ (g[b] # 0 => g[b] \in Y) /\ \A c \in Y : ny[c] # 0 => ny[c] \in Y
    BY <1>1, <1>11, <2>1, ReachClosed
  <2> HIDE DEF Y
  <2>6. h[b] # 0 => h[b] \in T
    BY <2>1, <2>5
  <2>7. \A c \in T \cap D : nx[c] # 0 => nx[c] \in T
    <3> SUFFICES ASSUME NEW c \in T, c \in D, nx[c] # 0 PROVE nx[c] \in T
      OBVIOUS
    <3>1. CASE c = x
      BY <2>4, <3>1
    <3>2. CASE c # x
      <4>1. c \in Y
        BY <3>2
      <4>2. ny[c] = IF nx[c] = x THEN nx[x] ELSE nx[c]
        BY <1>11, <3>2
      <4> QED
        BY <2>5, <4>1, <4>2
    <3> QED
      BY <3>1, <3>2
  <2>8. B[b] \subseteq T
    <3> HIDE DEF T
    <3> QED
      BY <1>1, <1>3, <1>5, <2>6, <2>7, ReachLeast
  <2> QED
    BY <1>13, <2>4, <2>8 DEF Y
<1>19. ASSUME NEW c \in D
       PROVE  /\ c = x => NoPointer(D, ny, n, g, c)
              /\ c # x => OnePointer(D, ny, n, g, c)
  <2>1. CASE c = x
    BY <1>4, <1>9, <1>11, <1>12, <2>1 DEF NoPointer
  <2>2. CASE c # x /\ c = u
    <3>1. /\ \A p \in D : nx[p] # u
          /\ \A d \in 0 .. n - 1 : h[d] # u
      BY <2>2 DEF Sound, Pointed, NoPointer
    <3>2. \A p \in D : ny[p] = c <=> p = x
      BY <1>4, <1>11, <2>2, <3>1
    <3>3. \A d \in 0 .. n - 1 : g[d] # c
      BY <1>4, <1>12, <2>2, <3>1
    <3> QED
      BY <1>4, <2>2, <3>2, <3>3 DEF OnePointer
  <2>3. CASE c # x /\ c # u
    <3>1. /\ \A p, q \in D : nx[p] = c /\ nx[q] = c => p = q
          /\ \A e1, d \in 0 .. n - 1 : h[e1] = c /\ h[d] = c => e1 = d
          /\ \A p \in D, d \in 0 .. n - 1 : nx[p] # c \/ h[d] # c
          /\ (\E p \in D : nx[p] = c) \/ (\E d \in 0 .. n - 1 : h[d] = c)
      BY <2>3 DEF Sound, Pointed, OnePointer
    <3>2. CASE nx[x] = c
      <4>1. \A p \in D : ny[p] = c <=> nx[p] = x
        BY <1>4, <1>9, <1>11, <2>3, <3>1, <3>2
      <4>2. \A d \in 0 .. n - 1 : g[d] = c <=> h[d] = x
        BY <1>4, <1>12, <3>1, <3>2
      <4>3. \A e1, d \in 0 .. n - 1 : h[e1] = x /\ h[d] = x => e1 = d
        BY <1>10
      <4> QED
        BY <1>8, <2>3, <4>1, <4>2, <4>3 DEF OnePointer
    <3>3. CASE nx[x] # c
      <4>1. \A p \in D : ny[p] = c <=> nx[p] = c
        BY <1>11, <2>3, <3>3
      <4>2. \A d \in 0 .. n - 1 : g[d] = c <=> h[d] = c
        BY <1>12, <2>3, <3>3
      <4> QED
        BY <2>3, <3>1, <4>1, <4>2 DEF OnePointer
    <3> QED
      BY <3>2, <3>3
  <2> QED
    BY <2>1, <2>2, <2>3
<1>20. Pointed(D, ny, n, g, x)
  BY <1>19 DEF Pointed
<1> QED
  BY <1>14, <1>15, <1>16, <1>17, <1>18, <1>20 DEF Sound, ny, g, C

(***************************************************************************)
(* Rehashing.                                                              *)
(***************************************************************************)
LEMMA LeastNat ==
  ASSUME NEW T \in SUBSET Nat, T # {}
  PROVE  \E m \in T : \A k \in T : m <= k
<1> DEFINE R == OpToRel(<, Nat)
<1>1. IsWellFoundedOn(R, Nat)
  BY NatLessThanWellFounded
<1>2. \A a, b \in Nat : <<a, b>> \notin R => ~ (a < b)
  BY DEF OpToRel
<1> HIDE DEF R
<1>3. PICK m \in T : \A k \in T : <<k, m>> \notin R
  BY <1>1, WFMin
<1>4. ASSUME NEW k \in T PROVE m <= k
  <2>1. m \in Nat /\ k \in Nat
    OBVIOUS
  <2>2. ~ (k < m)
    BY <1>2, <1>3, <2>1, Zenon
  <2> QED
    BY <2>1, <2>2
<1> QED
  BY <1>4

LEMMA LastIs ==
  ASSUME NEW N \in Nat, NEW S \in SUBSET (1 .. N)
  PROVE  /\ S = {} => Last(S) = 0
         /\ S # {} => Last(S) \in S /\ \A d \in S : d <= Last(S)
<1>1. CASE S = {}
  BY <1>1 DEF Last
<1>2. CASE S # {}
  <2> DEFINE T == {N - c : c \in S}
  <2>0. \A c \in S : c \in 1 .. N
    OBVIOUS
  <2>1. T \in SUBSET Nat /\ T # {}
    <3>1. \A c \in S : N - c \in Nat
      BY <2>0
    <3> QED
      BY <1>2, <3>1, Zenon
  <2> HIDE DEF T
  <2>2. PICK m \in T : \A k \in T : m <= k
    BY <2>1, LeastNat
  <2> USE DEF T
  <2>3. PICK c \in S : m = N - c
    BY <2>2
  <2>4. \A d \in S : d <= c
    <3> SUFFICES ASSUME NEW d \in S PROVE d <= c
      OBVIOUS
    <3>1. m <= N - d
      BY <2>2
    <3>2. c \in 1 .. N /\ d \in 1 .. N
      BY <2>0
    <3> QED
      BY <2>3, <3>1, <3>2
  <2>5. \E y \in S : \A d \in S : d <= y
    BY <2>4
  <2> QED
    BY <1>2, <2>5 DEF Last
<1> QED
  BY <1>1, <1>2

LEMMA LastUnique ==
  ASSUME NEW N \in Nat, NEW S \in SUBSET (1 .. N), NEW c \in S, \A d \in S : d <= c
  PROVE  Last(S) = c
<1>1. Last(S) \in S /\ c <= Last(S)
  BY LastIs
<1>2. Last(S) <= c /\ c \in 1 .. N /\ Last(S) \in 1 .. N
  BY <1>1
<1> QED
  BY <1>1, <1>2

(* Each entry is the head of its chain or the next of another.             *)
LEMMA NextUp ==
  ASSUME NEW N \in Nat, NEW S \in SUBSET (1 .. N), NEW c \in S
  PROVE  Last(S) = c \/ \E d \in S : c < d /\ Last(S \cap (1 .. d - 1)) = c
<1> DEFINE T == {d \in S : c < d}
<1>1. CASE T = {}
  <2>1. \A d \in S : d <= c
    BY <1>1
  <2> QED
    BY <2>1, LastUnique
<1>2. CASE T # {}
  <2>1. T \in SUBSET Nat
    <3>1. \A d \in S : d \in Nat
      OBVIOUS
    <3> QED
      BY <3>1
  <2>2. PICK d \in T : \A k \in T : d <= k
    BY <1>2, <2>1, LeastNat
  <2> DEFINE U == S \cap (1 .. d - 1)
  <2>3. U \in SUBSET (1 .. N) /\ c \in U /\ \A k \in U : k <= c
    BY <2>2
  <2> HIDE DEF U
  <2>4. Last(U) = c
    BY <2>3, LastUnique
  <2> QED
    BY <2>2, <2>4 DEF U
<1> QED
  BY <1>1, <1>2

(* KHashMap_Rehash and KHashMap_MakeFreeList of an arena of N entries   *)
(* that are all in use, which M free ones follow.                          *)
OldIn(N, bk, b) == {c \in 1 .. N : bk[c] = b}
Relinked(N, M, bk) ==
  [c \in 1 .. N + M |-> IF c <= N THEN Last(OldIn(N, bk, bk[c]) \cap (1 .. c - 1))
                        ELSE IF c < N + M THEN c + 1 ELSE 0]

LEMMA Rebuild ==
  ASSUME NEW N \in Nat, NEW M \in Nat \ {0}, NEW n \in Nat, NEW bk \in [1 .. N -> 0 .. n - 1]
  PROVE  Sound(1 .. N + M, Relinked(N, M, bk), n,
               [b \in 0 .. n - 1 |-> Last(OldIn(N, bk, b))], N + 1,
               [b \in 0 .. n - 1 |-> OldIn(N, bk, b)], (N + 1) .. (N + M))
<1> DEFINE D  == 1 .. N + M
           nx == Relinked(N, M, bk)
           h  == [b \in 0 .. n - 1 |-> Last(OldIn(N, bk, b))]
           B  == [b \in 0 .. n - 1 |-> OldIn(N, bk, b)]
           F  == (N + 1) .. (N + M)
           O(b) == OldIn(N, bk, b)
           P(c) == O(bk[c]) \cap (1 .. c - 1)
<1>1. \A b : O(b) \in SUBSET (1 .. N)
  BY DEF OldIn
<1>2. \A c \in 1 .. N : bk[c] \in 0 .. n - 1 /\ c \in O(bk[c]) /\ P(c) \in SUBSET (1 .. N)
  BY DEF OldIn
<1>3. /\ \A c \in 1 .. N : nx[c] = Last(P(c))
      /\ \A c \in F : nx[c] = IF c < N + M THEN c + 1 ELSE 0
  BY DEF Relinked
<1>4. ASSUME NEW c \in 1 .. N
      PROVE  /\ nx[c] \in 0 .. N
             /\ nx[c] # 0 => nx[c] \in O(bk[c]) /\ nx[c] < c
             /\ \A d \in O(bk[c]) : d < c => d <= nx[c]
  <2> DEFINE S == O(bk[c])
             U == S \cap (1 .. c - 1)
  <2>0. S \in SUBSET (1 .. N)
    BY <1>1
  <2>1. U \in SUBSET (1 .. N) /\ nx[c] = Last(U)
    BY <1>2, <1>3
  <2> HIDE DEF nx, S
  <2>2. \A d \in S : d < c => d \in U
    BY <2>0
  <2>3. \A d \in U : d \in S /\ d < c /\ d \in 1 .. N
    BY <2>0
  <2> HIDE DEF U
  <2>4. U = {} => nx[c] = 0
    BY <2>1, LastIs
  <2>5. U # {} => nx[c] \in U /\ \A d \in U : d <= nx[c]
    BY <2>1, LastIs
  <2>6. nx[c] \in 0 .. N /\ (nx[c] # 0 => nx[c] \in S /\ nx[c] < c)
    BY <2>3, <2>4, <2>5
  <2>7. \A d \in S : d < c => d <= nx[c]
    BY <2>2, <2>5
  <2> QED
    BY <2>6, <2>7 DEF S
<1>5. ASSUME NEW b \in 0 .. n - 1
      PROVE  /\ h[b] \in 0 .. N
             /\ h[b] # 0 => h[b] \in O(b)
             /\ \A d \in O(b) : d <= h[b]
  <2> DEFINE S == O(b)
  <2>1. S \in SUBSET (1 .. N) /\ h[b] = Last(S)
    BY <1>1
  <2> HIDE DEF h, S
  <2>2. S = {} => Last(S) = 0
    BY <2>1, LastIs
  <2>3. S # {} => Last(S) \in S /\ \A d \in S : d <= Last(S)
    BY <2>1, LastIs
  <2>4. /\ h[b] \in 0 .. N
        /\ h[b] # 0 => h[b] \in S
        /\ \A d \in S : d <= h[b]
    <3>1. CASE S = {}
      BY <2>1, <2>2, <3>1
    <3>2. CASE S # {}
      <4>1. Last(S) \in S /\ Last(S) \in 1 .. N /\ \A d \in S : d <= Last(S)
        BY <2>1, <2>3, <3>2
      <4> QED
        BY <2>1, <4>1
    <3> QED
      BY <3>1, <3>2
  <2> QED
    BY <2>4 DEF S
<1>6. \A b \in 0 .. n - 1 : B[b] = O(b)
  OBVIOUS
<1>7. \A c : c \in D <=> c \in 1 .. N \/ c \in F
  OBVIOUS
<1>8. \A c \in 1 .. N : c \notin F
  OBVIOUS
<1>9. ASSUME NEW b, NEW c \in O(b)
      PROVE  /\ c \in 1 .. N /\ b = bk[c] /\ b \in 0 .. n - 1
             /\ h[b] = c \/ \E d \in O(b) : c < d /\ nx[d] = c
  <2>1. c \in 1 .. N /\ b = bk[c] /\ b \in 0 .. n - 1
    BY DEF OldIn
  <2>2. O(b) \in SUBSET (1 .. N)
    BY <1>1
  <2> DEFINE S == O(b)
  <2>3. h[b] = Last(S)
    BY <2>1
  <2>4. \A d \in S : nx[d] = Last(S \cap (1 .. d - 1))
    BY <1>3 DEF OldIn
  <2> HIDE DEF S, nx, h
  <2>5. Last(S) = c \/ \E d \in S : c < d /\ Last(S \cap (1 .. d - 1)) = c
    BY <2>2, NextUp DEF S
  <2> QED
    BY <2>1, <2>3, <2>4, <2>5 DEF S
<1>10. Shape(D, nx, n, h, N + 1)
  <2>1. ASSUME NEW c \in D PROVE nx[c] \in D \cup {0}
    <3>1. CASE c \in 1 .. N
      <4>1. nx[c] \in 0 .. N
        BY <1>4, <3>1
      <4> HIDE DEF nx
      <4> QED
        BY <4>1
    <3>2. CASE c \in F
      <4>1. nx[c] = IF c < N + M THEN c + 1 ELSE 0
        BY <1>3, <3>2
      <4> HIDE DEF nx
      <4> QED
        BY <3>2, <4>1
    <3> QED
      BY <1>7, <3>1, <3>2
  <2>2. nx \in Nexts(D)
    <3>1. nx = [c \in D |-> nx[c]]
      BY DEF Relinked
    <3> HIDE DEF nx, D
    <3> QED
      BY <2>1, <3>1 DEF Nexts
  <2>3. h \in Heads(n, D)
    <3>1. h = [b \in 0 .. n - 1 |-> h[b]]
      OBVIOUS
    <3>2. \A b \in 0 .. n - 1 : h[b] \in D \cup {0}
      <4> HIDE DEF h
      <4> QED
        BY <1>5
    <3> HIDE DEF h, D
    <3> QED
      BY <3>1, <3>2 DEF Heads
  <2>4. 0 \notin D /\ N + 1 \in D
    OBVIOUS
  <2> QED
    BY <2>2, <2>3, <2>4 DEF Shape
<1>11. 0 \notin D /\ nx \in Nexts(D) /\ N + 1 \in D
  BY <1>10 DEF Shape
<1> HIDE DEF nx, h, B, O, P
<1>12. ASSUME NEW b \in 0 .. n - 1 PROVE Reach(nx, h[b]) = O(b)
  <2> DEFINE S == O(b)
             Y == Reach(nx, h[b])
  <2>1. h[b] \in D \cup {0}
    BY <1>5
  <2>2. \A c \in S \cap D : nx[c] # 0 => nx[c] \in S
    BY <1>4, <1>9
  <2>3. h[b] # 0 => h[b] \in S
    BY <1>5
  <2> HIDE DEF S, D
  <2>4. Y \subseteq S
    BY <1>11, <2>1, <2>2, <2>3, ReachLeast
  <2>5. (h[b] # 0 => h[b] \in Y) /\ \A c \in Y : nx[c] # 0 => nx[c] \in Y
    BY <1>11, <2>1, ReachClosed
  <2> HIDE DEF Y
  <2>6. S \subseteq Y
    <3> SUFFICES ASSUME S \ Y # {} PROVE FALSE
      OBVIOUS
    <3>1. S \ Y \in SUBSET (1 .. N)
      BY <1>1 DEF S
    <3> DEFINE z == Last(S \ Y)
    <3>2. z \in S \ Y /\ \A d \in S \ Y : d <= z
      BY <3>1, LastIs
    <3> HIDE DEF z
    <3>3. z \in 1 .. N /\ (h[b] = z \/ \E d \in S : z < d /\ nx[d] = z)
      BY <1>9, <3>2 DEF S
    <3>4. CASE h[b] = z
      BY <2>5, <3>2, <3>3, <3>4
    <3>5. CASE \E d \in S : z < d /\ nx[d] = z
      <4>1. PICK d \in S : z < d /\ nx[d] = z
        BY <3>5
      <4>2. d \in 1 .. N
        BY <1>1 DEF S
      <4>3. d \in Y
        BY <3>2, <3>3, <4>1, <4>2
      <4> QED
        BY <2>5, <3>2, <3>3, <4>1, <4>3
    <3> QED
      BY <3>3, <3>4, <3>5
  <2> QED
    BY <2>4, <2>6 DEF S, Y
<1>13. Reach(nx, N + 1) = F
  <2> DEFINE Y == Reach(nx, N + 1)
  <2>1. ASSUME NEW c \in F, nx[c] # 0 PROVE nx[c] \in F
    BY <1>3, <2>1
  <2>2. N + 1 \in F
    OBVIOUS
  <2>3. Y \subseteq F
    <3> HIDE DEF D, F
    <3> QED
      BY <1>11, <2>1, <2>2, ReachLeast
  <2>4. N + 1 \in Y /\ \A c \in Y : nx[c] # 0 => nx[c] \in Y
    <3>1. N + 1 # 0
      OBVIOUS
    <3> QED
      BY <1>11, <3>1, ReachClosed
  <2> HIDE DEF Y
  <2>5. F \subseteq Y
    <3> SUFFICES ASSUME F \ Y # {} PROVE FALSE
      OBVIOUS
    <3>1. F \ Y \in SUBSET Nat
      OBVIOUS
    <3>2. PICK m \in F \ Y : \A k \in F \ Y : m <= k
      BY <3>1, LeastNat
    <3>3. m # N + 1
      BY <2>4, <3>2
    <3> DEFINE p == m - 1
    <3>4. p \in F /\ p + 1 = m /\ ~ (m <= p) /\ p < N + M /\ m # 0
      BY <3>2, <3>3
    <3> HIDE DEF p, F
    <3>5. p \in Y
      BY <3>2, <3>4
    <3>6. nx[p] = m
      BY <1>3, <3>4
    <3> QED
      BY <2>4, <3>2, <3>4, <3>5, <3>6
  <2> QED
    BY <2>3, <2>5 DEF Y
<1>14. Apart(D, n, B, F)
  <2>1. B \in [0 .. n - 1 -> SUBSET D]
    <3>1. B = [b \in 0 .. n - 1 |-> B[b]]
      BY DEF B
    <3>2. \A b \in 0 .. n - 1 : B[b] \in SUBSET D
      BY <1>1, <1>6
    <3> QED
      BY <3>1, <3>2
  <2>2. \A c \in D : c \notin F => \E b \in 0 .. n - 1 : c \in B[b]
    BY <1>2, <1>6, <1>7
  <2>3. \A b \in 0 .. n - 1 : B[b] \cap F = {}
    BY <1>1, <1>6, <1>8
  <2>4. \A b, d \in 0 .. n - 1 : b # d => B[b] \cap B[d] = {}
    BY <1>6, <1>9
  <2>5. F \subseteq D
    OBVIOUS
  <2> QED
    BY <2>1, <2>2, <2>3, <2>4, <2>5 DEF Apart
<1>15. ASSUME NEW c \in D
       PROVE  /\ c = N + 1 => NoPointer(D, nx, n, h, c)
              /\ c # N + 1 => OnePointer(D, nx, n, h, c)
  <2>1. CASE c \in F
    <3>1. ASSUME NEW p \in D PROVE nx[p] = c <=> p + 1 = c /\ c # N + 1
      <4>1. CASE p \in 1 .. N
        <5>1. nx[p] \in 0 .. N
          BY <1>4, <4>1
        <5> QED
          BY <2>1, <4>1, <5>1
      <4>2. CASE p \in F
        <5>1. nx[p] = IF p < N + M THEN p + 1 ELSE 0
          BY <1>3, <4>2
        <5> QED
          BY <2>1, <4>2, <5>1
      <4> QED
        BY <1>7, <4>1, <4>2
    <3>2. \A b \in 0 .. n - 1 : h[b] # c
      <4> SUFFICES ASSUME NEW b \in 0 .. n - 1 PROVE h[b] # c
        OBVIOUS
      <4>1. h[b] \in 0 .. N
        BY <1>5
      <4> QED
        BY <2>1, <4>1
    <3>3. CASE c = N + 1
      BY <3>1, <3>2, <3>3 DEF NoPointer
    <3>4. CASE c # N + 1
      <4> DEFINE p == c - 1
      <4>1. p \in D /\ p + 1 = c /\ \A q \in D : q + 1 = c => q = p
        BY <2>1, <3>4
      <4> HIDE DEF p
      <4>2. nx[p] = c /\ \A q \in D : nx[q] = c => q = p
        BY <3>1, <3>4, <4>1
      <4> HIDE DEF D
      <4> QED
        BY <3>2, <3>4, <4>1, <4>2 DEF OnePointer
    <3> QED
      BY <3>3, <3>4
  <2>2. CASE c \in 1 .. N
    <3> DEFINE b == bk[c]
    <3>1. b \in 0 .. n - 1 /\ c \in O(b)
      BY <1>2, <2>2
    <3>2. ASSUME NEW p \in D, nx[p] = c PROVE p \in O(b) /\ c < p /\ \A d \in O(b) : d < p => d <= c
      <4>1. p \in 1 .. N
        <5>1. CASE p \in F
          <6>1. nx[p] = IF p < N + M THEN p + 1 ELSE 0
            BY <1>3, <5>1
          <6> QED
            BY <2>2, <3>2, <5>1, <6>1
        <5> QED
          BY <1>7, <5>1
      <4>2. c # 0
        BY <2>2
      <4>3. c \in O(bk[p]) /\ c < p /\ \A d \in O(bk[p]) : d < p => d <= c
        BY <1>4, <3>2, <4>1, <4>2
      <4>4. b = bk[p]
        BY <1>9, <4>3
      <4> QED
        BY <1>2, <4>1, <4>3, <4>4
    <3>3. ASSUME NEW d \in 0 .. n - 1, h[d] = c
          PROVE  d = b /\ \A k \in O(b) : k <= c
      <4>1. c \in O(d) /\ \A k \in O(d) : k <= c
        BY <1>5, <2>2, <3>3
      <4> QED
        BY <1>9, <4>1
    <3>4. h[b] = c \/ \E d \in O(b) : c < d /\ nx[d] = c
      BY <1>9, <3>1
    <3>5. O(b) \in SUBSET (1 .. N)
      BY <1>1
    <3>6. c # N + 1
      BY <2>2
    <3> HIDE DEF b
    <3>7. ASSUME NEW p \in D, NEW q \in D, nx[p] = c, nx[q] = c PROVE p = q
      <4>1. /\ p \in O(b) /\ q \in O(b) /\ c < p /\ c < q
            /\ q < p => q <= c
            /\ p < q => p <= c
        BY <3>2, <3>7
      <4> QED
        BY <2>2, <4>1
    <3>8. ASSUME NEW p \in D, NEW d \in 0 .. n - 1, nx[p] = c, h[d] = c PROVE FALSE
      <4>1. p \in O(b) /\ c < p /\ p <= c
        BY <3>2, <3>3, <3>8
      <4> QED
        BY <2>2, <4>1
    <3>9. \E p \in D : nx[p] = c \/ \E d \in 0 .. n - 1 : h[d] = c
      BY <2>2, <3>1, <3>4, <3>5
    <3> HIDE DEF D
    <3> QED
      BY <3>1, <3>3, <3>6, <3>7, <3>8, <3>9 DEF OnePointer
  <2> QED
    BY <1>7, <2>1, <2>2
<1>16. Pointed(D, nx, n, h, N + 1)
  BY <1>15 DEF Pointed
<1> QED
  BY <1>6, <1>10, <1>12, <1>13, <1>14, <1>16 DEF Sound, nx, h, B, O

(***************************************************************************)
(* Arenas.                                                                 *)
(***************************************************************************)
NextsOf(a) == [c \in DOMAIN a |-> a[c].next]
UsedOf(a)  == {c \in DOMAIN a : a[c].hcode # Free}
FreeOf(a)  == {c \in DOMAIN a : a[c].hcode = Free}
InChain(a, n, b) == {c \in DOMAIN a : a[c].hcode # Free /\ a[c].hcode % n = b}
ChainsOf(a, n) == [b \in 0 .. n - 1 |-> InChain(a, n, b)]
TableSound(a, n, h, u) ==
  /\ a \in Seq(Entry) /\ a # <<>> /\ n \in Nat \ {0}
  /\ Sound(DOMAIN a, NextsOf(a), n, h, u, ChainsOf(a, n), FreeOf(a))
SameData(x, y) == y.hcode = x.hcode /\ y.key = x.key /\ y.value = x.value
Filled(k, v, link) == [hcode |-> Hash[k], key |-> k, value |-> v, next |-> link]

LEMMA ModIn ==
  ASSUME NEW x \in Nat, NEW n \in Nat \ {0}
  PROVE  (x % n) \in 0 .. n - 1
OBVIOUS

LEMMA ArenaType ==
  ASSUME NEW a \in Seq(Entry)
  PROVE  /\ Len(a) \in Nat /\ DOMAIN a = 1 .. Len(a) /\ a \in [1 .. Len(a) -> Entry]
         /\ \A c \in DOMAIN a : /\ a[c] \in Entry
                                /\ a[c].hcode \in Nat \cup {Free} /\ a[c].next \in Nat
                                /\ a[c].value \in Nat /\ a[c].key \in Name \cup {NULL}
         /\ 0 \notin DOMAIN a
<1>1. Len(a) \in Nat /\ DOMAIN a = 1 .. Len(a) /\ a \in [1 .. Len(a) -> Entry]
  BY LenProperties
<1>2. \A c \in DOMAIN a : a[c] \in Entry
  BY <1>1
<1> QED
  BY <1>1, <1>2 DEF Entry

LEMMA FunctionIsSeq ==
  ASSUME NEW S, NEW n \in Nat, NEW g \in [1 .. n -> S]
  PROVE  g \in Seq(S) /\ Len(g) = n /\ DOMAIN g = 1 .. n
<1>1. g \in Seq(S)
  BY SeqDef
<1>2. DOMAIN g = 1 .. n
  OBVIOUS
<1>3. Len(g) \in Nat /\ DOMAIN g = 1 .. Len(g)
  BY <1>1, LenProperties
<1>4. Len(g) = n
  BY <1>2, <1>3
<1> QED
  BY <1>1, <1>2, <1>4

LEMMA FilledType ==
  ASSUME NEW k \in Name, NEW v \in Nat, NEW m \in Nat
  PROVE  /\ Filled(k, v, m) \in Entry /\ Filled(k, v, m).hcode = Hash[k]
         /\ Filled(k, v, m).key = k /\ Filled(k, v, m).value = v
         /\ Filled(k, v, m).next = m /\ Hash[k] # Free /\ Hash[k] \in Nat
<1>1. Hash[k] \in Nat
  BY HashAssumption
<1>2. Hash[k] # Free
  BY <1>1 DEF Free
<1> QED
  BY <1>1, <1>2 DEF Filled, Entry

(* An arena of which one entry changes.                                    *)
LEMMA Changed ==
  ASSUME NEW a \in Seq(Entry), NEW u \in DOMAIN a, NEW x \in Entry
  PROVE  LET g == [a EXCEPT ![u] = x]
         IN  /\ g \in Seq(Entry) /\ DOMAIN g = DOMAIN a /\ Len(g) = Len(a)
             /\ g[u] = x /\ \A c \in DOMAIN a : c # u => g[c] = a[c]
<1> DEFINE g == [a EXCEPT ![u] = x]
<1>1. Len(a) \in Nat /\ DOMAIN a = 1 .. Len(a) /\ a \in [1 .. Len(a) -> Entry]
  BY ArenaType
<1>2. g \in [1 .. Len(a) -> Entry]
  BY <1>1
<1>3. g[u] = x /\ \A c \in DOMAIN a : c # u => g[c] = a[c]
  BY <1>1
<1> HIDE DEF g
<1>4. g \in Seq(Entry) /\ Len(g) = Len(a) /\ DOMAIN g = 1 .. Len(a)
  BY <1>1, <1>2, FunctionIsSeq
<1> QED
  BY <1>1, <1>3, <1>4 DEF g

LEMMA TableFacts ==
  ASSUME NEW a, NEW n, NEW h, NEW u, TableSound(a, n, h, u)
  PROVE  /\ h \in Heads(n, DOMAIN a) /\ u \in DOMAIN a \cup {0}
         /\ NextsOf(a) \in Nexts(DOMAIN a) /\ 0 \notin DOMAIN a
         /\ \A c \in DOMAIN a : NextsOf(a)[c] = a[c].next
         /\ \A b \in 0 .. n - 1 : /\ h[b] \in DOMAIN a \cup {0}
                                  /\ Reach(NextsOf(a), h[b]) = InChain(a, n, b)
         /\ u # 0 => a[u].hcode = Free
<1>1. /\ h \in Heads(n, DOMAIN a) /\ u \in DOMAIN a \cup {0}
      /\ NextsOf(a) \in Nexts(DOMAIN a) /\ 0 \notin DOMAIN a
  BY DEF TableSound, Sound, Shape
<1>2. \A b \in 0 .. n - 1 : h[b] \in DOMAIN a \cup {0}
  BY <1>1 DEF Heads
<1>3. \A b \in 0 .. n - 1 : Reach(NextsOf(a), h[b]) = InChain(a, n, b)
  BY DEF TableSound, Sound, ChainsOf
<1>4. Reach(NextsOf(a), u) = FreeOf(a)
  BY DEF TableSound, Sound
<1>5. u # 0 => u \in FreeOf(a)
  BY <1>1, <1>4, ReachClosed
<1>6. \A c \in DOMAIN a : NextsOf(a)[c] = a[c].next
  BY DEF NextsOf
<1> QED
  BY <1>1, <1>2, <1>3, <1>5, <1>6 DEF FreeOf

LEMMA PutEntry ==
  ASSUME NEW a, NEW n, NEW h, NEW u, TableSound(a, n, h, u), u # 0,
         NEW k \in Name, NEW v \in Nat, NEW b, b = Hash[k] % n
  PROVE  LET g == [a EXCEPT ![u] = Filled(k, v, h[b])]
         IN  /\ TableSound(g, n, [h EXCEPT ![b] = u], a[u].next)
             /\ DOMAIN g = DOMAIN a /\ u \in DOMAIN a /\ a[u].hcode = Free
             /\ g[u] = Filled(k, v, h[b]) /\ h[b] \in Nat
             /\ \A c \in DOMAIN a : c # u => g[c] = a[c]
<1> DEFINE x == Filled(k, v, h[b])
           g == [a EXCEPT ![u] = x]
           D == DOMAIN a
<1>1. a \in Seq(Entry) /\ a # <<>> /\ n \in Nat \ {0}
  BY DEF TableSound
<1>2. b \in 0 .. n - 1
  <2>1. Hash[k] \in Nat
    BY HashAssumption
  <2> QED
    BY <1>1, <2>1, ModIn
<1>3. u \in D /\ a[u].hcode = Free /\ h[b] \in D \cup {0} /\ h \in Heads(n, D)
  BY <1>2, TableFacts
<1>4. h[b] \in Nat
  BY <1>1, <1>3, ArenaType
<1>5. /\ x \in Entry /\ x.hcode = Hash[k] /\ x.next = h[b]
      /\ Hash[k] # Free /\ Hash[k] \in Nat
  BY <1>4, FilledType
<1> HIDE DEF x
<1>6. /\ g \in Seq(Entry) /\ DOMAIN g = D /\ Len(g) = Len(a)
      /\ g[u] = x /\ \A c \in D : c # u => g[c] = a[c]
  BY <1>1, <1>3, <1>5, Changed
<1> HIDE DEF g
<1>7. NextsOf(g) = [NextsOf(a) EXCEPT ![u] = h[b]]
  <2>1. \A c \in D : g[c].next = IF c = u THEN h[b] ELSE a[c].next
    BY <1>5, <1>6
  <2> QED
    BY <1>3, <1>6, <2>1 DEF NextsOf
<1>8. FreeOf(g) = FreeOf(a) \ {u}
  BY <1>3, <1>5, <1>6 DEF FreeOf
<1>9. ChainsOf(g, n) = [ChainsOf(a, n) EXCEPT ![b] = ChainsOf(a, n)[b] \cup {u}]
  <2>1. ASSUME NEW d \in 0 .. n - 1
        PROVE  InChain(g, n, d) = IF d = b THEN InChain(a, n, d) \cup {u} ELSE InChain(a, n, d)
    <3>1. g[u].hcode # Free /\ g[u].hcode % n = b
      BY <1>5, <1>6
    <3>2. \A c \in D : c # u => g[c].hcode = a[c].hcode
      BY <1>6
    <3>3. \A c \in D : c \in InChain(g, n, d) <=>
                         IF c = u THEN d = b ELSE c \in InChain(a, n, d)
      BY <1>6, <3>1, <3>2 DEF InChain
    <3>4. InChain(g, n, d) \subseteq D /\ InChain(a, n, d) \subseteq D /\ u \notin InChain(a, n, d)
      BY <1>3, <1>6 DEF InChain
    <3> QED
      BY <1>3, <3>3, <3>4
  <2> QED
    BY <1>2, <2>1 DEF ChainsOf
<1>10. NextsOf(a)[u] = a[u].next
  BY <1>3 DEF NextsOf
<1>11. Sound(D, NextsOf(g), n, [h EXCEPT ![b] = u], a[u].next, ChainsOf(g, n), FreeOf(g))
  <2>1. Sound(D, NextsOf(a), n, h, u, ChainsOf(a, n), FreeOf(a))
    BY DEF TableSound
  <2> DEFINE nx == NextsOf(a)
             B == ChainsOf(a, n)
             F == FreeOf(a)
  <2> HIDE DEF D, nx, B, F
  <2>2. Sound(D, nx, n, h, u, B, F)
    BY <2>1 DEF nx, B, F
  <2>3. Sound(D, [nx EXCEPT ![u] = h[b]], n, [h EXCEPT ![b] = u], nx[u],
              [B EXCEPT ![b] = B[b] \cup {u}], F \ {u})
    BY ONLY <1>2, <2>2, u # 0, Insert
  <2> QED
    BY <1>7, <1>8, <1>9, <1>10, <2>3 DEF nx, B, F
<1>12. g # <<>>
  BY <1>3, <1>6
<1>13. TableSound(g, n, [h EXCEPT ![b] = u], a[u].next)
  BY <1>1, <1>6, <1>11, <1>12 DEF TableSound
<1> QED
  BY <1>3, <1>4, <1>6, <1>13 DEF g, x

LEMMA RemoveEntry ==
  ASSUME NEW a, NEW n, NEW h, NEW u, TableSound(a, n, h, u),
         NEW x \in DOMAIN a, a[x].hcode # Free, NEW b, b = a[x].hcode % n
  PROVE  LET before == {p \in DOMAIN a : a[p].hcode # Free /\ a[p].next = x}
             g == [c \in DOMAIN a |->
                     IF c = x THEN [hcode |-> Free, key |-> a[x].key, value |-> 0, next |-> u]
                     ELSE IF c \in before THEN [a[c] EXCEPT !.next = a[x].next] ELSE a[c]]
         IN  /\ TableSound(g, n, IF before = {} THEN [h EXCEPT ![b] = a[x].next] ELSE h, x)
             /\ DOMAIN g = DOMAIN a /\ g[x].hcode = Free
             /\ \A c \in DOMAIN a : c # x => SameData(a[c], g[c])
<1> DEFINE before == {p \in DOMAIN a : a[p].hcode # Free /\ a[p].next = x}
           g == [c \in DOMAIN a |->
                   IF c = x THEN [hcode |-> Free, key |-> a[x].key, value |-> 0, next |-> u]
                   ELSE IF c \in before THEN [a[c] EXCEPT !.next = a[x].next] ELSE a[c]]
           hh == IF before = {} THEN [h EXCEPT ![b] = a[x].next] ELSE h
           D == DOMAIN a
           nx == NextsOf(a)
           B == ChainsOf(a, n)
           F == FreeOf(a)
<1>1. a \in Seq(Entry) /\ a # <<>> /\ n \in Nat \ {0}
  BY DEF TableSound
<1>2. /\ Len(a) \in Nat /\ D = 1 .. Len(a)
      /\ \A c \in D : /\ a[c] \in Entry /\ a[c].hcode \in Nat \cup {Free} /\ a[c].next \in Nat
                      /\ a[c].value \in Nat /\ a[c].key \in Name \cup {NULL}
      /\ 0 \notin D
  BY <1>1, ArenaType
<1>3. /\ h \in Heads(n, D) /\ u \in D \cup {0} /\ \A c \in D : nx[c] = a[c].next
  BY TableFacts
<1>4. Sound(D, nx, n, h, u, B, F)
  BY DEF TableSound
<1>5. b \in 0 .. n - 1 /\ x \in B[b]
  <2>1. a[x].hcode \in Nat
    BY <1>2
  <2>2. b \in 0 .. n - 1
    BY <1>1, <2>1, ModIn
  <2> QED
    BY <2>2 DEF ChainsOf, InChain
<1>6. u \in Nat
  BY <1>2, <1>3
<1>7. ASSUME NEW c \in D
      PROVE  /\ g[c] \in Entry
             /\ g[c].hcode = IF c = x THEN Free ELSE a[c].hcode
             /\ g[c].next = IF c = x THEN u ELSE IF c \in before THEN a[x].next ELSE a[c].next
             /\ c # x => SameData(a[c], g[c])
  <2>1. a[c] \in Entry /\ a[x].next \in Nat
    BY <1>2
  <2>2. CASE c = x
    <3>1. g[c] = [hcode |-> Free, key |-> a[c].key, value |-> 0, next |-> u]
      BY <2>2
    <3> HIDE DEF g, before, hh, nx, B, F
    <3>2. g[c] \in Entry /\ g[c].hcode = Free /\ g[c].next = u
      BY <1>2, <1>6, <3>1 DEF Entry
    <3> QED
      BY <2>2, <3>2
  <2>3. CASE c # x /\ c \in before
    <3>1. g[c] = [a[c] EXCEPT !.next = a[x].next]
      BY <2>3
    <3> HIDE DEF g, before
    <3> QED
      BY <2>1, <2>3, <3>1 DEF Entry, SameData
  <2>4. CASE c # x /\ c \notin before
    <3>1. g[c] = a[c]
      BY <2>4
    <3> HIDE DEF g, before
    <3> QED
      BY <2>1, <2>4, <3>1 DEF SameData
  <2> QED
    BY <2>2, <2>3, <2>4
<1>8. DOMAIN g = D
  OBVIOUS
<1>9. \A c \in D : c \in before <=> c \notin F /\ nx[c] = x
  BY <1>3 DEF FreeOf
<1>10. before = {} <=> \A p \in D : p \notin F => nx[p] # x
  BY <1>9
<1> HIDE DEF g
<1>11. g \in Seq(Entry) /\ g # <<>>
  <2>1. g \in [1 .. Len(a) -> Entry]
    <3>1. g = [c \in D |-> g[c]]
      BY DEF g
    <3> QED
      BY <1>2, <1>7, <3>1
  <2>2. g \in Seq(Entry)
    BY <1>2, <2>1, FunctionIsSeq
  <2> QED
    BY <1>8, <2>2
<1> HIDE DEF before
<1>12. NextsOf(g) = Unlinked(D, nx, u, F, x)
  <2>1. \A c \in D : g[c].next = IF c = x THEN u ELSE IF c \notin F /\ nx[c] = x THEN nx[x] ELSE nx[c]
    BY <1>3, <1>7, <1>9
  <2> HIDE DEF nx, F
  <2> QED
    BY <1>8, <2>1 DEF NextsOf, Unlinked
<1>13. hh = Unheaded(D, nx, h, F, b, x)
  BY <1>3, <1>10 DEF Unheaded
<1>14. ChainsOf(g, n) = [B EXCEPT ![b] = B[b] \ {x}]
  <2>1. ASSUME NEW d \in 0 .. n - 1
        PROVE  InChain(g, n, d) = IF d = b THEN InChain(a, n, d) \ {x} ELSE InChain(a, n, d)
    <3>1. \A c \in D : c \in InChain(g, n, d) <=> c # x /\ c \in InChain(a, n, d)
      BY <1>7, <1>8 DEF InChain
    <3>2. d # b => x \notin InChain(a, n, d)
      BY DEF InChain
    <3>3. InChain(g, n, d) \subseteq D /\ InChain(a, n, d) \subseteq D
      BY <1>8 DEF InChain
    <3> QED
      BY <3>1, <3>2, <3>3
  <2> QED
    BY <1>5, <2>1 DEF ChainsOf
<1>15. FreeOf(g) = F \cup {x}
  BY <1>7, <1>8 DEF FreeOf
<1>16. Sound(D, NextsOf(g), n, hh, x, ChainsOf(g, n), FreeOf(g))
  <2> HIDE DEF D, nx, B, F, hh
  <2>1. Sound(D, Unlinked(D, nx, u, F, x), n, Unheaded(D, nx, h, F, b, x), x,
              [B EXCEPT ![b] = B[b] \ {x}], F \cup {x})
    BY ONLY <1>4, <1>5, TakeOut
  <2> QED
    BY <1>12, <1>13, <1>14, <1>15, <2>1
<1>17. TableSound(g, n, hh, x)
  BY <1>1, <1>8, <1>11, <1>16 DEF TableSound
<1> QED
  BY <1>7, <1>8, <1>17 DEF g, before

LEMMA GrowTable ==
  ASSUME TableSound(arena, hmax, hentry, unused), unused = 0
  PROVE  /\ TableSound(Grown.arena, Grown.hmax, Grown.hentry, Grown.unused)
         /\ Grown.unused = Len(arena) + 1 /\ Len(Grown.arena) = Len(arena) + Len(arena)
         /\ \A c \in Cell : SameData(arena[c], Grown.arena[c])
         /\ \A c \in DOMAIN Grown.arena : c \notin Cell => Grown.arena[c].hcode = Free
<1> DEFINE N == Len(arena)
           n == 2 * hmax + 1
           bk == [c \in 1 .. N |-> arena[c].hcode % n]
           fl == FreeList(N + 1, N)
           old == [c \in 1 .. N |-> [arena[c] EXCEPT !.next =
                        Last(Bucket(n, arena[c].hcode % n) \cap 1 .. c - 1)]]
           g == old \o fl
           h == [b \in 0 .. n - 1 |-> Last(Bucket(n, b))]
<1>0. Grown = [hmax |-> n, hentry |-> h, arena |-> g, unused |-> N + 1]
  BY DEF Grown
<1>1. arena \in Seq(Entry) /\ arena # <<>> /\ hmax \in Nat \ {0}
  BY DEF TableSound
<1>2. /\ N \in Nat \ {0} /\ Cell = 1 .. N
      /\ \A c \in Cell : /\ arena[c] \in Entry /\ arena[c].hcode \in Nat \cup {Free}
                         /\ arena[c].value \in Nat /\ arena[c].key \in Name \cup {NULL}
  BY <1>1, ArenaType, EmptySeq DEF Cell
<1>3. n \in Nat \ {0}
  BY <1>1
<1>4. \A c \in 1 .. N : arena[c].hcode \in Nat
  <2>1. Reach(NextsOf(arena), 0) = FreeOf(arena)
    BY DEF TableSound, Sound
  <2>2. FreeOf(arena) = {}
    BY <2>1 DEF Reach
  <2> QED
    BY <1>2, <2>2 DEF FreeOf, Cell
<1> HIDE DEF n
<1>5. bk \in [1 .. N -> 0 .. n - 1]
  BY <1>3, <1>4, ModIn
<1>6. \A b : Bucket(n, b) = OldIn(N, bk, b)
  BY <1>2 DEF Bucket, Rehashed, OldIn
<1>7. ASSUME NEW c \in 1 .. N
      PROVE  /\ old[c] \in Entry /\ SameData(arena[c], old[c])
             /\ old[c].next = Last(OldIn(N, bk, bk[c]) \cap (1 .. c - 1))
  <2> DEFINE U == Bucket(n, arena[c].hcode % n) \cap 1 .. c - 1
  <2>1. U = OldIn(N, bk, bk[c]) \cap (1 .. c - 1)
    BY <1>6
  <2>2. U \in SUBSET (1 .. N)
    BY <1>2 DEF Bucket, Rehashed
  <2>3. old[c] = [arena[c] EXCEPT !.next = Last(U)]
    OBVIOUS
  <2> HIDE DEF U, old
  <2>4. Last(U) \in Nat
    <3>1. U = {} => Last(U) = 0
      BY <1>2, <2>2, LastIs
    <3>2. U # {} => Last(U) \in U
      BY <1>2, <2>2, LastIs
    <3>3. \A y \in U : y \in Nat
      BY <1>2, <2>2
    <3> QED
      BY <3>1, <3>2, <3>3
  <2> QED
    BY <1>2, <2>1, <2>3, <2>4 DEF Entry, SameData
<1>8. /\ fl \in [1 .. N -> Entry]
      /\ \A i \in 1 .. N : fl[i].hcode = Free /\ fl[i].next = IF i < N THEN N + 1 + i ELSE 0
  BY <1>2 DEF FreeList, Entry
<1> HIDE DEF fl
<1>9. old \in Seq(Entry) /\ Len(old) = N
  <2>1. old \in [1 .. N -> Entry]
    <3>1. \A c \in 1 .. N : old[c] \in Entry
      BY <1>7
    <3>2. old = [c \in 1 .. N |-> old[c]]
      OBVIOUS
    <3> HIDE DEF old
    <3> QED
      BY <3>1, <3>2
  <2> HIDE DEF old
  <2> QED
    BY <1>2, <2>1, FunctionIsSeq
<1>10. fl \in Seq(Entry) /\ Len(fl) = N
  BY <1>2, <1>8, FunctionIsSeq
<1> HIDE DEF old, bk
<1>11. /\ g \in Seq(Entry) /\ Len(g) = N + N
       /\ \A i \in 1 .. N + N : g[i] = IF i <= N THEN old[i] ELSE fl[i - N]
  <2>1. /\ g \in Seq(Entry) /\ Len(g) = Len(old) + Len(fl)
        /\ \A i \in 1 .. Len(old) + Len(fl) : g[i] =
              IF i <= Len(old) THEN old[i] ELSE fl[i - Len(old)]
    BY ONLY <1>9, <1>10, ConcatProperties
  <2> HIDE DEF g, N
  <2> QED
    BY <1>9, <1>10, <2>1
<1> HIDE DEF g, h
<1>12. DOMAIN g = 1 .. N + N
  BY <1>11, LenProperties
<1>13. ASSUME NEW c \in 1 .. N
       PROVE  g[c] = old[c] /\ c \in 1 .. N + N
  BY <1>2, <1>11
<1>14. ASSUME NEW c \in (N + 1) .. (N + N)
       PROVE  /\ g[c].hcode = Free /\ c \in 1 .. N + N /\ c \notin 1 .. N
              /\ g[c].next = IF c < N + N THEN c + 1 ELSE 0
  <2> DEFINE i == c - N
  <2>1. i \in 1 .. N /\ N + 1 + i = c + 1 /\ (i < N <=> c < N + N) /\ ~ (c <= N)
    BY <1>2
  <2>2. g[c] = fl[i]
    BY <1>2, <1>11, <2>1
  <2> HIDE DEF i
  <2> QED
    BY <1>2, <1>8, <2>1, <2>2
<1>15. \A c \in 1 .. N + N : c \in 1 .. N \/ c \in (N + 1) .. (N + N)
  BY <1>2
<1>16. NextsOf(g) = Relinked(N, N, bk)
  <2>1. ASSUME NEW c \in 1 .. N + N
        PROVE  g[c].next = Relinked(N, N, bk)[c]
    <3>1. CASE c \in 1 .. N
      BY <1>2, <1>7, <1>13, <3>1 DEF Relinked
    <3>2. CASE c \in (N + 1) .. (N + N)
      <4>1. ~ (c <= N)
        BY <1>2, <3>2
      <4> QED
        BY <1>14, <3>2, <4>1 DEF Relinked
    <3> QED
      BY <1>15, <3>1, <3>2
  <2> QED
    BY <1>12, <2>1 DEF NextsOf, Relinked
<1>17. h = [b \in 0 .. n - 1 |-> Last(OldIn(N, bk, b))]
  BY <1>6 DEF h
<1>18. ChainsOf(g, n) = [b \in 0 .. n - 1 |-> OldIn(N, bk, b)]
  <2>1. ASSUME NEW b \in 0 .. n - 1
        PROVE  InChain(g, n, b) = OldIn(N, bk, b)
    <3>1. ASSUME NEW c \in 1 .. N
          PROVE  c \in InChain(g, n, b) <=> c \in OldIn(N, bk, b)
      <4>1. g[c].hcode = arena[c].hcode /\ g[c].hcode # Free /\ bk[c] = g[c].hcode % n
        <5>1. g[c].hcode = arena[c].hcode
          BY <1>7, <1>13 DEF SameData
        <5>2. arena[c].hcode \in Nat /\ bk[c] = arena[c].hcode % n
          BY <1>4 DEF bk
        <5> QED
          BY <5>1, <5>2 DEF Free
      <4> QED
        BY <1>12, <1>13, <4>1 DEF InChain, OldIn
    <3>2. \A c \in (N + 1) .. (N + N) : c \notin InChain(g, n, b)
      BY <1>14 DEF InChain
    <3>3. InChain(g, n, b) \subseteq 1 .. N + N /\ OldIn(N, bk, b) \subseteq 1 .. N
      BY <1>12 DEF InChain, OldIn
    <3> QED
      BY <1>15, <3>1, <3>2, <3>3
  <2> QED
    BY <2>1 DEF ChainsOf
<1>19. FreeOf(g) = (N + 1) .. (N + N)
  <2>1. \A c \in 1 .. N : g[c].hcode # Free
    <3> SUFFICES ASSUME NEW c \in 1 .. N PROVE g[c].hcode # Free
      OBVIOUS
    <3>1. g[c].hcode = arena[c].hcode
      BY <1>7, <1>13 DEF SameData
    <3> QED
      BY <1>4, <3>1 DEF Free
  <2> QED
    BY <1>12, <1>14, <1>15, <2>1 DEF FreeOf
<1>20. Sound(1 .. N + N, Relinked(N, N, bk), n, [b \in 0 .. n - 1 |-> Last(OldIn(N, bk, b))],
             N + 1, [b \in 0 .. n - 1 |-> OldIn(N, bk, b)], (N + 1) .. (N + N))
  <2> HIDE DEF N
  <2>1. n \in Nat
    BY <1>3
  <2> QED
    BY ONLY <1>2, <2>1, <1>5, Rebuild
<1>21. TableSound(g, n, h, N + 1)
  <2>1. g # <<>>
    BY <1>2, <1>11, EmptySeq
  <2>2. Sound(DOMAIN g, NextsOf(g), n, h, N + 1, ChainsOf(g, n), FreeOf(g))
    BY <1>12, <1>16, <1>17, <1>18, <1>19, <1>20
  <2> QED
    BY <1>3, <1>11, <2>1, <2>2 DEF TableSound
<1>22. \A c \in Cell : SameData(arena[c], g[c])
  BY <1>2, <1>7, <1>13
<1>23. \A c \in DOMAIN g : c \notin Cell => g[c].hcode = Free
  BY <1>2, <1>12, <1>14, <1>15
<1> QED
  BY <1>0, <1>11, <1>21, <1>22, <1>23

LEMMA InitTable ==
  ASSUME Init PROVE TableSound(arena, hmax, hentry, unused) /\ UsedOf(arena) = {}
<1> DEFINE N == InitArena
           n == InitMax
           bk == [c \in 1 .. 0 |-> 0]
           a == FreeList(1, N)
<1>1. N \in Nat \ {0} /\ n \in Nat \ {0}
  BY HashAssumption
<1>2. /\ a \in [1 .. N -> Entry]
      /\ \A i \in 1 .. N : a[i].hcode = Free /\ a[i].next = IF i < N THEN 1 + i ELSE 0
  BY <1>1 DEF FreeList, Entry
<1> HIDE DEF a
<1>3. a \in Seq(Entry) /\ Len(a) = N /\ DOMAIN a = 1 .. N
  BY <1>1, <1>2, FunctionIsSeq
<1>4. \A b : OldIn(0, bk, b) = {}
  BY DEF OldIn
<1>5. NextsOf(a) = Relinked(0, N, bk)
  BY <1>1, <1>2, <1>3 DEF NextsOf, Relinked
<1>6. FreeOf(a) = (0 + 1) .. (0 + N)
  BY <1>1, <1>2, <1>3 DEF FreeOf
<1>7. ChainsOf(a, n) = [b \in 0 .. n - 1 |-> OldIn(0, bk, b)]
  BY <1>2, <1>3, <1>4 DEF ChainsOf, InChain
<1>8. hentry = [b \in 0 .. n - 1 |-> Last(OldIn(0, bk, b))]
  BY <1>4 DEF Init, Last
<1>9. bk \in [1 .. 0 -> 0 .. n - 1]
  OBVIOUS
<1> HIDE DEF bk, N, n
<1>10. Sound(1 .. 0 + N, Relinked(0, N, bk), n, [b \in 0 .. n - 1 |-> Last(OldIn(0, bk, b))],
             0 + 1, [b \in 0 .. n - 1 |-> OldIn(0, bk, b)], (0 + 1) .. (0 + N))
  <2>1. 0 \in Nat /\ n \in Nat
    BY <1>1
  <2> QED
    BY ONLY <1>1, <1>9, <2>1, Rebuild
<1>11. DOMAIN a = 1 .. 0 + N /\ 0 + 1 = 1
  BY <1>1, <1>3
<1>12. Sound(DOMAIN a, NextsOf(a), n, hentry, 1, ChainsOf(a, n), FreeOf(a))
  BY <1>5, <1>6, <1>7, <1>8, <1>10, <1>11
<1>13. arena = a /\ hmax = n /\ unused = 1
  BY DEF Init, a, n, N
<1>14. a # <<>>
  BY <1>1, <1>3, EmptySeq
<1>15. UsedOf(a) = {}
  BY <1>2, <1>3 DEF UsedOf
<1> QED
  BY <1>1, <1>3, <1>12, <1>13, <1>14, <1>15 DEF TableSound

(***************************************************************************)
(* The invariant.                                                          *)
(***************************************************************************)
Keyed(a) ==
  /\ \A c \in UsedOf(a) : a[c].key \in Name /\ a[c].hcode = Hash[a[c].key]
  /\ \A c, d \in UsedOf(a) : a[c].key = a[d].key => c = d
Ahead(a, n, x) ==
  /\ n \in Name /\ x \in UsedOf(a) \cup {0}
  /\ \A c \in UsedOf(a) : a[c].key = n => c \in Reach(NextsOf(a), x)
Symbols(a, l, s) ==
  /\ \A i, j \in DOMAIN l : l[i] = l[j] => i = j
  /\ s = Len(l)
  /\ \A c \in UsedOf(a) : a[c].value < Len(l) /\ l[a[c].value + 1] = a[c].key
  /\ \A i \in DOMAIN l : \E c \in UsedOf(a) : a[c].key = l[i]

Types ==
  /\ interning \in BOOLEAN
  /\ size \in Nat /\ list \in Seq(Name)
  /\ op \in {"none", "intern", "find", "get", "set", "remove"}
  /\ sought \in Name \cup {NULL} /\ stored \in Nat
  /\ e \in Cell \cup {0}
  /\ answer \in {<<>>} \cup (Name \X (Nat \cup {Absent}))
  /\ op = "none" \/ (interning <=> op \in {"intern", "find"})
  /\ op = "set" => stored \in Value

HashInv ==
  /\ Types
  /\ TableSound(arena, hmax, hentry, unused)
  /\ Keyed(arena) /\ size = Cardinality(UsedOf(arena))
  /\ op # "none" => Ahead(arena, sought, e)
  /\ interning => Symbols(arena, list, size)

(* An entry u of key k and value v is new.                                 *)
Gains(a, g, u, k, v) ==
  /\ g \in Seq(Entry) /\ u \in DOMAIN g /\ u \notin UsedOf(a)
  /\ UsedOf(g) = UsedOf(a) \cup {u}
  /\ \A c \in UsedOf(a) : SameData(a[c], g[c])
  /\ g[u].key = k /\ g[u].value = v /\ g[u].hcode = Hash[k]

LEMMA UsedFinite ==
  ASSUME NEW a \in Seq(Entry)
  PROVE  /\ IsFiniteSet(UsedOf(a)) /\ Cardinality(UsedOf(a)) \in Nat
         /\ Cardinality(UsedOf(a)) <= Len(a)
<1>1. Len(a) \in Nat /\ DOMAIN a = 1 .. Len(a)
  BY ArenaType
<1>2. IsFiniteSet(1 .. Len(a)) /\ Cardinality(1 .. Len(a)) = Len(a)
  BY <1>1, FS_Interval
<1>3. UsedOf(a) \in SUBSET (1 .. Len(a))
  BY <1>1 DEF UsedOf
<1> QED
  BY <1>2, <1>3, FS_Subset, FS_CardinalityType

LEMMA NewEntryGains ==
  ASSUME TableSound(arena, hmax, hentry, unused), NEW k \in Name, NEW v \in Nat,
         NewEntry(k, v)
  PROVE  LET u == IF unused = 0 THEN Len(arena) + 1 ELSE unused
         IN  /\ TableSound(arena', hmax', hentry', unused')
             /\ Gains(arena, arena', u, k, v)
             /\ Len(arena') <= MaxArena /\ u # 0
<1> DEFINE u == IF unused = 0 THEN Len(arena) + 1 ELSE unused
           m == IF unused = 0 THEN Grown ELSE Current
           b == Hash[k] % m.hmax
           g == [m.arena EXCEPT ![u] = Filled(k, v, m.hentry[b])]
<1>1. arena \in Seq(Entry) /\ Len(arena) \in Nat /\ Cell = 1 .. Len(arena)
  BY ArenaType DEF TableSound, Cell
<1>2. /\ TableSound(m.arena, m.hmax, m.hentry, m.unused) /\ m.unused = u /\ u # 0
      /\ \A c \in Cell : c \in DOMAIN m.arena /\ SameData(arena[c], m.arena[c])
      /\ \A c \in DOMAIN m.arena : c \notin Cell => m.arena[c].hcode = Free
  <2>1. CASE unused = 0
    <3>1. /\ TableSound(Grown.arena, Grown.hmax, Grown.hentry, Grown.unused)
          /\ Grown.unused = Len(arena) + 1 /\ Len(Grown.arena) = Len(arena) + Len(arena)
          /\ \A c \in Cell : SameData(arena[c], Grown.arena[c])
          /\ \A c \in DOMAIN Grown.arena : c \notin Cell => Grown.arena[c].hcode = Free
      BY <2>1, GrowTable
    <3>2. Grown.arena \in Seq(Entry)
      BY <3>1 DEF TableSound
    <3>3. DOMAIN Grown.arena = 1 .. Len(arena) + Len(arena)
      BY <3>1, <3>2, ArenaType
    <3>4. \A c \in Cell : c \in DOMAIN Grown.arena
      BY <1>1, <3>3
    <3>5. m = Grown /\ u = Len(arena) + 1
      BY <2>1
    <3> HIDE DEF m, u
    <3> QED
      BY <1>1, <3>1, <3>4, <3>5
  <2>2. CASE unused # 0
    <3>1. m = Current /\ u = unused
      BY <2>2
    <3>2. /\ m.arena = arena /\ m.hmax = hmax /\ m.hentry = hentry /\ m.unused = unused
      BY <3>1 DEF Current
    <3> HIDE DEF m, u
    <3> QED
      BY <2>2, <3>1, <3>2 DEF SameData, Cell
  <2> QED
    BY <2>1, <2>2
<1> HIDE DEF m, u
<1>3. /\ Len(m.arena) <= MaxArena
      /\ hmax' = m.hmax /\ arena' = g
      /\ hentry' = [m.hentry EXCEPT ![b] = u] /\ unused' = m.arena[u].next
  BY <1>2 DEF NewEntry, m, Filled
<1>4. /\ TableSound(g, m.hmax, [m.hentry EXCEPT ![b] = u], m.arena[u].next)
      /\ DOMAIN g = DOMAIN m.arena /\ u \in DOMAIN m.arena /\ m.arena[u].hcode = Free
      /\ g[u] = Filled(k, v, m.hentry[b]) /\ m.hentry[b] \in Nat
      /\ \A c \in DOMAIN m.arena : c # u => g[c] = m.arena[c]
  <2> DEFINE a == m.arena
             n == m.hmax
             h == m.hentry
  <2>1. TableSound(a, n, h, u) /\ u # 0 /\ b = Hash[k] % n
    BY <1>2
  <2> HIDE DEF a, n, h, b
  <2>2. /\ TableSound([a EXCEPT ![u] = Filled(k, v, h[b])], n, [h EXCEPT ![b] = u], a[u].next)
        /\ DOMAIN [a EXCEPT ![u] = Filled(k, v, h[b])] = DOMAIN a
        /\ u \in DOMAIN a /\ a[u].hcode = Free
        /\ [a EXCEPT ![u] = Filled(k, v, h[b])][u] = Filled(k, v, h[b]) /\ h[b] \in Nat
        /\ \A c \in DOMAIN a : c # u => [a EXCEPT ![u] = Filled(k, v, h[b])][c] = a[c]
    BY <2>1, PutEntry
  <2> QED
    BY <2>2 DEF a, n, h
<1> HIDE DEF g, b
<1>5. /\ g[u].hcode = Hash[k] /\ g[u].key = k /\ g[u].value = v /\ Hash[k] # Free
  BY <1>4, FilledType
<1>6. g \in Seq(Entry) /\ m.arena \in Seq(Entry)
  BY <1>2, <1>4 DEF TableSound
<1>7. Len(g) = Len(m.arena)
  BY <1>4, <1>6, ArenaType
<1>8. u \notin UsedOf(arena)
  BY <1>2, <1>4 DEF UsedOf, SameData, Cell
<1>9. ASSUME NEW c
      PROVE  c \in UsedOf(g) <=> c = u \/ c \in UsedOf(arena)
  <2>1. CASE c = u
    BY <1>4, <1>5, <2>1 DEF UsedOf
  <2>2. CASE c # u /\ c \in DOMAIN g
    <3>1. g[c] = m.arena[c]
      BY <1>4, <2>2
    <3> QED
      BY <1>2, <1>4, <2>2, <3>1 DEF UsedOf, SameData, Cell
  <2>3. CASE c # u /\ c \notin DOMAIN g
    BY <1>2, <1>4, <2>3 DEF UsedOf, Cell
  <2> QED
    BY <2>1, <2>2, <2>3
<1>10. \A c \in UsedOf(arena) : SameData(arena[c], g[c])
  BY <1>2, <1>4, <1>8 DEF UsedOf, Cell
<1>11. UsedOf(g) = UsedOf(arena) \cup {u}
  BY <1>9
<1>12. Gains(arena, g, u, k, v)
  BY <1>4, <1>5, <1>6, <1>8, <1>10, <1>11 DEF Gains
<1> QED
  BY <1>2, <1>3, <1>4, <1>7, <1>12 DEF u

LEMMA GainsKeeps ==
  ASSUME NEW a \in Seq(Entry), NEW g, NEW u, NEW k \in Name, NEW v, Gains(a, g, u, k, v),
         Keyed(a), \A c \in UsedOf(a) : a[c].key # k
  PROVE  Keyed(g) /\ Cardinality(UsedOf(g)) = Cardinality(UsedOf(a)) + 1
<1>1. /\ g \in Seq(Entry) /\ u \notin UsedOf(a) /\ UsedOf(g) = UsedOf(a) \cup {u}
      /\ \A c \in UsedOf(a) : g[c].key = a[c].key /\ g[c].hcode = a[c].hcode
      /\ g[u].key = k /\ g[u].hcode = Hash[k]
  BY DEF Gains, SameData
<1>2. Keyed(g)
  BY <1>1 DEF Keyed
<1>3. Cardinality(UsedOf(g)) = Cardinality(UsedOf(a)) + 1
  BY <1>1, UsedFinite, FS_AddElement
<1> QED
  BY <1>2, <1>3

(* Where nothing was found there is nothing.                               *)
LEMMA NotThere ==
  ASSUME NEW a, NEW n, Ahead(a, n, 0)
  PROVE  \A c \in UsedOf(a) : a[c].key # n
BY DEF Ahead, Reach

(* What a walk has come to, and what is after it.                          *)
LEMMA AheadStep ==
  ASSUME NEW a, NEW n, NEW h, NEW u, TableSound(a, n, h, u), Keyed(a),
         NEW k, NEW x, x # 0, Ahead(a, k, x),
         ~ (a[x].hcode = Hash[k] /\ a[x].key = k)
  PROVE  Ahead(a, k, a[x].next)
<1>1. /\ k \in Name /\ x \in UsedOf(a) /\ x \in DOMAIN a /\ a[x].hcode # Free
      /\ \A c \in UsedOf(a) : a[c].key = k => c \in Reach(NextsOf(a), x)
  BY DEF Ahead, UsedOf
<1>2. /\ NextsOf(a) \in Nexts(DOMAIN a) /\ 0 \notin DOMAIN a
      /\ NextsOf(a)[x] = a[x].next
      /\ \A b \in 0 .. n - 1 : /\ h[b] \in DOMAIN a \cup {0}
                               /\ Reach(NextsOf(a), h[b]) = InChain(a, n, b)
  BY <1>1, TableFacts
<1>3. a \in Seq(Entry) /\ n \in Nat \ {0}
  BY DEF TableSound
<1>4. a[x].hcode \in Nat
  BY <1>1, <1>3, ArenaType
<1> DEFINE b == a[x].hcode % n
<1>5. b \in 0 .. n - 1
  BY <1>3, <1>4, ModIn
<1>6. x \in InChain(a, n, b)
  BY <1>1 DEF InChain
<1> HIDE DEF b
<1>7. a[x].next # 0 => a[x].next \in InChain(a, n, b)
  BY <1>2, <1>5, <1>6, ReachClosed
<1>8. a[x].next \in UsedOf(a) \cup {0}
  BY <1>7 DEF InChain, UsedOf
<1>9. a[x].key # k
  BY <1>1 DEF Keyed
<1>10. Reach(NextsOf(a), x) = {x} \cup Reach(NextsOf(a), a[x].next)
  BY <1>1, <1>2, ReachStep
<1> QED
  BY <1>1, <1>8, <1>9, <1>10 DEF Ahead

LEMMA AheadStart ==
  ASSUME NEW a, NEW n, NEW h, NEW u, TableSound(a, n, h, u), Keyed(a), NEW k \in Name
  PROVE  Ahead(a, k, h[Hash[k] % n])
<1> DEFINE b == Hash[k] % n
<1>1. a \in Seq(Entry) /\ n \in Nat \ {0} /\ Hash[k] \in Nat
  BY HashAssumption DEF TableSound
<1>2. b \in 0 .. n - 1
  BY <1>1, ModIn
<1>3. h[b] \in DOMAIN a \cup {0} /\ Reach(NextsOf(a), h[b]) = InChain(a, n, b)
  BY <1>2, TableFacts
<1>4. NextsOf(a) \in Nexts(DOMAIN a) /\ 0 \notin DOMAIN a
  BY TableFacts
<1>5. h[b] # 0 => h[b] \in InChain(a, n, b)
  BY <1>3, <1>4, ReachClosed
<1>6. \A c \in UsedOf(a) : a[c].key = k => c \in InChain(a, n, b)
  BY DEF Keyed, UsedOf, InChain
<1>7. h[b] \in UsedOf(a) \cup {0}
  BY <1>5 DEF UsedOf, InChain
<1> QED
  BY <1>3, <1>6, <1>7 DEF Ahead

LEMMA HashInit == Init => HashInv
<1> SUFFICES ASSUME Init PROVE HashInv
  OBVIOUS
<1>1. TableSound(arena, hmax, hentry, unused) /\ UsedOf(arena) = {}
  BY InitTable
<1>2. Types
  BY DEF Init, Types
<1>3. Keyed(arena) /\ size = Cardinality(UsedOf(arena))
  BY <1>1, FS_EmptySet DEF Init, Keyed
<1>4. Symbols(arena, list, size)
  BY <1>1, EmptySeq DEF Init, Symbols
<1> QED
  BY <1>1, <1>2, <1>3, <1>4 DEF Init, HashInv

LEMMA CallStep ==
  ASSUME HashInv, NEW o, NEW n \in Name, NEW v \in Nat, o = "set" => v \in Value, Call(o, n, v)
  PROVE  HashInv'
<1>1. TableSound(arena, hmax, hentry, unused) /\ Keyed(arena)
  BY DEF HashInv
<1>2. /\ op' = o /\ sought' = n /\ stored' = v /\ answer' = <<>>
      /\ e' = hentry[Hash[n] % hmax]
      /\ interning' = interning /\ arena' = arena /\ hmax' = hmax /\ hentry' = hentry
      /\ unused' = unused /\ size' = size /\ list' = list
      /\ IF interning THEN o \in {"intern", "find"} ELSE o \in {"get", "set", "remove"}
  BY DEF Call, table
<1>3. Ahead(arena, n, hentry[Hash[n] % hmax])
  BY <1>1, AheadStart
<1>4. e' \in Cell \cup {0}
  BY <1>2, <1>3 DEF Ahead, UsedOf, Cell
<1>5. Types'
  BY <1>2, <1>4 DEF HashInv, Types, Cell
<1> QED
  BY <1>2, <1>3, <1>5 DEF HashInv

LEMMA WalkStep ==
  ASSUME HashInv, Walk PROVE HashInv'
<1>1. TableSound(arena, hmax, hentry, unused) /\ Keyed(arena) /\ Ahead(arena, sought, e)
  BY DEF HashInv, Walk
<1>2. /\ op' = op /\ sought' = sought /\ stored' = stored /\ answer' = answer
      /\ e' = arena[e].next /\ e # 0
      /\ interning' = interning /\ arena' = arena /\ hmax' = hmax /\ hentry' = hentry
      /\ unused' = unused /\ size' = size /\ list' = list
      /\ ~ (arena[e].hcode = Hash[sought] /\ arena[e].key = sought)
  BY DEF Walk, table, Match
<1>3. Ahead(arena, sought, arena[e].next)
  BY <1>1, <1>2, AheadStep
<1>4. e' \in Cell \cup {0}
  BY <1>2, <1>3 DEF Ahead, UsedOf, Cell
<1>5. Types'
  BY <1>2, <1>4 DEF HashInv, Types, Cell
<1> QED
  BY <1>2, <1>3, <1>5 DEF HashInv

(* What a lookup has found is the entry of the name.                       *)
LEMMA MatchIs ==
  ASSUME HashInv, op # "none", e # 0, Match(e)
  PROVE  /\ e \in UsedOf(arena) /\ e \in Cell /\ arena[e].key = sought /\ sought \in Name
         /\ arena[e].value \in Nat /\ arena[e] \in Entry
<1>1. Ahead(arena, sought, e) /\ arena \in Seq(Entry)
  BY DEF HashInv, TableSound
<1>2. e \in UsedOf(arena) /\ sought \in Name /\ e \in DOMAIN arena
  BY <1>1 DEF Ahead, UsedOf
<1>3. arena[e].value \in Nat /\ arena[e] \in Entry
  BY <1>1, <1>2, ArenaType
<1> QED
  BY <1>2, <1>3 DEF Match, Cell

LEMMA FoundStep ==
  ASSUME HashInv, Found \/ NotFound PROVE HashInv'
<1>1. /\ op' = "none" /\ sought' = NULL /\ stored' = 0 /\ e' = 0
      /\ interning' = interning /\ arena' = arena /\ hmax' = hmax /\ hentry' = hentry
      /\ unused' = unused /\ size' = size /\ list' = list
  BY DEF Found, NotFound, Return, table
<1>2. answer' \in {<<>>} \cup (Name \X (Nat \cup {Absent}))
  <2>1. CASE Found
    <3>1. op # "none" /\ e # 0 /\ Match(e) /\ answer' = <<sought, arena[e].value>>
      BY <2>1 DEF Found
    <3> QED
      BY <3>1, MatchIs
  <2>2. CASE NotFound
    BY <2>2 DEF NotFound, HashInv, Ahead
  <2> QED
    BY <2>1, <2>2
<1>3. Types'
  BY <1>1, <1>2 DEF HashInv, Types
<1> QED
  BY <1>1, <1>3 DEF HashInv

LEMMA InternStep ==
  ASSUME HashInv, Intern
  PROVE  HashInv' /\ \E u : Gains(arena, arena', u, sought, size) /\ size < MaxArena
<1> DEFINE u == IF unused = 0 THEN Len(arena) + 1 ELSE unused
<1>1. /\ TableSound(arena, hmax, hentry, unused) /\ Keyed(arena) /\ interning
      /\ Ahead(arena, sought, 0) /\ Symbols(arena, list, size) /\ size = Cardinality(UsedOf(arena))
      /\ list \in Seq(Name) /\ size \in Nat /\ sought \in Name
  BY DEF HashInv, Intern, Types, Ahead
<1>2. /\ op' = op /\ op = "intern" /\ sought' = sought /\ stored' = stored /\ answer' = answer
      /\ e' = u /\ interning' = interning /\ list' = Append(list, sought)
      /\ NewEntry(sought, Len(list)) /\ size' = size + 1
  BY DEF Intern, NewEntry
<1>3. Len(list) = size
  BY <1>1 DEF Symbols
<1>4. arena \in Seq(Entry)
  BY <1>1 DEF TableSound
<1>5. /\ TableSound(arena', hmax', hentry', unused')
      /\ Gains(arena, arena', u, sought, size) /\ Len(arena') <= MaxArena /\ u # 0
  BY <1>1, <1>2, <1>3, NewEntryGains
<1> HIDE DEF u
<1>6. \A c \in UsedOf(arena) : arena[c].key # sought
  BY <1>1, NotThere
<1>7. Keyed(arena') /\ Cardinality(UsedOf(arena')) = size + 1
  BY <1>1, <1>4, <1>5, <1>6, GainsKeeps
<1>8. /\ arena' \in Seq(Entry) /\ u \in DOMAIN arena' /\ u \notin UsedOf(arena)
      /\ UsedOf(arena') = UsedOf(arena) \cup {u}
      /\ \A c \in UsedOf(arena) : /\ arena'[c].key = arena[c].key
                                  /\ arena'[c].value = arena[c].value
      /\ arena'[u].key = sought /\ arena'[u].value = size
  BY <1>5 DEF Gains, SameData
<1>9. Ahead(arena', sought, u)
  <2>1. NextsOf(arena') \in Nexts(DOMAIN arena') /\ 0 \notin DOMAIN arena'
    <3> DEFINE a == arena'
               n == hmax'
               h == hentry'
               f == unused'
    <3>1. TableSound(a, n, h, f)
      BY <1>5
    <3> HIDE DEF a, n, h, f
    <3>2. NextsOf(a) \in Nexts(DOMAIN a) /\ 0 \notin DOMAIN a
      BY <3>1, TableFacts
    <3> QED
      BY <3>2 DEF a
  <2>2. u \in Reach(NextsOf(arena'), u)
    <3> DEFINE D == DOMAIN arena'
               nx == NextsOf(arena')
    <3>1. nx \in Nexts(D) /\ 0 \notin D /\ u \in D \cup {0} /\ u # 0
      BY <1>5, <1>8, <2>1
    <3> HIDE DEF D, nx
    <3>2. u \in Reach(nx, u)
      BY <3>1, ReachClosed
    <3> QED
      BY <3>2 DEF nx
  <2>3. \A c \in UsedOf(arena') : arena'[c].key = sought => c = u
    BY <1>6, <1>8
  <2> QED
    BY <1>1, <1>8, <2>2, <2>3 DEF Ahead
<1>10. Symbols(arena', list', size')
  <2>1. /\ list' \in Seq(Name) /\ Len(list') = size + 1 /\ DOMAIN list' = 1 .. size + 1
        /\ \A i \in 1 .. size : list'[i] = list[i]
        /\ list'[size + 1] = sought /\ DOMAIN list = 1 .. size
    BY <1>1, <1>2, <1>3, AppendProperties, LenProperties
  <2>2. /\ \A i, j \in DOMAIN list : list[i] = list[j] => i = j
        /\ \A c \in UsedOf(arena) : arena[c].value < size /\ list[arena[c].value + 1] = arena[c].key
        /\ \A i \in DOMAIN list : \E c \in UsedOf(arena) : arena[c].key = list[i]
    BY <1>1, <1>3 DEF Symbols
  <2>3. \A i \in 1 .. size : list[i] # sought
    BY <1>6, <2>1, <2>2
  <2>4. \A i \in 1 .. size + 1 : i \in 1 .. size \/ i = size + 1
    BY <1>1
  <2>5. ASSUME NEW i \in DOMAIN list', NEW j \in DOMAIN list', list'[i] = list'[j]
        PROVE  i = j
    BY <2>1, <2>2, <2>3, <2>4, <2>5
  <2>6. ASSUME NEW c \in UsedOf(arena')
        PROVE  arena'[c].value < size + 1 /\ list'[arena'[c].value + 1] = arena'[c].key
    <3>1. CASE c = u
      BY <1>1, <1>8, <2>1, <3>1
    <3>2. CASE c \in UsedOf(arena)
      <4>1. c \in DOMAIN arena
        BY <3>2 DEF UsedOf
      <4>2. arena[c].value \in Nat
        BY <1>4, <4>1, ArenaType
      <4>3. arena[c].value < size /\ arena[c].value + 1 \in 1 .. size
        BY <1>1, <2>2, <3>2, <4>2
      <4>4. arena'[c].value = arena[c].value /\ arena'[c].key = arena[c].key
        BY <1>8, <3>2
      <4>5. list[arena[c].value + 1] = arena[c].key
        BY <2>2, <3>2
      <4>6. list'[arena[c].value + 1] = list[arena[c].value + 1]
        BY <2>1, <4>3
      <4>7. arena[c].value < size + 1
        BY <1>1, <4>2, <4>3
      <4> QED
        BY ONLY <4>4, <4>5, <4>6, <4>7
    <3> QED
      BY <1>8, <3>1, <3>2
  <2>7. ASSUME NEW i \in DOMAIN list'
        PROVE  \E c \in UsedOf(arena') : arena'[c].key = list'[i]
    <3>1. CASE i \in 1 .. size
      <4>1. PICK c \in UsedOf(arena) : arena[c].key = list[i]
        BY <2>1, <2>2, <3>1
      <4> QED
        BY <1>8, <2>1, <3>1, <4>1
    <3>2. CASE i = size + 1
      BY <1>8, <2>1, <3>2
    <3> QED
      BY <2>1, <2>4, <3>1, <3>2
  <2> QED
    BY <1>2, <2>1, <2>5, <2>6, <2>7 DEF Symbols
<1>11. Types'
  <2>1. list' \in Seq(Name)
    BY <1>1, <1>2, AppendProperties
  <2>2. e' \in Cell'
    BY <1>2, <1>8 DEF Cell
  <2> QED
    BY <1>1, <1>2, <2>1, <2>2 DEF HashInv, Types
<1>12. size < MaxArena
  <2>1. size + 1 <= Len(arena') /\ Len(arena') \in Nat
    <3> DEFINE g == arena'
    <3>1. g \in Seq(Entry) /\ Cardinality(UsedOf(g)) = size + 1
      BY <1>7, <1>8
    <3> HIDE DEF g
    <3>2. Cardinality(UsedOf(g)) <= Len(g) /\ Len(g) \in Nat
      BY <3>1, UsedFinite, ArenaType
    <3> QED
      BY <3>1, <3>2 DEF g
  <2> QED
    BY <1>1, <1>5, <2>1, HashAssumption
<1>13. HashInv'
  BY <1>2, <1>5, <1>7, <1>9, <1>10, <1>11 DEF HashInv
<1> QED
  BY <1>5, <1>12, <1>13

(* The value of the entry that was found is changed.                       *)
LEMMA SetFound ==
  ASSUME HashInv, Set, e # 0, Match(e)
  PROVE  /\ TableSound(arena', hmax', hentry', unused') /\ Keyed(arena')
         /\ UsedOf(arena') = UsedOf(arena) /\ size' = size
         /\ \A c \in UsedOf(arena) : arena'[c].key = arena[c].key
         /\ \A c \in UsedOf(arena) : c # e => arena'[c].value = arena[c].value
         /\ arena'[e].value = stored /\ stored \in Value
<1> DEFINE x == [arena[e] EXCEPT !.value = stored]
           g == [arena EXCEPT ![e] = x]
<1>1. /\ TableSound(arena, hmax, hentry, unused) /\ Keyed(arena)
      /\ arena \in Seq(Entry) /\ stored \in Nat /\ stored \in Value
  BY DEF HashInv, TableSound, Types, Set
<1>2. e \in UsedOf(arena) /\ e \in DOMAIN arena /\ arena[e] \in Entry
  BY MatchIs DEF Set, Cell
<1>3. hmax' = hmax /\ hentry' = hentry /\ unused' = unused /\ size' = size /\ arena' = g
  <2>1. [arena EXCEPT ![e].value = stored] = g
    BY <1>2
  <2> QED
    BY <2>1 DEF Set
<1>4. /\ x \in Entry /\ x.hcode = arena[e].hcode /\ x.key = arena[e].key
      /\ x.next = arena[e].next /\ x.value = stored
  BY <1>1, <1>2 DEF Entry
<1> HIDE DEF x
<1>5. /\ g \in Seq(Entry) /\ DOMAIN g = DOMAIN arena /\ Len(g) = Len(arena)
      /\ g[e] = x /\ \A c \in DOMAIN arena : c # e => g[c] = arena[c]
  BY <1>1, <1>2, <1>4, Changed
<1> HIDE DEF g
<1>6. \A c \in DOMAIN arena : /\ g[c].hcode = arena[c].hcode /\ g[c].key = arena[c].key
                              /\ g[c].next = arena[c].next
                              /\ c # e => g[c].value = arena[c].value
  BY <1>4, <1>5
<1>7. NextsOf(g) = NextsOf(arena)
  BY <1>5, <1>6 DEF NextsOf
<1>8. UsedOf(g) = UsedOf(arena) /\ FreeOf(g) = FreeOf(arena)
  BY <1>5, <1>6 DEF UsedOf, FreeOf
<1>9. ChainsOf(g, hmax) = ChainsOf(arena, hmax)
  <2>1. \A b : InChain(g, hmax, b) = InChain(arena, hmax, b)
    BY <1>5, <1>6 DEF InChain
  <2> QED
    BY <2>1 DEF ChainsOf
<1>10. g # <<>>
  BY <1>2, <1>5
<1>11. TableSound(g, hmax, hentry, unused)
  BY <1>1, <1>5, <1>7, <1>8, <1>9, <1>10 DEF TableSound
<1>12. Keyed(g)
  <2>1. \A c \in UsedOf(arena) : c \in DOMAIN arena
    BY DEF UsedOf
  <2> QED
    BY <1>1, <1>6, <1>8, <2>1 DEF Keyed
<1> QED
  BY <1>1, <1>3, <1>4, <1>5, <1>6, <1>8, <1>11, <1>12 DEF UsedOf

(* Or an entry is new.                                                     *)
LEMMA SetNew ==
  ASSUME HashInv, op = "set", e = 0, NewEntry(sought, stored)
  PROVE  /\ TableSound(arena', hmax', hentry', unused') /\ Keyed(arena')
         /\ size' = Cardinality(UsedOf(arena'))
         /\ \E u : Gains(arena, arena', u, sought, stored)
         /\ \A c \in UsedOf(arena) : arena[c].key # sought
         /\ sought \in Name /\ stored \in Value
<1> DEFINE u == IF unused = 0 THEN Len(arena) + 1 ELSE unused
<1>1. /\ TableSound(arena, hmax, hentry, unused) /\ Keyed(arena) /\ arena \in Seq(Entry)
      /\ Ahead(arena, sought, 0) /\ size = Cardinality(UsedOf(arena)) /\ size \in Nat
      /\ sought \in Name /\ stored \in Nat /\ stored \in Value
  BY DEF HashInv, Types, Ahead, TableSound
<1>2. /\ TableSound(arena', hmax', hentry', unused')
      /\ Gains(arena, arena', u, sought, stored)
  BY <1>1, NewEntryGains
<1>3. \A c \in UsedOf(arena) : arena[c].key # sought
  BY <1>1, NotThere
<1> HIDE DEF u
<1>4. Keyed(arena') /\ Cardinality(UsedOf(arena')) = size + 1
  BY <1>1, <1>2, <1>3, GainsKeeps
<1>5. size' = size + 1
  BY DEF NewEntry
<1> QED
  BY <1>1, <1>2, <1>3, <1>4, <1>5

LEMMA SetStep ==
  ASSUME HashInv, Set PROVE HashInv'
<1>1. /\ op = "set" /\ op' = "none" /\ sought' = NULL /\ stored' = 0 /\ e' = 0
      /\ interning' = interning /\ list' = list /\ answer' = answer /\ ~ interning
  BY DEF Set, Return, HashInv, Types
<1>2. /\ TableSound(arena', hmax', hentry', unused') /\ Keyed(arena')
      /\ size' = Cardinality(UsedOf(arena')) /\ size' \in Nat
  <2>1. CASE e # 0 /\ Match(e)
    BY <2>1, SetFound DEF HashInv, Types
  <2>2. CASE e = 0 /\ NewEntry(sought, stored)
    <3>1. size' = size + 1 /\ size \in Nat
      BY <2>2 DEF HashInv, Types, NewEntry
    <3> QED
      BY <1>1, <2>2, <3>1, SetNew
  <2> QED
    BY <2>1, <2>2 DEF Set
<1>3. Types'
  BY <1>1, <1>2 DEF HashInv, Types
<1> QED
  BY <1>1, <1>2, <1>3 DEF HashInv

LEMMA RemoveFound ==
  ASSUME HashInv, Remove, e # 0, Match(e)
  PROVE  /\ TableSound(arena', hmax', hentry', unused') /\ Keyed(arena')
         /\ size' = Cardinality(UsedOf(arena')) /\ size' \in Nat
         /\ UsedOf(arena') = UsedOf(arena) \ {e}
         /\ \A c \in UsedOf(arena') : SameData(arena[c], arena'[c])
<1>1. /\ TableSound(arena, hmax, hentry, unused) /\ Keyed(arena) /\ arena \in Seq(Entry)
      /\ size = Cardinality(UsedOf(arena)) /\ size \in Nat
  BY DEF HashInv, TableSound, Types
<1>2. e \in UsedOf(arena) /\ e \in DOMAIN arena /\ arena[e].hcode # Free
  BY MatchIs DEF Remove, UsedOf
<1> DEFINE before == {p \in DOMAIN arena : arena[p].hcode # Free /\ arena[p].next = e}
           b == arena[e].hcode % hmax
           g == [c \in DOMAIN arena |->
             IF c = e THEN [hcode |-> Free, key |-> arena[e].key, value |-> 0, next |-> unused]
             ELSE IF c \in before THEN [arena[c] EXCEPT !.next = arena[e].next]
             ELSE arena[c]]
           h == IF before = {} THEN [hentry EXCEPT ![b] = arena[e].next] ELSE hentry
<1>3. arena' = g /\ hentry' = h /\ unused' = e /\ size' = size - 1 /\ hmax' = hmax
  BY DEF Remove, Before, Cell
<1>4. /\ TableSound(g, hmax, h, e) /\ DOMAIN g = DOMAIN arena /\ g[e].hcode = Free
      /\ \A c \in DOMAIN arena : c # e => SameData(arena[c], g[c])
  BY <1>1, <1>2, RemoveEntry
<1> HIDE DEF g, h
<1>5. UsedOf(g) = UsedOf(arena) \ {e}
  BY <1>2, <1>4 DEF UsedOf, SameData
<1>6. \A c \in UsedOf(g) : SameData(arena[c], g[c])
  BY <1>4, <1>5 DEF UsedOf
<1>7. Keyed(g)
  BY <1>1, <1>5, <1>6 DEF Keyed, SameData
<1>8. Cardinality(UsedOf(g)) = size - 1 /\ Cardinality(UsedOf(g)) \in Nat
  <2>1. IsFiniteSet(UsedOf(arena))
    BY <1>1, UsedFinite
  <2>2. g \in Seq(Entry)
    BY <1>4 DEF TableSound
  <2> QED
    BY <1>1, <1>2, <1>5, <2>1, <2>2, FS_RemoveElement, UsedFinite
<1> QED
  BY <1>3, <1>4, <1>5, <1>6, <1>7, <1>8

LEMMA RemoveStep ==
  ASSUME HashInv, Remove PROVE HashInv'
<1>1. /\ op = "remove" /\ op' = "none" /\ sought' = NULL /\ stored' = 0 /\ e' = 0
      /\ interning' = interning /\ list' = list /\ answer' = answer /\ ~ interning
  BY DEF Remove, Return, HashInv, Types
<1>2. /\ TableSound(arena', hmax', hentry', unused') /\ Keyed(arena')
      /\ size' = Cardinality(UsedOf(arena')) /\ size' \in Nat
  <2>1. CASE e # 0 /\ Match(e)
    BY <2>1, RemoveFound
  <2>2. CASE e = 0 /\ UNCHANGED table
    BY <2>2 DEF HashInv, Types, table
  <2> QED
    BY <2>1, <2>2 DEF Remove
<1>3. Types'
  BY <1>1, <1>2 DEF HashInv, Types
<1> QED
  BY <1>1, <1>2, <1>3 DEF HashInv

LEMMA HashNext == HashInv /\ [Next]_vars => HashInv'
<1> SUFFICES ASSUME HashInv, [Next]_vars PROVE HashInv'
  OBVIOUS
<1>1. ASSUME NEW n \in Name, NEW o \in {"intern", "find", "get", "remove"}, Call(o, n, 0)
      PROVE  HashInv'
  BY <1>1, CallStep
<1>2. ASSUME NEW n \in Name, NEW v \in Value, Call("set", n, v)
      PROVE  HashInv'
  BY <1>2, CallStep, HashAssumption
<1>3. CASE UNCHANGED vars
  BY <1>3 DEF vars, table, call, HashInv, Types, Cell
<1> QED
  BY <1>1, <1>2, <1>3, WalkStep, FoundStep, InternStep, SetStep, RemoveStep DEF Next

LEMMA Invariant == Spec => []HashInv
BY HashInit, HashNext, PTL DEF Spec

(***************************************************************************)
(* What follows.                                                           *)
(***************************************************************************)

(* The pointers to an entry are counted.                                   *)
LEMMA PointersCount ==
  ASSUME TableSound(arena, hmax, hentry, unused), NEW c \in Cell
  PROVE  Cardinality(Pointers(c)) = IF c = unused THEN 0 ELSE 1
<1>1. arena \in Seq(Entry) /\ hmax \in Nat \ {0}
  BY DEF TableSound
<1>2. Len(arena) \in Nat /\ Cell = 1 .. Len(arena)
  BY <1>1, ArenaType DEF Cell
<1> DEFINE Q == {q \in Cell : arena[q].next = c}
           P == {-p : p \in Q}
           H == {b \in 0 .. hmax - 1 : hentry[b] = c}
<1>3. Pointers(c) = H \cup P
  BY DEF Pointers
<1>4. \A p \in Cell : NextsOf(arena)[p] = arena[p].next
  BY DEF NextsOf, Cell
<1>5. IsFiniteSet({}) /\ Cardinality({}) = 0 /\ \A x : IsFiniteSet({x}) /\ Cardinality({x}) = 1
  BY FS_EmptySet, FS_Singleton
<1>6. CASE c = unused
  <2>1. NoPointer(Cell, NextsOf(arena), hmax, hentry, c)
    BY <1>6 DEF TableSound, Sound, Pointed, Cell
  <2>2. H = {} /\ Q = {}
    BY <1>4, <2>1 DEF NoPointer
  <2>3. P = {}
    BY <2>2
  <2> QED
    BY <1>3, <1>5, <1>6, <2>2, <2>3
<1>7. CASE c # unused
  <2>1. OnePointer(Cell, NextsOf(arena), hmax, hentry, c)
    BY <1>7 DEF TableSound, Sound, Pointed, Cell
  <2>2. CASE \E p \in Cell : NextsOf(arena)[p] = c
    <3>1. PICK p \in Cell : NextsOf(arena)[p] = c
      BY <2>2
    <3>2. Q = {p}
      BY <1>4, <2>1, <3>1 DEF OnePointer
    <3>3. H = {}
      BY <2>1, <3>1 DEF OnePointer
    <3>4. P = {-p}
      BY <3>2
    <3>5. Pointers(c) = {-p}
      BY <1>3, <3>3, <3>4
    <3> QED
      BY <1>5, <1>7, <3>5
  <2>3. CASE \E b \in 0 .. hmax - 1 : hentry[b] = c
    <3>1. PICK b \in 0 .. hmax - 1 : hentry[b] = c
      BY <2>3
    <3>2. H = {b}
      BY <2>1, <3>1 DEF OnePointer
    <3>3. Q = {}
      BY <1>4, <2>1, <3>1 DEF OnePointer
    <3>4. P = {}
      BY <3>3
    <3>5. Pointers(c) = {b}
      BY <1>3, <3>2, <3>4
    <3> QED
      BY <1>5, <1>7, <3>5
  <2> QED
    BY <2>1, <2>2, <2>3 DEF OnePointer
<1> QED
  BY <1>6, <1>7

LEMMA ChainIs ==
  ASSUME NEW c PROVE Chain(c) = Reach(NextsOf(arena), c)
<1>1. Links = Edges(NextsOf(arena))
  BY DEF Links, Edges, NextsOf, Cell
<1> QED
  BY <1>1 DEF Chain, Reach

LEMMA InvariantImplies == HashInv => IInv
<1> SUFFICES ASSUME HashInv PROVE IInv
  OBVIOUS
<1>1. /\ TableSound(arena, hmax, hentry, unused) /\ Keyed(arena)
      /\ arena \in Seq(Entry) /\ hmax \in Nat \ {0} /\ Types
      /\ size = Cardinality(UsedOf(arena))
  BY DEF HashInv, TableSound
<1>2. InUse = UsedOf(arena) /\ Cell \ InUse = FreeOf(arena)
  BY DEF InUse, UsedOf, FreeOf, Cell
<1>3. /\ hentry \in Heads(hmax, DOMAIN arena) /\ unused \in DOMAIN arena \cup {0}
      /\ \A b \in 0 .. hmax - 1 : Reach(NextsOf(arena), hentry[b]) = InChain(arena, hmax, b)
  BY <1>1, TableFacts
<1>4. TypeOK
  BY <1>1, <1>3 DEF TypeOK, Types, Heads, Cell
<1>5. ChainsSound
  <2>1. Chain(unused) = Cell \ InUse
    BY <1>1, <1>2, ChainIs DEF TableSound, Sound
  <2>2. ASSUME NEW b \in 0 .. hmax - 1
        PROVE  Chain(hentry[b]) = {c \in InUse : arena[c].hcode % hmax = b}
    <3>1. InChain(arena, hmax, b) = {c \in InUse : arena[c].hcode % hmax = b}
      BY DEF InChain, InUse, Cell
    <3> QED
      BY <1>3, <3>1, ChainIs
  <2>3. \A c \in Cell : Cardinality(Pointers(c)) = IF c = unused THEN 0 ELSE 1
    BY <1>1, PointersCount
  <2> QED
    BY <1>1, <1>2, <2>1, <2>2, <2>3 DEF ChainsSound, Keyed
<1>6. Searching
  <2>1. op # "none" => sought \in Name /\ e \notin Cell \ InUse
    BY <1>2 DEF HashInv, Ahead, UsedOf, FreeOf, TableSound, Types
  <2>2. ASSUME op # "none", NEW c \in InUse, arena[c].key = sought
        PROVE  c \in Chain(e)
    BY <1>2, <2>2, ChainIs DEF HashInv, Ahead
  <2> QED
    BY <1>1, <2>1, <2>2 DEF Searching, Types
<1> QED
  BY <1>4, <1>5, <1>6 DEF IInv

(* Every entry is on the chain of its hash or on the free list, and is     *)
(* pointed at once, through any sequence of calls and growths; and a       *)
(* lookup is never past the entry it looks for (KHashMap_newEntry,         *)
(* KHashMap_Remove, KHashMap_Rehash).                                      *)
THEOREM ChainsAreSound == Spec => []IInv
BY Invariant, InvariantImplies, PTL

(* A symbol and its name determine each other (KHashMap_getcode).          *)
THEOREM SymbolsAreNames == Spec => []SymbolsAndNames
<1>1. HashInv => SymbolsAndNames
  <2> SUFFICES ASSUME HashInv PROVE SymbolsAndNames
    OBVIOUS
  <2>1. InUse = UsedOf(arena)
    BY DEF InUse, UsedOf, Cell
  <2>2. interning => Symbols(arena, list, size)
    BY DEF HashInv
  <2> QED
    BY <2>1, <2>2 DEF SymbolsAndNames, Symbols, IsInjective
<1> QED
  BY <1>1, Invariant, PTL

(***************************************************************************)
(* The table implements PropertyMap.                                       *)
(***************************************************************************)
ContentOf(a) == [n \in Name |-> IF \E c \in UsedOf(a) : a[c].key = n
                                THEN a[CHOOSE c \in UsedOf(a) : a[c].key = n].value
                                ELSE Absent]

LEMMA ContentIs ==
  ASSUME NEW a, Keyed(a), NEW n \in Name
  PROVE  /\ \A c \in UsedOf(a) : a[c].key = n => ContentOf(a)[n] = a[c].value
         /\ (\A c \in UsedOf(a) : a[c].key # n) => ContentOf(a)[n] = Absent
<1>1. ASSUME NEW c \in UsedOf(a), a[c].key = n
      PROVE  ContentOf(a)[n] = a[c].value
  <2> DEFINE d == CHOOSE d \in UsedOf(a) : a[d].key = n
  <2>1. d \in UsedOf(a) /\ a[d].key = n
    BY <1>1
  <2>2. d = c
    BY <1>1, <2>1 DEF Keyed
  <2>3. ContentOf(a)[n] = a[d].value
    BY <1>1 DEF ContentOf
  <2> QED
    BY <2>2, <2>3
<1>2. ASSUME \A c \in UsedOf(a) : a[c].key # n
      PROVE  ContentOf(a)[n] = Absent
  BY <1>2 DEF ContentOf
<1> QED
  BY <1>1, <1>2

(* Two tables have one content if their entries have.                      *)
LEMMA ContentUpdate ==
  ASSUME NEW a, NEW g, Keyed(a), Keyed(g), NEW k \in Name, NEW v,
         \A n \in Name \ {k} : \A c \in UsedOf(a) : a[c].key = n =>
            \E d \in UsedOf(g) : g[d].key = n /\ g[d].value = a[c].value,
         \A n \in Name \ {k} : \A d \in UsedOf(g) : g[d].key = n =>
            \E c \in UsedOf(a) : a[c].key = n,
         ContentOf(g)[k] = v
  PROVE  ContentOf(g) = [ContentOf(a) EXCEPT ![k] = v]
<1>1. ASSUME NEW n \in Name \ {k}
      PROVE  ContentOf(g)[n] = ContentOf(a)[n]
  <2>1. CASE \E c \in UsedOf(a) : a[c].key = n
    <3>1. PICK c \in UsedOf(a) : a[c].key = n
      BY <2>1
    <3>2. PICK d \in UsedOf(g) : g[d].key = n /\ g[d].value = a[c].value
      BY <3>1
    <3>3. ContentOf(a)[n] = a[c].value
      BY <3>1, ContentIs
    <3>4. ContentOf(g)[n] = g[d].value
      BY <3>2, ContentIs
    <3> QED
      BY <3>2, <3>3, <3>4
  <2>2. CASE \A c \in UsedOf(a) : a[c].key # n
    <3>1. \A d \in UsedOf(g) : g[d].key # n
      BY <2>2
    <3>2. ContentOf(a)[n] = Absent
      BY <2>2, ContentIs
    <3>3. ContentOf(g)[n] = Absent
      BY <3>1, ContentIs
    <3> QED
      BY <3>2, <3>3
  <2> QED
    BY <2>1, <2>2
<1> DEFINE f == ContentOf(a)
           h == ContentOf(g)
<1>2. f = [n \in Name |-> f[n]] /\ h = [n \in Name |-> h[n]]
  BY DEF ContentOf
<1> HIDE DEF f, h
<1>3. \A n \in Name : h[n] = [f EXCEPT ![k] = v][n]
  BY <1>1, <1>2 DEF f, h
<1>4. h = [f EXCEPT ![k] = v]
  BY <1>2, <1>3
<1> QED
  BY <1>4 DEF f, h

LEMMA ContentGains ==
  ASSUME NEW a, NEW g, NEW u, NEW k \in Name, NEW v, Gains(a, g, u, k, v),
         Keyed(a), Keyed(g)
  PROVE  ContentOf(g) = [ContentOf(a) EXCEPT ![k] = v]
<1>1. /\ UsedOf(g) = UsedOf(a) \cup {u} /\ g[u].key = k /\ g[u].value = v
      /\ \A c \in UsedOf(a) : g[c].key = a[c].key /\ g[c].value = a[c].value
  BY DEF Gains, SameData
<1>2. ContentOf(g)[k] = v
  BY <1>1, ContentIs
<1>3. \A n \in Name \ {k} : \A c \in UsedOf(a) : a[c].key = n =>
         \E d \in UsedOf(g) : g[d].key = n /\ g[d].value = a[c].value
  BY <1>1
<1>4. \A n \in Name \ {k} : \A d \in UsedOf(g) : g[d].key = n =>
         \E c \in UsedOf(a) : a[c].key = n
  BY <1>1
<1> QED
  BY <1>2, <1>3, <1>4, ContentUpdate

LEMMA ContentDef == Content = ContentOf(arena)
BY DEF Content, ContentOf, EntryOf, InUse, UsedOf, Cell

LEMMA MapInit == Init => Map!Init
<1> SUFFICES ASSUME Init PROVE Map!Init
  OBVIOUS
<1>1. UsedOf(arena) = {}
  BY InitTable
<1>2. Content = [k \in Name |-> Absent]
  BY <1>1, ContentDef DEF ContentOf
<1> QED
  BY <1>2 DEF Init, Map!Init, Map!NoPairs

LEMMA MapPut ==
  ASSUME NEW k \in Name, NEW v \in Value \cup 0 .. MaxArena,
         ContentOf(arena') = [ContentOf(arena) EXCEPT ![k] = v], answer' = answer
  PROVE  Map!Next
<1>1. Map!Put(k, v)
  BY ContentDef DEF Map!Put, Content, ContentOf, EntryOf, InUse, UsedOf, Cell
<1> QED
  BY <1>1 DEF Map!Next

LEMMA MapNext == HashInv /\ [Next]_vars => [Map!Next]_(Map!vars)
<1> SUFFICES ASSUME HashInv, [Next]_vars PROVE [Map!Next]_(Map!vars)
  OBVIOUS
<1> USE DEF Map!vars
<1>0. Keyed(arena) /\ HashInv'
  BY HashNext DEF HashInv
<1>1. Keyed(arena')
  BY <1>0 DEF HashInv
<1>2. Content = ContentOf(arena) /\ Content' = ContentOf(arena')
  BY ContentDef DEF Content, ContentOf, EntryOf, InUse, UsedOf, Cell
<1>3. ASSUME NEW o, NEW n, NEW v, Call(o, n, v) PROVE Map!Next
  <2>1. arena' = arena /\ answer' = <<>>
    BY <1>3 DEF Call, table
  <2>2. Map!Forget
    BY <1>2, <2>1 DEF Map!Forget
  <2> QED
    BY <2>2 DEF Map!Next
<1>4. CASE Walk
  <2>1. arena' = arena /\ answer' = answer
    BY <1>4 DEF Walk, table
  <2> QED
    BY <1>2, <2>1
<1>5. CASE Found
  <2>1. /\ arena' = arena /\ answer' = <<sought, arena[e].value>>
        /\ e \in UsedOf(arena) /\ arena[e].key = sought /\ sought \in Name
    BY <1>5, MatchIs DEF Found, table
  <2>2. ContentOf(arena)[sought] = arena[e].value
    BY <1>0, <2>1, ContentIs
  <2>3. Map!Lookup(sought)
    BY <1>2, <2>1, <2>2 DEF Map!Lookup
  <2> QED
    BY <2>1, <2>3 DEF Map!Next
<1>6. CASE NotFound
  <2>1. /\ arena' = arena /\ answer' = <<sought, Absent>> /\ Ahead(arena, sought, 0)
        /\ sought \in Name
    BY <1>6 DEF NotFound, table, HashInv, Ahead
  <2>2. ContentOf(arena)[sought] = Absent
    BY <1>0, <2>1, NotThere, ContentIs
  <2>3. Map!Lookup(sought)
    BY <1>2, <2>1, <2>2 DEF Map!Lookup
  <2> QED
    BY <2>1, <2>3 DEF Map!Next
<1>7. CASE Intern
  <2>1. PICK u : Gains(arena, arena', u, sought, size) /\ size < MaxArena
    BY <1>7, InternStep
  <2>2. sought \in Name /\ size \in Nat /\ answer' = answer
    BY <1>7 DEF Intern, HashInv, Ahead, Types
  <2>3. ContentOf(arena') = [ContentOf(arena) EXCEPT ![sought] = size]
    BY <1>0, <1>1, <2>1, <2>2, ContentGains
  <2>4. size \in 0 .. MaxArena
    BY <2>1, <2>2, HashAssumption
  <2> QED
    BY <2>2, <2>3, <2>4, MapPut
<1>8. CASE Set
  <2>1. answer' = answer /\ op = "set"
    BY <1>8 DEF Set
  <2>2. CASE e # 0 /\ Match(e)
    <3>1. /\ UsedOf(arena') = UsedOf(arena) /\ e \in UsedOf(arena)
          /\ \A c \in UsedOf(arena) : arena'[c].key = arena[c].key
          /\ \A c \in UsedOf(arena) : c # e => arena'[c].value = arena[c].value
          /\ arena'[e].value = stored /\ stored \in Value
          /\ arena[e].key = sought /\ sought \in Name
      BY <1>8, <2>1, <2>2, SetFound, MatchIs
    <3> DEFINE a == arena
               g == arena'
    <3>2. Keyed(a) /\ Keyed(g)
      BY <1>0, <1>1
    <3>3. e \in UsedOf(g) /\ g[e].key = sought /\ g[e].value = stored
      BY <3>1
    <3>4. \A n \in Name \ {sought} : \A c \in UsedOf(a) : a[c].key = n =>
             \E d \in UsedOf(g) : g[d].key = n /\ g[d].value = a[c].value
      BY <3>1
    <3>5. \A n \in Name \ {sought} : \A d \in UsedOf(g) : g[d].key = n =>
             \E c \in UsedOf(a) : a[c].key = n
      BY <3>1
    <3> HIDE DEF a, g
    <3>6. ContentOf(g)[sought] = stored
      BY <3>1, <3>2, <3>3, ContentIs
    <3>7. ContentOf(g) = [ContentOf(a) EXCEPT ![sought] = stored]
      BY <3>1, <3>2, <3>4, <3>5, <3>6, ContentUpdate
    <3> QED
      BY <2>1, <3>1, <3>7, MapPut DEF a, g
  <2>3. CASE e = 0 /\ NewEntry(sought, stored)
    <3>1. PICK u : Gains(arena, arena', u, sought, stored)
      BY <2>1, <2>3, SetNew
    <3>2. sought \in Name /\ stored \in Value
      BY <2>1, <2>3, SetNew
    <3>3. ContentOf(arena') = [ContentOf(arena) EXCEPT ![sought] = stored]
      BY <1>0, <1>1, <3>1, <3>2, ContentGains
    <3> QED
      BY <2>1, <3>2, <3>3, MapPut
  <2> QED
    BY <1>8, <2>2, <2>3 DEF Set
<1>9. CASE Remove
  <2>1. answer' = answer /\ op = "remove"
    BY <1>9 DEF Remove
  <2>2. CASE e # 0 /\ Match(e)
    <3>1. /\ UsedOf(arena') = UsedOf(arena) \ {e} /\ e \in UsedOf(arena)
          /\ \A c \in UsedOf(arena') : SameData(arena[c], arena'[c])
          /\ arena[e].key = sought /\ sought \in Name /\ arena[e].value \in Nat
      BY <1>9, <2>1, <2>2, RemoveFound, MatchIs
    <3> DEFINE a == arena
               g == arena'
    <3>2. Keyed(a) /\ Keyed(g)
      BY <1>0, <1>1
    <3>3. \A n \in Name \ {sought} : \A c \in UsedOf(a) : a[c].key = n =>
             \E d \in UsedOf(g) : g[d].key = n /\ g[d].value = a[c].value
      BY <3>1 DEF SameData
    <3>4. \A n \in Name \ {sought} : \A d \in UsedOf(g) : g[d].key = n =>
             \E c \in UsedOf(a) : a[c].key = n
      BY <3>1 DEF SameData
    <3>5. \A d \in UsedOf(g) : g[d].key # sought
      BY <3>1, <3>2 DEF SameData, Keyed
    <3>6. ContentOf(a)[sought] = arena[e].value
      BY <3>1, <3>2, ContentIs
    <3> HIDE DEF a, g
    <3>7. ContentOf(g)[sought] = Absent
      BY <3>1, <3>2, <3>5, ContentIs
    <3>8. ContentOf(g) = [ContentOf(a) EXCEPT ![sought] = Absent]
      BY <3>1, <3>2, <3>3, <3>4, <3>7, ContentUpdate
    <3>9. ContentOf(a)[sought] # Absent
      BY <3>1, <3>6, HashAssumption
    <3>10. Map!Delete(sought)
      BY <1>2, <2>1, <3>8, <3>9 DEF Map!Delete, a, g
    <3> QED
      BY <3>1, <3>10 DEF Map!Next
  <2>3. CASE e = 0 /\ UNCHANGED table
    BY <1>2, <2>1, <2>3 DEF table
  <2> QED
    BY <1>9, <2>2, <2>3 DEF Remove
<1>10. CASE UNCHANGED vars
  BY <1>2, <1>10 DEF vars, table
<1> QED
  BY <1>3, <1>4, <1>5, <1>6, <1>7, <1>8, <1>9, <1>10 DEF Next

(* The table implements a map from names to values, with chains that are   *)
(* walked, shared by hashes and rebuilt when the arena grows, and with     *)
(* entries that are used again (KHashMap_getcode, kMap_getEntry).          *)
THEOREM ImplementsMap == Spec => MapSpec
BY Invariant, MapInit, MapNext, PTL DEF Spec, MapSpec, Map!Spec
=============================================================================
