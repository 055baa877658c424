------------------------ MODULE EventListenerProofs ------------------------
(***************************************************************************)
(* Proofs about EventListener, for rings of any size, any number of        *)
(* events, and calls of the program's thread nested to any depth.          *)
(***************************************************************************)
EXTENDS EventListener, SequenceTheorems, FiniteSetTheorems, TLAPS

----------------------------------------------------------------------------
(* Sequences seen from their ends.                                         *)

(* A sequence that is not empty is what comes before its last member, and  *)
(* that member.                                                            *)
LEMMA LastOff ==
  ASSUME NEW X, NEW t \in Seq(X), t # <<>>
  PROVE  /\ Front(t) \in Seq(X) /\ Last(t) \in X
         /\ t = Append(Front(t), Last(t))
         /\ \A g \in X : [t EXCEPT ![Len(t)] = g] = Append(Front(t), g)
<1> DEFINE n == Len(t)
<1>1. n \in Nat \ {0} /\ t \in [1 .. n -> X] /\ DOMAIN t = 1 .. n
  BY LenProperties, EmptySeq
<1>2. /\ Front(t) \in Seq(X) /\ Len(Front(t)) = n - 1
      /\ \A i \in 1 .. n - 1 : Front(t)[i] = t[i]
  BY <1>1, SubSeqProperties DEF Front
<1>3. Last(t) \in X /\ Last(t) = t[n]
  BY <1>1 DEF Last
<1> HIDE DEF n
<1>4. ASSUME NEW g \in X, NEW u \in Seq(X), Len(u) = n, u[n] = g,
             \A i \in 1 .. n - 1 : u[i] = t[i]
      PROVE  u = Append(Front(t), g)
  <2> DEFINE v == Append(Front(t), g)
  <2>1. /\ v \in Seq(X) /\ Len(v) = n /\ v[n] = g
        /\ \A i \in 1 .. n - 1 : v[i] = t[i]
    BY <1>1, <1>2, AppendProperties
  <2> HIDE DEF v
  <2>2. \A i \in 1 .. n : u[i] = v[i]
    BY <1>1, <1>4, <2>1
  <2>3. u = v
    BY <1>4, <2>1, <2>2, SeqEqual
  <2> QED
    BY <2>3 DEF v
<1>5. t = Append(Front(t), Last(t))
  BY <1>1, <1>3, <1>4 DEF n
<1>6. ASSUME NEW g \in X PROVE [t EXCEPT ![n] = g] = Append(Front(t), g)
  <2> DEFINE u == [t EXCEPT ![n] = g]
  <2>1. /\ u \in [1 .. n -> X] /\ u[n] = g
        /\ \A i \in 1 .. n - 1 : u[i] = t[i]
    BY <1>1
  <2> HIDE DEF u
  <2>2. u \in Seq(X) /\ Len(u) = n
    BY <1>1, <2>1, SeqDef, LenProperties
  <2> QED
    BY <1>4, <2>1, <2>2 DEF u
<1> QED
  BY <1>2, <1>3, <1>5, <1>6 DEF n

(* Members put on at the end.                                              *)
LEMMA PutOn ==
  ASSUME NEW X, NEW b \in Seq(X), NEW f \in X
  PROVE  /\ Append(b, f) \in Seq(X) /\ Len(Append(b, f)) = Len(b) + 1
         /\ Append(b, f) # <<>> /\ Front(Append(b, f)) = b /\ Last(Append(b, f)) = f
         /\ Append(b, f)[Len(b) + 1] = f /\ \A i \in 1 .. Len(b) : Append(b, f)[i] = b[i]
         /\ b \o <<f>> = Append(b, f)
<1> DEFINE n == Len(b)
           t == Append(b, f)
<1>1. n \in Nat
  BY LenProperties
<1>2. /\ t \in Seq(X) /\ Len(t) = n + 1 /\ t[n + 1] = f
      /\ \A i \in 1 .. n : t[i] = b[i]
  BY AppendProperties
<1>3. t # <<>>
  BY <1>1, <1>2, EmptySeq
<1>4. Last(t) = f
  BY <1>2 DEF Last
<1>5. Front(t) = b
  <2> HIDE DEF t
  <2>1. /\ Front(t) \in Seq(X) /\ Len(Front(t)) = n
        /\ \A i \in 1 .. n : Front(t)[i] = t[i]
    BY <1>1, <1>2, SubSeqProperties DEF Front
  <2> QED
    BY <1>1, <1>2, <2>1, SeqEqual
<1>6. b \o <<f>> = t
  <2> DEFINE u == <<f>>
  <2>1. u \in Seq(X) /\ Len(u) = 1 /\ u[1] = f
    OBVIOUS
  <2> HIDE DEF u
  <2> DEFINE w == b \o u
  <2>2. /\ w \in Seq(X) /\ Len(w) = Len(b) + Len(u)
        /\ \A i \in 1 .. Len(b) + Len(u) :
             w[i] = IF i <= Len(b) THEN b[i] ELSE u[i - Len(b)]
    BY ONLY b \in Seq(X), <2>1, ConcatProperties
  <2> HIDE DEF t, w
  <2>3. /\ w \in Seq(X) /\ Len(w) = n + 1
        /\ \A i \in 1 .. n + 1 : w[i] = IF i <= n THEN b[i] ELSE u[i - n]
    BY <2>1, <2>2
  <2> HIDE DEF n
  <2>4. \A i \in 1 .. n + 1 :
          (i \in 1 .. n /\ i <= n) \/ (i = n + 1 /\ ~ (i <= n) /\ i - n = 1)
    BY <1>1
  <2>5. \A i \in 1 .. n + 1 : w[i] = t[i]
    BY <1>2, <2>1, <2>3, <2>4
  <2>6. w = t
    BY <1>2, <2>3, <2>5, SeqEqual
  <2> QED
    BY <2>6 DEF w, u
<1> QED
  BY <1>2, <1>3, <1>4, <1>5, <1>6

LEMMA PutTwo ==
  ASSUME NEW X, NEW b \in Seq(X), NEW f \in X, NEW g \in X
  PROVE  b \o <<f, g>> = Append(Append(b, f), g)
<1> DEFINE n == Len(b)
           t == Append(b, f)
<1>1. n \in Nat
  BY LenProperties
<1>2. /\ t \in Seq(X) /\ Len(t) = n + 1 /\ t[n + 1] = f
      /\ \A i \in 1 .. n : t[i] = b[i]
  BY AppendProperties
<1>3. b \o <<f, g>> = Append(t, g)
  <2> DEFINE u == <<f, g>>
             v == Append(t, g)
             w == b \o u
  <2>1. u \in Seq(X) /\ Len(u) = 2 /\ u[1] = f /\ u[2] = g
    OBVIOUS
  <2> HIDE DEF u, t
  <2>2. /\ w \in Seq(X) /\ Len(w) = Len(b) + Len(u)
        /\ \A i \in 1 .. Len(b) + Len(u) :
             w[i] = IF i <= Len(b) THEN b[i] ELSE u[i - Len(b)]
    BY ONLY b \in Seq(X), <2>1, ConcatProperties
  <2>3. /\ w \in Seq(X) /\ Len(w) = n + 2
        /\ \A i \in 1 .. n + 2 : w[i] = IF i <= n THEN b[i] ELSE u[i - n]
    <3> HIDE DEF w
    <3> QED
      BY <2>1, <2>2
  <2>4. /\ n + 1 \in 1 .. n + 2 /\ ~ (n + 1 <= n) /\ (n + 1) - n = 1
        /\ n + 2 \in 1 .. n + 2 /\ ~ (n + 2 <= n) /\ (n + 2) - n = 2
        /\ \A i \in 1 .. n : i \in 1 .. n + 2 /\ i <= n
    BY <1>1
  <2>5. /\ w \in Seq(X) /\ Len(w) = n + 2 /\ w[n + 1] = f /\ w[n + 2] = g
        /\ \A i \in 1 .. n : w[i] = b[i]
    <3> HIDE DEF w, n
    <3> QED
      BY <2>1, <2>3, <2>4
  <2>6. /\ v \in Seq(X) /\ Len(v) = n + 2 /\ v[n + 2] = g
        /\ \A i \in 1 .. n + 1 : v[i] = t[i]
    BY <1>1, <1>2, AppendProperties
  <2> HIDE DEF v, w
  <2>7. \A i \in 1 .. n + 2 : i \in 1 .. n \/ i = n + 1 \/ i = n + 2
    BY <1>1
  <2>8. \A i \in 1 .. n + 2 : w[i] = v[i]
    BY <1>1, <1>2, <2>5, <2>6, <2>7
  <2>9. w = v
    BY <2>5, <2>6, <2>8, SeqEqual
  <2> QED
    BY <2>9 DEF w, v, u, t
<1> QED
  BY <1>3

(* The head and the tail of a sequence.                                    *)
LEMMA HeadOff ==
  ASSUME NEW X, NEW t \in Seq(X), t # <<>>
  PROVE  /\ Head(t) \in X /\ Tail(t) \in Seq(X)
         /\ Len(t) \in Nat \ {0} /\ Len(Tail(t)) = Len(t) - 1
         /\ Head(t) = t[1]
         /\ \A k \in 1 .. Len(t) - 1 : Tail(t)[k] = t[k + 1]
<1>1. Len(t) \in Nat \ {0}
  BY LenProperties, EmptySeq
<1> QED
  BY <1>1, HeadTailProperties

----------------------------------------------------------------------------
(* Counting the members of a sequence that are in a set.                   *)

One(x, S) == IF x \in S THEN 1 ELSE 0
Places(t, S) == {k \in 1 .. Len(t) : t[k] \in S}

LEMMA PlacesFinite ==
  ASSUME NEW X, NEW t \in Seq(X), NEW S
  PROVE  IsFiniteSet(Places(t, S)) /\ Number(t, S) = Cardinality(Places(t, S)) /\ Number(t, S) \in Nat
<1>1. Places(t, S) \subseteq 1 .. Len(t) /\ Len(t) \in Nat
  BY LenProperties DEF Places
<1>2. IsFiniteSet(1 .. Len(t))
  BY <1>1, FS_Interval
<1>3. IsFiniteSet(Places(t, S))
  BY <1>1, <1>2, FS_Subset
<1> QED
  BY <1>3, FS_CardinalityType DEF Number, Places

LEMMA NumberNil == ASSUME NEW S PROVE Number(<<>>, S) = 0
<1>1. {k \in 1 .. Len(<<>>) : <<>>[k] \in S} = {}
  OBVIOUS
<1> QED
  BY <1>1, FS_EmptySet DEF Number

LEMMA NumberPut ==
  ASSUME NEW X, NEW b \in Seq(X), NEW f \in X, NEW S
  PROVE  Number(Append(b, f), S) = Number(b, S) + One(f, S)
<1> DEFINE t == Append(b, f)
           n == Len(b)
<1>1. /\ t \in Seq(X) /\ Len(t) = n + 1 /\ n \in Nat /\ t[n + 1] = f
      /\ \A i \in 1 .. n : t[i] = b[i]
  BY PutOn, LenProperties
<1>2. /\ IsFiniteSet(Places(b, S)) /\ Number(b, S) = Cardinality(Places(b, S))
      /\ Number(b, S) \in Nat
  BY PlacesFinite
<1>3. Number(t, S) = Cardinality(Places(t, S))
  BY <1>1, PlacesFinite
<1> HIDE DEF t, n
<1>4. n + 1 \notin Places(b, S)
  BY <1>1 DEF Places, n
<1>5. CASE f \in S
  <2>1. Places(t, S) = Places(b, S) \cup {n + 1}
    BY <1>1, <1>5 DEF Places, n
  <2> QED
    BY <1>2, <1>3, <1>4, <1>5, <2>1, FS_AddElement DEF One, t
<1>6. CASE f \notin S
  <2>1. Places(t, S) = Places(b, S)
    BY <1>1, <1>6 DEF Places, n
  <2> QED
    BY <1>2, <1>3, <1>6, <2>1 DEF One, t
<1> QED
  BY <1>5, <1>6

(* Taking the head off.                                                    *)
LEMMA NumberTail ==
  ASSUME NEW X, NEW t \in Seq(X), t # <<>>, NEW S
  PROVE  Number(t, S) = One(Head(t), S) + Number(Tail(t), S)
<1> DEFINE u == Tail(t)
           n == Len(u)
           Shifted == {k + 1 : k \in Places(u, S)}
<1>1. /\ u \in Seq(X) /\ n \in Nat /\ Len(t) = n + 1 /\ t[1] = Head(t)
      /\ \A k \in 1 .. n : u[k] = t[k + 1]
  <2>1. /\ Tail(t) \in Seq(X) /\ Len(t) \in Nat \ {0} /\ Len(Tail(t)) = Len(t) - 1
        /\ Head(t) = t[1]
        /\ \A k \in 1 .. Len(t) - 1 : Tail(t)[k] = t[k + 1]
    BY HeadOff
  <2> HIDE DEF u
  <2> QED
    BY <2>1 DEF u
<1> HIDE DEF u
<1>2. /\ IsFiniteSet(Places(u, S)) /\ Number(u, S) = Cardinality(Places(u, S))
      /\ Number(u, S) \in Nat /\ Number(t, S) = Cardinality(Places(t, S))
  BY <1>1, PlacesFinite
<1>3. IsFiniteSet(Shifted) /\ Cardinality(Shifted) = Cardinality(Places(u, S))
  <2> DEFINE g == [k \in Places(u, S) |-> k + 1]
  <2>1. Places(u, S) \subseteq Nat
    BY DEF Places
  <2>2. g \in Bijection(Places(u, S), Shifted)
    BY <2>1 DEF Bijection, Injection, Surjection, IsInjective
  <2> HIDE DEF g, Shifted
  <2> QED
    BY <1>2, <2>2, FS_Bijection DEF ExistsBijection
<1>4. 1 \notin Shifted
  BY DEF Places
<1>5. Places(t, S) \ {1} = Shifted
  <2>1. ASSUME NEW k \in Places(t, S), k # 1 PROVE k \in Shifted
    <3>1. k \in Int /\ k - 1 \in 1 .. n /\ t[k] \in S /\ k = (k - 1) + 1
      BY <1>1, <2>1 DEF Places
    <3>2. k - 1 \in Places(u, S)
      BY <1>1, <3>1 DEF Places
    <3> QED
      BY <3>1, <3>2
  <2>2. ASSUME NEW k \in Places(u, S) PROVE k + 1 \in Places(t, S)
    BY <1>1, <2>2 DEF Places
  <2> QED
    BY <1>4, <2>1, <2>2
<1> HIDE DEF Shifted
<1>6. 1 \in Places(t, S) <=> Head(t) \in S
  BY <1>1 DEF Places
<1>7. CASE Head(t) \in S
  <2>1. Places(t, S) = Shifted \cup {1}
    BY <1>5, <1>6, <1>7
  <2> QED
    <3>1. Cardinality(Shifted \cup {1}) = Cardinality(Shifted) + 1
      BY <1>3, <1>4, FS_AddElement
    <3> QED
      BY <1>2, <1>3, <1>7, <2>1, <3>1 DEF One, u
<1>8. CASE Head(t) \notin S
  <2>1. Places(t, S) = Shifted
    BY <1>5, <1>6, <1>8
  <2> QED
    BY <1>2, <1>3, <1>8, <2>1 DEF One, u
<1> QED
  BY <1>7, <1>8

(* None counted, none there.                                               *)
LEMMA NumberNone ==
  ASSUME NEW X, NEW t \in Seq(X), NEW S, Number(t, S) = 0
  PROVE  \A k \in 1 .. Len(t) : t[k] \notin S
<1>1. Places(t, S) = {}
  BY PlacesFinite, FS_EmptySet
<1> QED
  BY <1>1 DEF Places

----------------------------------------------------------------------------
(* The calls under way.                                                    *)

(* A call of invoke that has not taken its event off the EventQueue, one   *)
(* that holds the lock, one that has seen the head of the EventQueue.      *)
Asking == Outside \cup Before
Within == Before \cup After
Taking == Calls("invoke", {"take", "remove"}, Event)

(* The calls that hold event e.                                            *)
Enqueuing(e) == Calls("enqueueEvent", {"begin", "add"}, {e})
Taken(e)     == Calls("invoke", {"removed", "call"}, {e})

Dispatching == Calls("schedule", {"dispatch"}, {NULL})

LEMMA Getters ==
  /\ DOMAIN AfterGetters = {"begin", "enter", "locked", "take", "removed", "called"}
  /\ AfterGetters["begin"] = "add" /\ AfterGetters["enter"] = "lock"
  /\ AfterGetters["locked"] = "look" /\ AfterGetters["take"] = "remove"
  /\ AfterGetters["removed"] = "call" /\ AfterGetters["called"] = "unlock"
BY DEF AfterGetters

LEMMA EventNumbers ==
  /\ Event \subseteq Nat /\ NULL \notin Event /\ MaxEvents \in Nat
  /\ Source = {HTTP_EVENT, SIGNAL_EVENT} /\ HTTP_EVENT # SIGNAL_EVENT
BY ListenerAssumption DEF Event, NULL, Source, HTTP_EVENT, SIGNAL_EVENT, EVENT_TYPE_MAX

LEMMA FrameMade ==
  ASSUME NEW fn \in {"schedule", "enqueueEvent", "invoke"}, NEW at \in Points,
         NEW q \in 0 .. EVENT_TYPE_MAX, NEW ev \in Event \cup {NULL}
  PROVE  /\ Frame(fn, at, q, ev) \in MethodCall
         /\ Frame(fn, at, q, ev).fn = fn /\ Frame(fn, at, q, ev).at = at
         /\ Frame(fn, at, q, ev).q = q /\ Frame(fn, at, q, ev).ev = ev
BY DEF Frame, MethodCall

LEMMA FrameMoved ==
  ASSUME NEW f \in MethodCall, NEW at
  PROVE  [f EXCEPT !.at = at] = Frame(f.fn, at, f.q, f.ev)
BY DEF Frame, MethodCall

LEMMA FrameGoes ==
  ASSUME NEW f \in MethodCall, NEW at \in Points
  PROVE  /\ Frame(f.fn, at, f.q, f.ev) \in MethodCall
         /\ Frame(f.fn, at, f.q, f.ev).fn = f.fn /\ Frame(f.fn, at, f.q, f.ev).at = at
         /\ Frame(f.fn, at, f.q, f.ev).q = f.q /\ Frame(f.fn, at, f.q, f.ev).ev = f.ev
BY DEF Frame, MethodCall

LEMMA ScheduleMade ==
  /\ Schedule \in MethodCall
  /\ Schedule.fn = "schedule" /\ Schedule.at = "test" /\ Schedule.q = 0 /\ Schedule.ev = NULL
  /\ 0 \in Source
<1>1. "test" \in Points /\ 0 \in 0 .. EVENT_TYPE_MAX /\ 0 \in Source
  BY DEF Points, EVENT_TYPE_MAX, Source
<1> QED
  BY <1>1, FrameMade DEF Schedule

(* What each class of calls says of a call, member by member.              *)
LEMMA Kinds ==
  ASSUME NEW f \in MethodCall
  PROVE  /\ f \in Waiting({"test"}) <=>
              f.fn = "schedule" /\ f.at = "test" /\ f.ev = NULL /\ f.q \in Source
         /\ f \in Draining <=>
              f.fn = "schedule" /\ f.q \in Source /\
              ((f.at \in {"test", "read"} /\ f.ev = NULL) \/ f.at = "release")
         /\ f \in Dispatching <=> f.fn = "schedule" /\ f.at = "dispatch" /\ f.ev = NULL
         /\ f \in Adding <=> f.fn = "enqueueEvent" /\ f.at \in {"begin", "add"} /\ f.ev \in Event
         /\ f \in Outside <=> f.fn = "invoke" /\ f.at \in {"enter", "lock"} /\ f.ev = NULL
         /\ f \in Before <=>
              f.fn = "invoke" /\
              ((f.at \in {"locked", "look"} /\ f.ev = NULL) \/ (f.at \in {"take", "remove"} /\ f.ev \in Event))
         /\ f \in After <=>
              f.fn = "invoke" /\
              ((f.at \in {"removed", "call"} /\ f.ev \in Event) \/ f.at \in {"called", "unlock"})
         /\ f \in Taking <=> f.fn = "invoke" /\ f.at \in {"take", "remove"} /\ f.ev \in Event
         /\ \A e : f \in Enqueuing(e) <=>
              f.fn = "enqueueEvent" /\ f.at \in {"begin", "add"} /\ f.ev = e
         /\ \A e : f \in Taken(e) <=>
              f.fn = "invoke" /\ f.at \in {"removed", "call"} /\ f.ev = e
<1>1. f.ev \in Event \cup {NULL}
  BY DEF MethodCall
<1> QED
  BY <1>1 DEF Waiting, Draining, Dispatching, Adding, Outside, Before, After, Taking, Enqueuing,
              Taken, Calls

----------------------------------------------------------------------------
(* StackInv, for a stack seen from its end.                                *)

StackOk(t) ==
  /\ \A k \in 1 .. Len(t) - 1 : t[k] \in Suspended
  /\ \A k \in 1 .. Len(t) : t[k] \in Adding => k > 1 /\ t[k - 1].fn = "schedule"
  /\ t # <<>> => Last(t) \in Suspended \cup Draining \cup Dispatching

(* All of it is suspended.                                                 *)
Beneath(b) ==
  /\ \A k \in 1 .. Len(b) : b[k] \in Suspended
  /\ \A k \in 1 .. Len(b) : b[k] \in Adding => k > 1 /\ b[k - 1].fn = "schedule"

(* f may be called from the innermost of b.                                *)
CalledFrom(b, f) == f \in Adding => b # <<>> /\ Last(b).fn = "schedule"

LEMMA StackEmpty == StackOk(<<>>) /\ Beneath(<<>>)
BY DEF StackOk, Beneath

LEMMA StackPut ==
  ASSUME NEW b \in Seq(MethodCall), NEW f \in MethodCall
  PROVE  /\ StackOk(Append(b, f)) <=>
              Beneath(b) /\ CalledFrom(b, f) /\ f \in Suspended \cup Draining \cup Dispatching
         /\ Beneath(Append(b, f)) <=> Beneath(b) /\ CalledFrom(b, f) /\ f \in Suspended
<1> DEFINE t == Append(b, f)
           n == Len(b)
<1>1. /\ t \in Seq(MethodCall) /\ Len(t) = n + 1 /\ n \in Nat /\ t[n + 1] = f
      /\ \A i \in 1 .. n : t[i] = b[i]
      /\ t # <<>> /\ Last(t) = f
  <2>1. n \in Nat
    BY LenProperties
  <2>2. /\ t \in Seq(MethodCall) /\ Len(t) = n + 1 /\ t[n + 1] = f
        /\ \A i \in 1 .. n : t[i] = b[i]
    BY PutOn
  <2>3. t # <<>> /\ Last(t) = f
    BY PutOn
  <2> QED
    BY <2>1, <2>2, <2>3
<1>2. b # <<>> <=> n > 0
  BY <1>1, EmptySeq
<1>3. Last(b) = b[n]
  BY DEF Last
<1> HIDE DEF t, n
<1>4. (\A k \in 1 .. n + 1 : t[k] \in Adding => k > 1 /\ t[k - 1].fn = "schedule")
        <=> /\ \A k \in 1 .. n : b[k] \in Adding => k > 1 /\ b[k - 1].fn = "schedule"
            /\ CalledFrom(b, f)
  <2>1. ASSUME NEW k \in 1 .. n
        PROVE  (t[k] \in Adding => k > 1 /\ t[k - 1].fn = "schedule")
                 <=> (b[k] \in Adding => k > 1 /\ b[k - 1].fn = "schedule")
    <3>1. t[k] = b[k] /\ (k > 1 => k - 1 \in 1 .. n)
      BY <1>1
    <3>2. k > 1 => t[k - 1] = b[k - 1]
      BY <1>1, <3>1
    <3> QED
      BY <3>1, <3>2
  <2>2. (t[n + 1] \in Adding => n + 1 > 1 /\ t[(n + 1) - 1].fn = "schedule") <=> CalledFrom(b, f)
    <3>1. (n + 1) - 1 = n /\ (n + 1 > 1 <=> n > 0) /\ (n > 0 => n \in 1 .. n)
      BY <1>1
    <3>2. n > 0 => t[n] = b[n]
      BY <1>1, <3>1
    <3> QED
      BY <1>1, <1>2, <1>3, <3>1, <3>2 DEF CalledFrom
  <2>3. \A k : k \in 1 .. n + 1 <=> k \in 1 .. n \/ k = n + 1
    BY <1>1
  <2> QED
    BY <2>1, <2>2, <2>3
<1>5. \A k \in 1 .. (n + 1) - 1 : t[k] = b[k]
  BY <1>1
<1>6. (n + 1) - 1 = n
  BY <1>1
<1>7. Beneath(b) <=>
        /\ \A k \in 1 .. n : b[k] \in Suspended
        /\ \A k \in 1 .. n : b[k] \in Adding => k > 1 /\ b[k - 1].fn = "schedule"
  BY DEF Beneath, n
<1>8. StackOk(t) <=>
        Beneath(b) /\ CalledFrom(b, f) /\ f \in Suspended \cup Draining \cup Dispatching
  BY <1>1, <1>4, <1>5, <1>6, <1>7 DEF StackOk
<1>9. Beneath(t) <=> Beneath(b) /\ CalledFrom(b, f) /\ f \in Suspended
  <2>1. (\A k \in 1 .. n + 1 : t[k] \in Suspended)
          <=> (\A k \in 1 .. n : b[k] \in Suspended) /\ f \in Suspended
    <3>1. \A k : k \in 1 .. n + 1 <=> k \in 1 .. n \/ k = n + 1
      BY <1>1
    <3> QED
      BY <1>1, <3>1
  <2> QED
    BY <1>1, <1>4, <1>7, <2>1 DEF Beneath
<1> QED
  BY <1>8, <1>9 DEF t

(* What is left when a call returns.                                       *)
LEMMA StackReturn ==
  ASSUME NEW b \in Seq(MethodCall), Beneath(b)
  PROVE  StackOk(b)
<1>1. CASE b = <<>>
  BY <1>1, StackEmpty
<1>2. CASE b # <<>>
  <2>1. PICK c \in Seq(MethodCall), h \in MethodCall : b = Append(c, h)
    <3>1. Front(b) \in Seq(MethodCall) /\ Last(b) \in MethodCall /\ b = Append(Front(b), Last(b))
      BY <1>2, LastOff
    <3> QED
      BY <3>1
  <2> QED
    BY <2>1, StackPut
<1> QED
  BY <1>1, <1>2

----------------------------------------------------------------------------
(* LockInv and RequestInv.                                                 *)

Takers(t, d) == \A k \in 1 .. Len(t) : t[k] \in Taking => d # <<>> /\ t[k].ev = Head(d)
LockOk(t, l, d) == Number(t, Within) <= (IF l THEN 1 ELSE 0) /\ Takers(t, d)

LEMMA TakersPut ==
  ASSUME NEW b \in Seq(MethodCall), NEW f \in MethodCall, NEW d
  PROVE  Takers(Append(b, f), d) <=> Takers(b, d) /\ (f \in Taking => d # <<>> /\ f.ev = Head(d))
<1> DEFINE t == Append(b, f)
           n == Len(b)
<1>1. Len(t) = n + 1 /\ n \in Nat /\ t[n + 1] = f /\ \A i \in 1 .. n : t[i] = b[i]
  BY PutOn, LenProperties
<1> HIDE DEF t, n
<1>2. \A k : k \in 1 .. n + 1 <=> k \in 1 .. n \/ k = n + 1
  BY <1>1
<1>3. Takers(b, d) <=> \A k \in 1 .. n : b[k] \in Taking => d # <<>> /\ b[k].ev = Head(d)
  BY DEF Takers, n
<1>4. Takers(t, d) <=> \A k \in 1 .. n + 1 : t[k] \in Taking => d # <<>> /\ t[k].ev = Head(d)
  BY <1>1 DEF Takers
<1>5. Takers(t, d) <=> Takers(b, d) /\ (f \in Taking => d # <<>> /\ f.ev = Head(d))
  BY <1>1, <1>2, <1>3, <1>4
<1> QED
  BY <1>5 DEF t

LEMMA TakersNone ==
  ASSUME NEW b \in Seq(MethodCall), Number(b, Within) = 0, NEW d
  PROVE  Takers(b, d)
<1>1. \A k \in 1 .. Len(b) : b[k] \notin Within
  BY NumberNone
<1>2. Taking \subseteq Within
  BY DEF Taking, Within, Before
<1> QED
  BY <1>1, <1>2 DEF Takers

LEMMA TakersAppend ==
  ASSUME NEW t, NEW d \in Seq(Event), NEW e \in Event, Takers(t, d)
  PROVE  Takers(t, Append(d, e))
<1>1. ASSUME d # <<>> PROVE Append(d, e) # <<>> /\ Head(Append(d, e)) = Head(d)
  <2>1. Len(d) \in Nat /\ Len(d) > 0
    BY <1>1, LenProperties, EmptySeq
  <2> QED
    BY <2>1
<1> QED
  BY <1>1 DEF Takers

(* A dispatch is still to come from here.                                  *)
ToDispatch(f) == f.fn = "schedule" \/ (f.fn = "enqueueEvent" /\ f.at = "begin")
Flagged(t, fl) == fl => t # <<>> /\ ToDispatch(Last(t))
Requests(t, fl, d, r) == Len(d) = (IF fl THEN 1 ELSE 0) + Number(t, Asking) + r
RequestOk(t, fl, d, r) == Flagged(t, fl) /\ Requests(t, fl, d, r)

ScriptOk(t, fl, d, l, r) == StackOk(t) /\ LockOk(t, l, d) /\ RequestOk(t, fl, d, r)

LEMMA ScriptInvariants ==
  StackInv /\ LockInv /\ RequestInv <=> ScriptOk(stack, flag, data, lock, stranded)
<1>1. StackInv <=> StackOk(stack)
  BY DEF StackInv, StackOk, Dispatching
<1>2. LockInv <=> LockOk(stack, lock, data)
  BY DEF LockInv, LockOk, Takers, Taking, Within
<1>3. RequestInv <=> RequestOk(stack, flag, data, stranded)
  BY DEF RequestInv, RequestOk, Flagged, Requests, ToDispatch, Asking
<1> QED
  BY <1>1, <1>2, <1>3 DEF ScriptOk

(* The copies of event e that the program's thread has.                    *)
Copied(t, d, h, e) ==
  Number(t, Enqueuing(e)) + Number(d, {e}) + Number(t, Taken(e)) + Number(h, {e})

(* Two calls that count the same.                                          *)
Alike(f, g) ==
  /\ f \in Within <=> g \in Within
  /\ f \in Asking <=> g \in Asking
  /\ \A e : f \in Enqueuing(e) <=> g \in Enqueuing(e)
  /\ \A e : f \in Taken(e) <=> g \in Taken(e)
  /\ g \in Taking => f \in Taking /\ g.ev = f.ev
  /\ g \in Adding => f \in Adding

LEMMA NumbersPut ==
  ASSUME NEW b \in Seq(MethodCall), NEW f \in MethodCall
  PROVE  /\ Number(Append(b, f), Within) = Number(b, Within) + One(f, Within)
         /\ Number(Append(b, f), Asking) = Number(b, Asking) + One(f, Asking)
         /\ \A e : Number(Append(b, f), Enqueuing(e)) = Number(b, Enqueuing(e)) + One(f, Enqueuing(e))
         /\ \A e : Number(Append(b, f), Taken(e)) = Number(b, Taken(e)) + One(f, Taken(e))
         /\ Number(b, Within) \in Nat /\ Number(b, Asking) \in Nat
         /\ \A e : Number(b, Enqueuing(e)) \in Nat /\ Number(b, Taken(e)) \in Nat
BY NumberPut, PlacesFinite

(* A call of KscheduleEvent counts nowhere.                                *)
LEMMA ScheduleCountsNothing ==
  ASSUME NEW f \in MethodCall, f.fn = "schedule"
  PROVE  /\ One(f, Within) = 0 /\ One(f, Asking) = 0
         /\ \A e : One(f, Enqueuing(e)) = 0 /\ One(f, Taken(e)) = 0
         /\ f \notin Taking /\ f \notin Adding
BY Kinds DEF One, Within, Asking

(* The innermost call becomes another one that counts the same.            *)
LEMMA GoesOn ==
  ASSUME NEW b \in Seq(MethodCall), NEW f \in MethodCall, NEW g \in MethodCall,
         NEW fl, NEW d, NEW l, NEW r,
         ScriptOk(Append(b, f), fl, d, l, r), Alike(f, g),
         g \in Suspended \cup Draining \cup Dispatching
  PROVE  /\ StackOk(Append(b, g)) /\ LockOk(Append(b, g), l, d) /\ Requests(Append(b, g), fl, d, r)
         /\ (ToDispatch(f) => ToDispatch(g)) => ScriptOk(Append(b, g), fl, d, l, r)
         /\ \A h, e : Copied(Append(b, g), d, h, e) = Copied(Append(b, f), d, h, e)
<1>1. /\ One(f, Within) = One(g, Within) /\ One(f, Asking) = One(g, Asking)
      /\ \A e : One(f, Enqueuing(e)) = One(g, Enqueuing(e)) /\ One(f, Taken(e)) = One(g, Taken(e))
  BY DEF Alike, One
<1>2. /\ Number(Append(b, g), Within) = Number(Append(b, f), Within)
      /\ Number(Append(b, g), Asking) = Number(Append(b, f), Asking)
      /\ \A e : Number(Append(b, g), Enqueuing(e)) = Number(Append(b, f), Enqueuing(e))
      /\ \A e : Number(Append(b, g), Taken(e)) = Number(Append(b, f), Taken(e))
  BY <1>1, NumbersPut
<1>3. StackOk(Append(b, g))
  BY StackPut DEF ScriptOk, Alike, CalledFrom
<1>4. LockOk(Append(b, g), l, d)
  BY <1>2, TakersPut DEF ScriptOk, LockOk, Alike
<1>5. /\ Requests(Append(b, g), fl, d, r)
      /\ (ToDispatch(f) => ToDispatch(g)) => Flagged(Append(b, g), fl)
  <2>1. /\ Append(b, f) # <<>> /\ Last(Append(b, f)) = f
        /\ Append(b, g) # <<>> /\ Last(Append(b, g)) = g
    BY PutOn
  <2> QED
    BY <1>2, <2>1 DEF ScriptOk, RequestOk, Flagged, Requests
<1>6. \A h, e : Copied(Append(b, g), d, h, e) = Copied(Append(b, f), d, h, e)
  BY <1>2 DEF Copied
<1> QED
  BY <1>3, <1>4, <1>5, <1>6 DEF ScriptOk, RequestOk

(* A getter of the innermost call reaches a safepoint.                     *)
LEMMA SafePointPut ==
  ASSUME NEW b \in Seq(MethodCall),
         NEW fl, NEW d, NEW l, NEW r,
         Beneath(b), LockOk(b, l, d), Requests(b, fl, d, r)
  PROVE  /\ ScriptOk(Append(b, Schedule), fl, d, l, r)
         /\ \A h, e : Copied(Append(b, Schedule), d, h, e) = Copied(b, d, h, e)
<1>1. Schedule \in MethodCall /\ Schedule.fn = "schedule" /\ Schedule \in Waiting({"test"})
  BY ScheduleMade, Kinds
<1>2. Schedule \in Suspended
  BY <1>1 DEF Suspended
<1>3. /\ One(Schedule, Within) = 0 /\ One(Schedule, Asking) = 0
      /\ \A e : One(Schedule, Enqueuing(e)) = 0 /\ One(Schedule, Taken(e)) = 0
      /\ Schedule \notin Taking /\ Schedule \notin Adding
  BY <1>1, ScheduleCountsNothing
<1>4. /\ Number(Append(b, Schedule), Within) = Number(b, Within)
      /\ Number(Append(b, Schedule), Asking) = Number(b, Asking)
      /\ \A e : Number(Append(b, Schedule), Enqueuing(e)) = Number(b, Enqueuing(e))
      /\ \A e : Number(Append(b, Schedule), Taken(e)) = Number(b, Taken(e))
  BY <1>1, <1>3, NumbersPut
<1>5. StackOk(Append(b, Schedule))
  BY <1>1, <1>2, <1>3, StackPut DEF CalledFrom
<1>6. LockOk(Append(b, Schedule), l, d)
  BY <1>1, <1>3, <1>4, TakersPut DEF LockOk
<1>7. RequestOk(Append(b, Schedule), fl, d, r)
  <2>1. Append(b, Schedule) # <<>> /\ Last(Append(b, Schedule)) = Schedule
    BY <1>1, PutOn
  <2> QED
    BY <1>1, <1>4, <2>1 DEF RequestOk, Flagged, Requests, ToDispatch
<1>8. \A h, e : Copied(Append(b, Schedule), d, h, e) = Copied(b, d, h, e)
  BY <1>4 DEF Copied
<1> QED
  BY <1>5, <1>6, <1>7, <1>8 DEF ScriptOk

----------------------------------------------------------------------------
(* The queues, one for each source, and the dequeue under way in each.     *)

Ring(s) ==
  INSTANCE LocalQueue
    WITH Event <- Event \cup {NULL}, front <- front[s], last <- last[s],
         list <- list[s], prod <- prod[s], cons <- Dequeuing(s),
         reply <- reply[s], out <- out[s]

RingSteps == \A s \in Source : [Ring(s)!Next]_(Ring(s)!vars)

DequeueOf(f, s) ==
  IF f.fn = "schedule" /\ f.q = s /\ f.at \in {"read", "release"}
  THEN [at |-> f.at, ev |-> f.ev] ELSE Idle

LEMMA DequeuingTop ==
  ASSUME NEW b \in Seq(MethodCall), NEW f \in MethodCall, NEW s
  PROVE  /\ stack = Append(b, f) => Dequeuing(s) = DequeueOf(f, s)
         /\ stack' = Append(b, f) => Dequeuing(s)' = DequeueOf(f, s)
<1>1. Append(b, f) # <<>> /\ Last(Append(b, f)) = f
  BY PutOn
<1> QED
  BY <1>1 DEF Dequeuing, DequeueOf

(* No call but the innermost is in the middle of a dequeue.                *)
LEMMA DequeuingNot ==
  ASSUME NEW b \in Seq(MethodCall), Beneath(b), NEW s
  PROVE  stack' = b => Dequeuing(s)' = Idle
<1>1. CASE b = <<>>
  BY <1>1 DEF Dequeuing, DequeueOf
<1>2. CASE b # <<>>
  <2>1. Front(b) \in Seq(MethodCall) /\ Last(b) \in MethodCall /\ b = Append(Front(b), Last(b))
    BY <1>2, LastOff
  <2>2. Last(b) \in Suspended
    BY <2>1, StackPut
  <2>3. ~ (Last(b).fn = "schedule" /\ Last(b).at \in {"read", "release"})
    BY <2>1, <2>2, Kinds DEF Suspended
  <2> QED
    BY <2>3 DEF Dequeuing
<1> QED
  BY <1>1, <1>2

LEMMA RingsQuiet ==
  ASSUME UNCHANGED ring, \A s \in Source : Dequeuing(s)' = Dequeuing(s)
  PROVE  RingSteps
BY DEF RingSteps, Ring!vars, ring

----------------------------------------------------------------------------
(* The steps of the program's thread.                                      *)

(* The innermost call, and what a step may make of it.                     *)
LEMMA Innermost ==
  ASSUME TypeOK, StackInv, stack # <<>>
  PROVE  /\ Front(stack) \in Seq(MethodCall) /\ Last(stack) \in MethodCall
         /\ stack = Append(Front(stack), Last(stack))
         /\ Beneath(Front(stack)) /\ CalledFrom(Front(stack), Last(stack))
         /\ Last(stack) \in Suspended \cup Draining \cup Dispatching
         /\ \A g \in MethodCall : [stack EXCEPT ![Len(stack)] = g] = Append(Front(stack), g)
         /\ \A at \in Points :
              [stack EXCEPT ![Len(stack)].at = at]
                = Append(Front(stack), Frame(Last(stack).fn, at, Last(stack).q, Last(stack).ev))
<1>1. stack \in Seq(MethodCall)
  BY DEF TypeOK
<1>2. /\ Front(stack) \in Seq(MethodCall) /\ Last(stack) \in MethodCall
      /\ stack = Append(Front(stack), Last(stack))
      /\ \A g \in MethodCall : [stack EXCEPT ![Len(stack)] = g] = Append(Front(stack), g)
  BY <1>1, LastOff
<1>3. StackOk(stack)
  BY DEF StackInv, StackOk, Dispatching
<1>4. /\ Beneath(Front(stack)) /\ CalledFrom(Front(stack), Last(stack))
      /\ Last(stack) \in Suspended \cup Draining \cup Dispatching
  BY <1>2, <1>3, StackPut
<1>5. ASSUME NEW at \in Points
      PROVE  [stack EXCEPT ![Len(stack)].at = at]
               = Append(Front(stack), Frame(Last(stack).fn, at, Last(stack).q, Last(stack).ev))
  <2>1. [stack EXCEPT ![Len(stack)].at = at] = [stack EXCEPT ![Len(stack)] = [Last(stack) EXCEPT !.at = at]]
    BY DEF Last
  <2>2. [Last(stack) EXCEPT !.at = at] = Frame(Last(stack).fn, at, Last(stack).q, Last(stack).ev)
    BY <1>2, FrameMoved
  <2>3. Frame(Last(stack).fn, at, Last(stack).q, Last(stack).ev) \in MethodCall
    BY <1>2 DEF Frame, MethodCall
  <2> QED
    BY <1>2, <2>1, <2>2, <2>3
<1> QED
  BY <1>2, <1>4, <1>5

(* What every step of the program but two does: the invariants hold after  *)
(* it, it is a step of each queue, and no event gains or loses a copy.     *)
Proceeds ==
  /\ TypeOK' /\ RingSteps
  /\ ScriptOk(stack', flag', data', lock', stranded')
  /\ \A e \in Event : Copied(stack', data', handled', e) = Copied(stack, data, handled, e)

LEMMA TypeKept ==
  ASSUME TypeOK, UNCHANGED <<ring, listener, raised>>, stack' \in Seq(MethodCall),
         flag' \in BOOLEAN, lock' \in BOOLEAN, data' \in Seq(Event), handled' \in Seq(Event)
  PROVE  TypeOK'
BY DEF TypeOK, ring, listener, raised

LEMMA ProgramSafePointStep ==
  ASSUME IInv, ProgramSafePoint PROVE Proceeds
<1>1. stack = <<>> /\ stack' = Append(<<>>, Schedule) /\ UNCHANGED <<ring, listener, script>>
  BY DEF ProgramSafePoint
<1>2. ScriptOk(<<>>, flag, data, lock, stranded) /\ TypeOK
  BY <1>1, ScriptInvariants DEF IInv
<1>3. Beneath(<<>>) /\ <<>> \in Seq(MethodCall)
  BY StackEmpty
<1>4. /\ ScriptOk(Append(<<>>, Schedule), flag, data, lock, stranded)
      /\ \A e \in Event : Copied(Append(<<>>, Schedule), data, handled, e) = Copied(<<>>, data, handled, e)
  BY <1>2, <1>3, SafePointPut DEF ScriptOk, RequestOk
<1>5. Schedule \in MethodCall /\ Append(<<>>, Schedule) \in Seq(MethodCall)
  BY ScheduleMade
<1>6. TypeOK'
  BY <1>1, <1>2, <1>5, TypeKept DEF script, raised, TypeOK
<1>7. \A s \in Source : Dequeuing(s)' = Dequeuing(s)
  <2>1. \A s : Dequeuing(s) = Idle
    BY <1>1 DEF Dequeuing
  <2>2. \A s : Dequeuing(s)' = DequeueOf(Schedule, s)
    BY <1>1, <1>3, <1>5, DequeuingTop
  <2> QED
    BY <2>1, <2>2, ScheduleMade DEF DequeueOf
<1>8. RingSteps
  BY <1>1, <1>7, RingsQuiet
<1> QED
  BY <1>1, <1>4, <1>6, <1>8 DEF Proceeds, script, raised

LEMMA GetterStep ==
  ASSUME IInv, NextGetter \/ LastGetter PROVE Proceeds
<1>1. /\ TypeOK /\ StackInv /\ ScriptOk(stack, flag, data, lock, stranded)
  BY ScriptInvariants DEF IInv
<1>2. stack # <<>> /\ Last(stack).at \in DOMAIN AfterGetters
  BY DEF NextGetter, LastGetter, InGetters
<1>3. PICK b \in Seq(MethodCall), f \in MethodCall : b = Front(stack) /\ f = Last(stack)
  BY <1>1, <1>2, Innermost
<1>4. /\ stack = Append(b, f) /\ Beneath(b) /\ CalledFrom(b, f)
      /\ f \in Suspended \cup Draining \cup Dispatching
      /\ f.at \in {"begin", "enter", "locked", "take", "removed", "called"}
  BY <1>1, <1>2, <1>3, Innermost, Getters
<1>5. PICK at \in {f.at, AfterGetters[f.at]} : GetterSafePoint(at)
  BY <1>3 DEF NextGetter, LastGetter
<1> DEFINE g == Frame(f.fn, at, f.q, f.ev)
<1>6. /\ stack' = Append(b \o <<g>>, Schedule) /\ UNCHANGED <<ring, listener, script>>
  BY <1>3, <1>5, FrameMoved DEF GetterSafePoint
<1>7. at \in Points
  BY <1>4, <1>5, Getters DEF Points
<1>8. g \in MethodCall /\ g.fn = f.fn /\ g.at = at /\ g.q = f.q /\ g.ev = f.ev
  BY <1>7 DEF Frame, MethodCall
<1> HIDE DEF g
<1>9. Alike(f, g) /\ g \in Suspended
  <2>1. \/ f.at = "begin" /\ at \in {"begin", "add"}
        \/ f.at = "enter" /\ at \in {"enter", "lock"}
        \/ f.at = "locked" /\ at \in {"locked", "look"}
        \/ f.at = "take" /\ at \in {"take", "remove"}
        \/ f.at = "removed" /\ at \in {"removed", "call"}
        \/ f.at = "called" /\ at \in {"called", "unlock"}
    BY <1>4, <1>5, Getters
  <2>2. f \in Adding \cup Outside \cup Before \cup After
    BY <1>4, Kinds DEF Suspended
  <2> QED
    BY <1>8, <2>1, <2>2, Kinds DEF Alike, Suspended, Within, Asking
<1>10. b \o <<g>> = Append(b, g) /\ Append(b, g) \in Seq(MethodCall)
  BY <1>8, PutOn
<1>11. /\ StackOk(Append(b, g)) /\ LockOk(Append(b, g), lock, data)
       /\ Requests(Append(b, g), flag, data, stranded)
       /\ \A e \in Event : Copied(Append(b, g), data, handled, e) = Copied(stack, data, handled, e)
  BY <1>1, <1>4, <1>8, <1>9, GoesOn
<1>12. Beneath(Append(b, g))
  BY <1>8, <1>9, <1>11, StackPut
<1>13. /\ ScriptOk(stack', flag, data, lock, stranded)
       /\ \A e \in Event : Copied(stack', data, handled, e) = Copied(stack, data, handled, e)
  <2>1. /\ ScriptOk(Append(Append(b, g), Schedule), flag, data, lock, stranded)
        /\ \A h, e : Copied(Append(Append(b, g), Schedule), data, h, e) = Copied(Append(b, g), data, h, e)
    <3> DEFINE t == Append(b, g)
    <3>1. t \in Seq(MethodCall) /\ Beneath(t) /\ LockOk(t, lock, data) /\ Requests(t, flag, data, stranded)
      BY <1>10, <1>11, <1>12
    <3> HIDE DEF t
    <3>2. /\ ScriptOk(Append(t, Schedule), flag, data, lock, stranded)
          /\ \A h, e : Copied(Append(t, Schedule), data, h, e) = Copied(t, data, h, e)
      BY <3>1, SafePointPut
    <3> QED
      BY <3>2 DEF t
  <2>2. stack' = Append(Append(b, g), Schedule)
    BY <1>6, <1>10
  <2> QED
    BY <1>11, <2>1, <2>2
<1>14. stack' \in Seq(MethodCall)
  BY <1>6, <1>10, ScheduleMade, PutOn
<1>15. TypeOK'
  BY <1>1, <1>6, <1>14, TypeKept DEF script, raised, TypeOK
<1>16. \A s \in Source : Dequeuing(s)' = Dequeuing(s)
  <2>1. \A s : Dequeuing(s) = DequeueOf(f, s)
    BY <1>4, DequeuingTop
  <2>2. \A s : Dequeuing(s)' = DequeueOf(Schedule, s)
    BY <1>6, <1>10, ScheduleMade, DequeuingTop
  <2> QED
    BY <1>4, <2>1, <2>2, ScheduleMade DEF DequeueOf
<1>17. RingSteps
  BY <1>6, <1>16, RingsQuiet
<1> QED
  BY <1>6, <1>13, <1>15, <1>17 DEF Proceeds, script, raised

(* The innermost call f, at a point of a method, and the calls b beneath.  *)
Inner(b, f, fn, at) ==
  /\ TypeOK /\ ScriptOk(stack, flag, data, lock, stranded)
  /\ b = Front(stack) /\ f = Last(stack) /\ stack = Append(b, f) /\ f.fn = fn /\ f.at = at
  /\ Beneath(b) /\ CalledFrom(b, f) /\ f \in Suspended \cup Draining \cup Dispatching
  /\ \A g \in MethodCall : [stack EXCEPT ![Len(stack)] = g] = Append(b, g)
  /\ \A to \in Points : [stack EXCEPT ![Len(stack)].at = to] = Append(b, Frame(f.fn, to, f.q, f.ev))

LEMMA InnerCall ==
  ASSUME IInv, NEW fn, NEW at, Running(fn, at)
  PROVE  \E b \in Seq(MethodCall), f \in MethodCall : Inner(b, f, fn, at)
<1>1. /\ TypeOK /\ StackInv /\ ScriptOk(stack, flag, data, lock, stranded)
  BY ScriptInvariants DEF IInv
<1>2. stack # <<>> /\ Last(stack).fn = fn /\ Last(stack).at = at
  BY DEF Running
<1> DEFINE b == Front(stack)
           f == Last(stack)
<1>3. b \in Seq(MethodCall) /\ f \in MethodCall
  BY <1>1, <1>2, Innermost
<1>4. Inner(b, f, fn, at)
  BY <1>1, <1>2, Innermost DEF Inner
<1> QED
  BY <1>3, <1>4

(* What each kind of call counts for.                                      *)
LEMMA Counts ==
  ASSUME NEW f \in MethodCall
  PROVE  /\ f \in Adding =>
              /\ One(f, Within) = 0 /\ One(f, Asking) = 0
              /\ \A e : One(f, Enqueuing(e)) = One(f.ev, {e}) /\ One(f, Taken(e)) = 0
         /\ f \in Outside =>
              /\ One(f, Within) = 0 /\ One(f, Asking) = 1
              /\ \A e : One(f, Enqueuing(e)) = 0 /\ One(f, Taken(e)) = 0
         /\ f \in Before =>
              /\ One(f, Within) = 1 /\ One(f, Asking) = 1
              /\ \A e : One(f, Enqueuing(e)) = 0 /\ One(f, Taken(e)) = 0
         /\ f \in After =>
              /\ One(f, Within) = 1 /\ One(f, Asking) = 0
              /\ \A e : One(f, Enqueuing(e)) = 0
              /\ \A e : One(f, Taken(e)) = IF f.at \in {"removed", "call"} THEN One(f.ev, {e}) ELSE 0
BY Kinds, EventNumbers DEF One, Within, Asking

(* The rings do not see a step that starts and ends outside a dequeue.     *)
LEMMA RingsQuietOn ==
  ASSUME NEW b \in Seq(MethodCall), NEW f \in MethodCall, NEW g \in MethodCall,
         UNCHANGED ring, stack = Append(b, f), stack' = Append(b, g),
         f.at \notin {"read", "release"}, g.at \notin {"read", "release"}
  PROVE  RingSteps
<1>1. \A s : Dequeuing(s) = DequeueOf(f, s) /\ Dequeuing(s)' = DequeueOf(g, s)
  BY DequeuingTop
<1> QED
  BY <1>1, RingsQuiet DEF DequeueOf

LEMMA RingsQuietReturn ==
  ASSUME NEW b \in Seq(MethodCall), NEW f \in MethodCall,
         UNCHANGED ring, stack = Append(b, f), stack' = b, Beneath(b), f.at \notin {"read", "release"}
  PROVE  RingSteps
<1>1. \A s : Dequeuing(s) = DequeueOf(f, s) /\ Dequeuing(s)' = Idle
  BY DequeuingTop, DequeuingNot
<1> QED
  BY <1>1, RingsQuiet DEF DequeueOf

(* Absorb goes on to the next queue.                                       *)
LEMMA NextQueueOn ==
  ASSUME NEW b \in Seq(MethodCall), NEW f \in MethodCall, NEW at, Inner(b, f, "schedule", at),
         f.q \in Source, NextQueue(f.q)
  PROVE  \E g \in MethodCall :
           /\ stack' = Append(b, g) /\ g.fn = "schedule" /\ g.at \in {"test", "dispatch"}
           /\ g \in Suspended \cup Dispatching
<1> DEFINE g == Frame("schedule", IF f.q + 1 < EVENT_TYPE_MAX THEN "test" ELSE "dispatch", f.q + 1, NULL)
<1>1. f.q \in {0, 1}
  BY DEF Source, EVENT_TYPE_MAX
<1>2. g \in MethodCall
  BY <1>1 DEF Frame, MethodCall, Points, EVENT_TYPE_MAX
<1>3. /\ g.fn = "schedule" /\ g.ev = NULL
      /\ (g.at = "test" /\ g.q \in Source) \/ g.at = "dispatch"
  BY <1>1 DEF Frame, Source, EVENT_TYPE_MAX
<1>4. stack' = Append(b, g)
  BY <1>2 DEF Inner, NextQueue
<1> HIDE DEF g
<1>5. g \in Waiting({"test"}) \cup Dispatching
  BY <1>2, <1>3, Kinds
<1> QED
  BY <1>2, <1>3, <1>4, <1>5 DEF Suspended

LEMMA AbsorbStep ==
  ASSUME IInv, Absorb PROVE Proceeds
<1>1. PICK b \in Seq(MethodCall), f \in MethodCall : Inner(b, f, "schedule", "test")
  BY InnerCall DEF Absorb
<1>2. PICK s \in Source : s = f.q
  BY <1>1, Kinds DEF Inner, Suspended
<1>3. UNCHANGED <<front, last, list, prod, reply, listener, script>>
  BY DEF Absorb
<1>4. /\ s \notin started /\ NextQueue(s) /\ UNCHANGED out
      \/ /\ s \in started /\ front[s] = last[s]
         /\ out' = [out EXCEPT ![s] = NULL]
         /\ NextQueue(s)
      \/ /\ s \in started /\ front[s] # last[s]
         /\ GoTo("read")
         /\ UNCHANGED out
  BY <1>1, <1>2 DEF Absorb, Inner
<1> DEFINE Goes(g) ==
      /\ stack' = Append(b, g) /\ g.fn = "schedule" /\ g.at \in {"test", "dispatch", "read"}
      /\ g \in Suspended \cup Draining \cup Dispatching
      /\ g.at # "read" => UNCHANGED out \/ (front[s] = last[s] /\ out' = [out EXCEPT ![s] = NULL])
      /\ g.at = "read" => front[s] # last[s] /\ UNCHANGED out /\ g.q = s /\ g.ev = NULL
<1>5. \E g \in MethodCall : Goes(g)
  <2>1. ASSUME NextQueue(s), UNCHANGED out \/ (front[s] = last[s] /\ out' = [out EXCEPT ![s] = NULL])
        PROVE  \E g \in MethodCall : Goes(g)
    <3>1. PICK g \in MethodCall :
           /\ stack' = Append(b, g) /\ g.fn = "schedule" /\ g.at \in {"test", "dispatch"}
           /\ g \in Suspended \cup Dispatching
      BY <1>1, <1>2, <2>1, NextQueueOn
    <3> QED
      BY <2>1, <3>1
  <2>2. ASSUME front[s] # last[s], GoTo("read"), UNCHANGED out
        PROVE  \E g \in MethodCall : Goes(g)
    <3> DEFINE g == Frame(f.fn, "read", f.q, f.ev)
    <3>1. "read" \in Points
      BY DEF Points
    <3>2. stack' = Append(b, g)
      BY <1>1, <2>2, <3>1 DEF GoTo, Inner
    <3>3. /\ g \in MethodCall /\ g.fn = "schedule" /\ g.at = "read" /\ g.q = s /\ g.ev = f.ev
      BY <1>1, <1>2, <3>1 DEF Frame, MethodCall, Inner
    <3>4. f.ev = NULL
      BY <1>1, Kinds DEF Inner, Suspended
    <3> HIDE DEF g
    <3>5. g \in Draining
      BY <3>3, <3>4, Kinds
    <3> QED
      BY <2>2, <3>2, <3>3, <3>4, <3>5
  <2> QED
    BY <1>4, <2>1, <2>2
<1>6. PICK g \in MethodCall : Goes(g)
  BY <1>5
<1>7. /\ stack = Append(b, f) /\ f.fn = "schedule" /\ f.at = "test" /\ TypeOK
      /\ ScriptOk(Append(b, f), flag, data, lock, stranded)
  BY <1>1 DEF Inner
<1>8. Alike(f, g) /\ (ToDispatch(f) => ToDispatch(g))
  BY <1>6, <1>7, Kinds DEF Alike, Within, Asking, ToDispatch
<1>9. /\ ScriptOk(stack', flag, data, lock, stranded)
      /\ \A e \in Event : Copied(stack', data, handled, e) = Copied(stack, data, handled, e)
  BY <1>6, <1>7, <1>8, GoesOn
<1>10. TypeOK'
  <2>1. stack' \in Seq(MethodCall)
    BY <1>6, PutOn
  <2>2. out' \in [Source -> Event \cup {NULL}]
    BY <1>6, <1>7 DEF TypeOK
  <2> QED
    BY <1>3, <1>7, <2>1, <2>2 DEF TypeOK, listener, script, raised
<1>11. ASSUME NEW r \in Source PROVE [Ring(r)!Next]_(Ring(r)!vars)
  <2>1. Dequeuing(r) = Idle /\ Dequeuing(r)' = DequeueOf(g, r)
    BY <1>6, <1>7, DequeuingTop DEF DequeueOf
  <2>2. UNCHANGED <<front[r], last[r], list[r], prod[r], reply[r]>>
    BY <1>3
  <2>3. r # s => out'[r] = out[r]
    BY <1>6, <1>7 DEF TypeOK
  <2>4. CASE g.at = "read"
    <3>1. CASE r = s
      <4>1. Dequeuing(r)' = [at |-> "read", ev |-> NULL]
        BY <1>6, <2>1, <2>4, <3>1 DEF DequeueOf
      <4>2. Dequeuing(r)' = [Dequeuing(r) EXCEPT !.at = "read"] /\ Dequeuing(r).at = "idle"
        BY <2>1, <4>1 DEF Idle
      <4>3. front[r] # last[r] /\ UNCHANGED out[r]
        BY <1>6, <2>4, <3>1
      <4> QED
        BY <2>2, <4>2, <4>3 DEF Ring!Next, Ring!Dequeue, Ring!DequeueTest
    <3>2. CASE r # s
      <4>1. Dequeuing(r)' = Idle
        BY <1>6, <2>1, <2>4, <3>2 DEF DequeueOf
      <4> QED
        BY <2>1, <2>2, <2>3, <3>2, <4>1 DEF Ring!vars
    <3> QED
      BY <3>1, <3>2
  <2>5. CASE g.at # "read"
    <3>1. Dequeuing(r)' = Idle
      BY <1>6, <2>1, <2>5 DEF DequeueOf
    <3>2. UNCHANGED out[r] \/ (front[r] = last[r] /\ out'[r] = NULL)
      BY <1>6, <1>7, <2>3, <2>5 DEF TypeOK
    <3> QED
      BY <2>1, <2>2, <3>1, <3>2 DEF Ring!Next, Ring!Dequeue, Ring!DequeueTest, Ring!vars, Idle
  <2> QED
    BY <2>4, <2>5
<1> QED
  BY <1>3, <1>9, <1>10, <1>11 DEF Proceeds, RingSteps, script, raised

LEMMA DequeueReadStep ==
  ASSUME IInv, DequeueRead PROVE Proceeds
<1>1. PICK b \in Seq(MethodCall), f \in MethodCall : Inner(b, f, "schedule", "read")
  BY InnerCall DEF DequeueRead
<1>2. PICK s \in Source : s = f.q
  BY <1>1, Kinds DEF Inner, Suspended
<1>3. /\ stack = Append(b, f) /\ f.fn = "schedule" /\ f.at = "read" /\ TypeOK /\ f = Last(stack)
      /\ ScriptOk(Append(b, f), flag, data, lock, stranded)
      /\ \A g \in MethodCall : [stack EXCEPT ![Len(stack)] = g] = Append(b, g)
  BY <1>1 DEF Inner
<1>4. UNCHANGED <<ring, listener, script>>
  BY DEF DequeueRead
<1>5. list[s][last[s]] \in Event \cup {NULL}
  <2>1. list[s] \in [0 .. QueueSize - 1 -> Event \cup {NULL}] /\ last[s] \in 0 .. QueueSize - 1
    BY <1>3 DEF TypeOK
  <2> QED
    BY <2>1
<1>6. "release" \in Points /\ s \in 0 .. EVENT_TYPE_MAX
  BY DEF Points, Source, EVENT_TYPE_MAX
<1>7. PICK g \in MethodCall :
        g = Frame("schedule", "release", s, list[s][last[s]]) /\ g.fn = "schedule" /\ g.at = "release"
        /\ g.q = s /\ g.ev = list[s][last[s]]
  BY <1>5, <1>6, FrameMade
<1>8. stack' = Append(b, g)
  <2>1. stack' = [stack EXCEPT ![Len(stack)] =
                    Frame("schedule", "release", Last(stack).q, list[Last(stack).q][last[Last(stack).q]])]
    BY DEF DequeueRead
  <2>2. stack' = [stack EXCEPT ![Len(stack)] = g]
    BY <1>2, <1>3, <1>7, <2>1
  <2> QED
    BY <1>3, <2>2
<1>9. g \in Draining /\ Alike(f, g) /\ (ToDispatch(f) => ToDispatch(g))
  BY <1>3, <1>7, Kinds DEF Alike, Within, Asking, ToDispatch
<1>10. /\ ScriptOk(stack', flag, data, lock, stranded)
       /\ \A e \in Event : Copied(stack', data, handled, e) = Copied(stack, data, handled, e)
  BY <1>3, <1>8, <1>9, GoesOn
<1>11. TypeOK'
  <2>1. stack' \in Seq(MethodCall)
    BY <1>8, PutOn
  <2> QED
    BY <1>3, <1>4, <2>1, TypeKept DEF script, raised, TypeOK
<1>12. ASSUME NEW r \in Source PROVE [Ring(r)!Next]_(Ring(r)!vars)
  <2>1. Dequeuing(r) = DequeueOf(f, r) /\ Dequeuing(r)' = DequeueOf(g, r)
    BY <1>3, <1>8, DequeuingTop
  <2>2. UNCHANGED <<front[r], last[r], list[r], prod[r], reply[r], out[r]>>
    BY <1>4 DEF ring
  <2>3. CASE r = s
    <3>1. Dequeuing(r).at = "read" /\ Dequeuing(r)' = [at |-> "release", ev |-> list[r][last[r]]]
      <4>1. DequeueOf(f, r).at = "read"
        BY <1>2, <1>3, <2>3 DEF DequeueOf
      <4>2. DequeueOf(g, r) = [at |-> "release", ev |-> g.ev]
        BY <1>7, <2>3 DEF DequeueOf
      <4> QED
        BY <1>7, <2>1, <2>3, <4>1, <4>2
    <3> QED
      BY <2>2, <3>1 DEF Ring!Next, Ring!Dequeue, Ring!DequeueRead
  <2>4. CASE r # s
    <3>1. Dequeuing(r) = Idle /\ Dequeuing(r)' = Idle
      BY <1>2, <1>7, <2>1, <2>4 DEF DequeueOf
    <3> QED
      BY <2>2, <3>1 DEF Ring!vars
  <2> QED
    BY <2>3, <2>4
<1> QED
  BY <1>4, <1>10, <1>11, <1>12 DEF Proceeds, RingSteps, script, raised

(* The invariants and the copies, for a stack seen from its end.           *)
LEMMA ScriptPut ==
  ASSUME NEW b \in Seq(MethodCall), NEW g \in MethodCall, NEW fl, NEW d, NEW l, NEW r \in Nat
  PROVE  ScriptOk(Append(b, g), fl, d, l, r) <=>
              /\ Beneath(b) /\ CalledFrom(b, g) /\ g \in Suspended \cup Draining \cup Dispatching
              /\ Number(b, Within) + One(g, Within) <= (IF l THEN 1 ELSE 0)
              /\ Takers(b, d) /\ (g \in Taking => d # <<>> /\ g.ev = Head(d))
              /\ (fl => ToDispatch(g))
              /\ Len(d) = (IF fl THEN 1 ELSE 0) + Number(b, Asking) + One(g, Asking) + r
<1>1. /\ Number(Append(b, g), Within) = Number(b, Within) + One(g, Within)
      /\ Number(Append(b, g), Asking) = Number(b, Asking) + One(g, Asking)
      /\ \A e : Number(Append(b, g), Enqueuing(e)) = Number(b, Enqueuing(e)) + One(g, Enqueuing(e))
      /\ \A e : Number(Append(b, g), Taken(e)) = Number(b, Taken(e)) + One(g, Taken(e))
      /\ Number(b, Asking) \in Nat
  BY NumbersPut
<1>2. Append(b, g) # <<>> /\ Last(Append(b, g)) = g
  BY PutOn
<1>3. StackOk(Append(b, g)) <=>
        Beneath(b) /\ CalledFrom(b, g) /\ g \in Suspended \cup Draining \cup Dispatching
  BY StackPut
<1>4. LockOk(Append(b, g), l, d) <=>
        /\ Number(b, Within) + One(g, Within) <= (IF l THEN 1 ELSE 0)
        /\ Takers(b, d) /\ (g \in Taking => d # <<>> /\ g.ev = Head(d))
  BY <1>1, TakersPut DEF LockOk
<1>5. RequestOk(Append(b, g), fl, d, r) <=>
        /\ (fl => ToDispatch(g))
        /\ Len(d) = (IF fl THEN 1 ELSE 0) + Number(b, Asking) + One(g, Asking) + r
  <2>1. One(g, Asking) \in Nat
    BY DEF One
  <2>2. (IF fl THEN 1 ELSE 0) + Number(b, Asking) + One(g, Asking) + r
          = (IF fl THEN 1 ELSE 0) + (Number(b, Asking) + One(g, Asking)) + r
    BY <1>1, <2>1
  <2> QED
    BY <1>1, <1>2, <2>2 DEF RequestOk, Flagged, Requests
<1> QED
  BY <1>1, <1>3, <1>4, <1>5 DEF ScriptOk

LEMMA CopiedPut ==
  ASSUME NEW b \in Seq(MethodCall), NEW g \in MethodCall, NEW d, NEW h, NEW e
  PROVE  Copied(Append(b, g), d, h, e) =
           (Number(b, Enqueuing(e)) + One(g, Enqueuing(e))) + Number(d, {e})
             + (Number(b, Taken(e)) + One(g, Taken(e))) + Number(h, {e})
BY NumbersPut DEF Copied

LEMMA CopiedSame ==
  ASSUME NEW b \in Seq(MethodCall), NEW f \in MethodCall, NEW g \in MethodCall, NEW d, NEW h, NEW e,
         One(g, Enqueuing(e)) = One(f, Enqueuing(e)), One(g, Taken(e)) = One(f, Taken(e))
  PROVE  Copied(Append(b, g), d, h, e) = Copied(Append(b, f), d, h, e)
<1>1. Copied(Append(b, f), d, h, e) =
        (Number(b, Enqueuing(e)) + One(f, Enqueuing(e))) + Number(d, {e})
          + (Number(b, Taken(e)) + One(f, Taken(e))) + Number(h, {e})
  BY CopiedPut
<1>2. Copied(Append(b, g), d, h, e) =
        (Number(b, Enqueuing(e)) + One(g, Enqueuing(e))) + Number(d, {e})
          + (Number(b, Taken(e)) + One(g, Taken(e))) + Number(h, {e})
  BY CopiedPut
<1> QED
  BY <1>1, <1>2

LEMMA DispatchStep ==
  ASSUME IInv, Dispatch PROVE Proceeds
<1>1. PICK b \in Seq(MethodCall), f \in MethodCall : Inner(b, f, "schedule", "dispatch")
  BY InnerCall DEF Dispatch
<1>2. /\ stack = Append(b, f) /\ f.fn = "schedule" /\ f.at = "dispatch" /\ TypeOK /\ b = Front(stack)
      /\ ScriptOk(Append(b, f), flag, data, lock, stranded) /\ Beneath(b)
      /\ \A g \in MethodCall : [stack EXCEPT ![Len(stack)] = g] = Append(b, g)
  BY <1>1 DEF Inner
<1>3. /\ UNCHANGED <<ring, listener, data, lock, handled, raised>>
      /\ flag \in BOOLEAN /\ lock \in BOOLEAN /\ data \in Seq(Event) /\ handled \in Seq(Event)
      /\ stranded \in Nat
  BY <1>2 DEF Dispatch, TypeOK
<1>4. /\ One(f, Within) = 0 /\ One(f, Asking) = 0
      /\ \A e : One(f, Enqueuing(e)) = 0 /\ One(f, Taken(e)) = 0
  BY <1>2, ScheduleCountsNothing
<1>5. /\ Number(b, Within) \in Nat /\ Number(b, Asking) \in Nat
      /\ \A e : Number(b, Enqueuing(e)) \in Nat /\ Number(b, Taken(e)) \in Nat
  BY PlacesFinite
<1>6. /\ Number(b, Within) <= (IF lock THEN 1 ELSE 0) /\ Takers(b, data)
      /\ Len(data) = (IF flag THEN 1 ELSE 0) + Number(b, Asking) + stranded
  BY <1>2, <1>3, <1>4, <1>5, ScriptPut
<1>7. CASE flag /\ flag' = FALSE /\ stack' = [stack EXCEPT ![Len(stack)] = Frame("invoke", "enter", 0, NULL)]
  <2>1. "enter" \in Points /\ 0 \in 0 .. EVENT_TYPE_MAX
    BY Getters DEF Points, EVENT_TYPE_MAX
  <2>2. PICK g \in MethodCall :
          g = Frame("invoke", "enter", 0, NULL) /\ g.fn = "invoke" /\ g.at = "enter" /\ g.ev = NULL
    BY <2>1, FrameMade
  <2>3. stack' = Append(b, g)
    BY <1>2, <1>7, <2>2
  <2>4. g \in Outside /\ g \notin Adding /\ g \notin Taking
    BY <2>2, Kinds
  <2>5. /\ One(g, Within) = 0 /\ One(g, Asking) = 1
        /\ \A e : One(g, Enqueuing(e)) = 0 /\ One(g, Taken(e)) = 0
    BY <2>4, Counts
  <2>6. ScriptOk(stack', flag', data, lock, stranded)
    <3>1. g \in Suspended /\ CalledFrom(b, g)
      BY <2>4 DEF Suspended, CalledFrom
    <3>2. /\ Number(b, Within) + One(g, Within) <= (IF lock THEN 1 ELSE 0)
          /\ Len(data) = (IF flag' THEN 1 ELSE 0) + Number(b, Asking) + One(g, Asking) + stranded
      BY <1>3, <1>5, <1>6, <1>7, <2>5
    <3>3. flag' => ToDispatch(g)
      BY <1>7
    <3>4. ScriptOk(Append(b, g), flag', data, lock, stranded)
      BY <1>2, <1>3, <1>6, <2>4, <3>1, <3>2, <3>3, ScriptPut
    <3> QED
      BY <2>3, <3>4
  <2>7. ASSUME NEW e PROVE Copied(stack', data, handled, e) = Copied(stack, data, handled, e)
    <3>1. /\ One(g, Enqueuing(e)) = One(f, Enqueuing(e)) /\ One(g, Taken(e)) = One(f, Taken(e))
      BY <1>4, <2>5
    <3>2. Copied(Append(b, g), data, handled, e) = Copied(Append(b, f), data, handled, e)
      BY <3>1, CopiedSame
    <3> QED
      BY <1>2, <2>3, <3>2
  <2>8. TypeOK'
    <3>1. stack' \in Seq(MethodCall)
      BY <2>3, PutOn
    <3> QED
      BY <1>2, <1>3, <1>7, <3>1, TypeKept
  <2>9. RingSteps
    BY <1>2, <1>3, <2>2, <2>3, RingsQuietOn
  <2> QED
    BY <1>3, <2>6, <2>7, <2>8, <2>9 DEF Proceeds, raised
<1>8. CASE ~flag /\ Return /\ UNCHANGED flag
  <2>1. stack' = b
    BY <1>2, <1>8 DEF Return
  <2>2. ScriptOk(b, flag, data, lock, stranded)
    <3>1. StackOk(b)
      BY <1>2, StackReturn
    <3>2. LockOk(b, lock, data)
      BY <1>6 DEF LockOk
    <3>3. RequestOk(b, flag, data, stranded)
      BY <1>3, <1>5, <1>6, <1>8 DEF RequestOk, Flagged, Requests
    <3> QED
      BY <3>1, <3>2, <3>3 DEF ScriptOk
  <2>3. ASSUME NEW e PROVE Copied(b, data, handled, e) = Copied(stack, data, handled, e)
    <3>1. /\ Number(b, Enqueuing(e)) + One(f, Enqueuing(e)) = Number(b, Enqueuing(e))
          /\ Number(b, Taken(e)) + One(f, Taken(e)) = Number(b, Taken(e))
      BY <1>4, <1>5
    <3> QED
      BY <1>2, <3>1, CopiedPut DEF Copied
  <2>4. TypeOK'
    BY <1>2, <1>3, <1>8, <2>1, TypeKept
  <2>5. RingSteps
    BY <1>2, <1>3, <2>1, RingsQuietReturn
  <2> QED
    BY <1>3, <1>8, <2>1, <2>2, <2>3, <2>4, <2>5 DEF Proceeds, raised
<1> QED
  BY <1>7, <1>8 DEF Dispatch

(* What is known of the innermost call f of a method of the script.        *)
ScriptCall(b, f) ==
  /\ stack = Append(b, f) /\ TypeOK /\ b = Front(stack) /\ f = Last(stack)
  /\ ScriptOk(Append(b, f), flag, data, lock, stranded)
  /\ Beneath(b) /\ CalledFrom(b, f) /\ f \in Suspended
  /\ Number(b, Within) + One(f, Within) <= (IF lock THEN 1 ELSE 0)
  /\ Takers(b, data) /\ (f \in Taking => data # <<>> /\ f.ev = Head(data))
  /\ (flag => ToDispatch(f))
  /\ Len(data) = (IF flag THEN 1 ELSE 0) + Number(b, Asking) + One(f, Asking) + stranded
  /\ Number(b, Within) \in Nat /\ Number(b, Asking) \in Nat
  /\ \A e : Number(b, Enqueuing(e)) \in Nat /\ Number(b, Taken(e)) \in Nat
  /\ data \in Seq(Event) /\ handled \in Seq(Event) /\ flag \in BOOLEAN /\ lock \in BOOLEAN
  /\ stranded \in Nat

LEMMA ScriptCallIs ==
  ASSUME IInv, NEW fn \in {"enqueueEvent", "invoke"}, NEW at, Running(fn, at)
  PROVE  \E b \in Seq(MethodCall), f \in MethodCall :
           /\ ScriptCall(b, f) /\ f.fn = fn /\ f.at = at
           /\ \A g \in MethodCall : [stack EXCEPT ![Len(stack)] = g] = Append(b, g)
           /\ \A to \in Points : [stack EXCEPT ![Len(stack)].at = to] = Append(b, Frame(f.fn, to, f.q, f.ev))
<1>1. PICK b \in Seq(MethodCall), f \in MethodCall : Inner(b, f, fn, at)
  BY InnerCall
<1>2. /\ stack = Append(b, f) /\ TypeOK /\ b = Front(stack) /\ f = Last(stack)
      /\ ScriptOk(Append(b, f), flag, data, lock, stranded)
      /\ Beneath(b) /\ CalledFrom(b, f) /\ f \in Suspended \cup Draining \cup Dispatching
      /\ f.fn = fn /\ f.at = at
  BY <1>1 DEF Inner
<1>3. f \in Suspended
  BY <1>2, Kinds
<1>6. /\ data \in Seq(Event) /\ handled \in Seq(Event) /\ flag \in BOOLEAN /\ lock \in BOOLEAN
      /\ stranded \in Nat
  BY <1>2 DEF TypeOK
<1>4. /\ Number(b, Within) + One(f, Within) <= (IF lock THEN 1 ELSE 0)
      /\ Takers(b, data) /\ (f \in Taking => data # <<>> /\ f.ev = Head(data))
      /\ (flag => ToDispatch(f))
      /\ Len(data) = (IF flag THEN 1 ELSE 0) + Number(b, Asking) + One(f, Asking) + stranded
  BY <1>2, <1>6, ScriptPut
<1>5. /\ Number(b, Within) \in Nat /\ Number(b, Asking) \in Nat
      /\ \A e : Number(b, Enqueuing(e)) \in Nat /\ Number(b, Taken(e)) \in Nat
  BY PlacesFinite
<1>7. ScriptCall(b, f)
  BY <1>2, <1>3, <1>4, <1>5, <1>6 DEF ScriptCall
<1>8. /\ \A g \in MethodCall : [stack EXCEPT ![Len(stack)] = g] = Append(b, g)
      /\ \A to \in Points : [stack EXCEPT ![Len(stack)].at = to] = Append(b, Frame(f.fn, to, f.q, f.ev))
  BY <1>1 DEF Inner
<1> QED
  BY <1>2, <1>7, <1>8

LEMMA ScriptCallCounts ==
  ASSUME NEW b, NEW f, ScriptCall(b, f)
  PROVE  /\ Len(data) = (IF flag THEN 1 ELSE 0) + Number(b, Asking) + One(f, Asking) + stranded
         /\ flag => ToDispatch(f)
         /\ data \in Seq(Event) /\ Number(b, Asking) \in Nat /\ stranded \in Nat
BY DEF ScriptCall

LEMMA EnqueueEventStep ==
  ASSUME IInv, EnqueueEvent PROVE Proceeds
<1>1. PICK b \in Seq(MethodCall), f \in MethodCall :
        ScriptCall(b, f) /\ f.fn = "enqueueEvent" /\ f.at = "add"
  BY ScriptCallIs DEF EnqueueEvent
<1>2. f \in Adding /\ f.ev \in Event /\ ~ToDispatch(f)
  BY <1>1, Kinds DEF ScriptCall, Suspended, ToDispatch
<1>3. /\ stack' = b /\ data' = Append(data, f.ev) /\ flag' = TRUE
      /\ UNCHANGED <<ring, listener, lock, handled, raised>>
  BY <1>1 DEF ScriptCall, EnqueueEvent, Return
<1>4. /\ One(f, Within) = 0 /\ One(f, Asking) = 0
      /\ \A e : One(f, Enqueuing(e)) = One(f.ev, {e}) /\ One(f, Taken(e)) = 0
  BY <1>2, Counts
<1>5. data' \in Seq(Event) /\ Len(data') = Len(data) + 1 /\ Len(data) \in Nat
  <2>1. data \in Seq(Event)
    BY <1>1, ScriptCallCounts
  <2> QED
    BY <1>2, <1>3, <2>1, PutOn, LenProperties
<1>6. ScriptOk(b, flag', data', lock, stranded)
  <2>1. StackOk(b)
    BY <1>1, StackReturn DEF ScriptCall
  <2>2. LockOk(b, lock, data')
    <3>1. Takers(b, data')
      BY <1>1, <1>2, <1>3, TakersAppend DEF ScriptCall
    <3> QED
      BY <1>1, <1>4, <3>1 DEF ScriptCall, LockOk
  <2>3. Flagged(b, flag')
    BY <1>1, <1>2 DEF ScriptCall, CalledFrom, Flagged, ToDispatch
  <2>4. Len(data) = Number(b, Asking) + stranded
    BY <1>1, <1>2, <1>4, ScriptCallCounts
  <2>5. Requests(b, flag', data', stranded)
    BY <1>1, <1>3, <1>5, <2>4, ScriptCallCounts DEF Requests
  <2> QED
    BY <2>1, <2>2, <2>3, <2>5 DEF ScriptOk, RequestOk
<1>7. ASSUME NEW e PROVE Copied(b, data', handled, e) = Copied(stack, data, handled, e)
  <2>1. Number(data', {e}) = Number(data, {e}) + One(f.ev, {e}) /\ Number(data, {e}) \in Nat
    BY <1>1, <1>2, <1>3, NumberPut, PlacesFinite DEF ScriptCall
  <2>2. Copied(Append(b, f), data, handled, e) =
          (Number(b, Enqueuing(e)) + One(f, Enqueuing(e))) + Number(data, {e})
            + (Number(b, Taken(e)) + One(f, Taken(e))) + Number(handled, {e})
    BY CopiedPut
  <2>3. Copied(stack, data, handled, e) =
          (Number(b, Enqueuing(e)) + One(f.ev, {e})) + Number(data, {e})
            + (Number(b, Taken(e)) + 0) + Number(handled, {e})
    BY <1>1, <1>4, <2>2 DEF ScriptCall
  <2>4. Number(handled, {e}) \in Nat /\ One(f.ev, {e}) \in Nat
    BY <1>1, PlacesFinite DEF ScriptCall, One
  <2> QED
    BY <1>1, <2>1, <2>3, <2>4 DEF ScriptCall, Copied
<1>8. TypeOK'
  BY <1>1, <1>3, <1>5, TypeKept DEF ScriptCall
<1>9. RingSteps
  BY <1>1, <1>3, RingsQuietReturn DEF ScriptCall
<1> QED
  BY <1>3, <1>6, <1>7, <1>8, <1>9 DEF Proceeds, raised

LEMMA LockStep ==
  ASSUME IInv, Lock PROVE Proceeds
<1>1. PICK b \in Seq(MethodCall), f \in MethodCall :
        /\ ScriptCall(b, f) /\ f.fn = "invoke" /\ f.at = "lock"
        /\ \A to \in Points : [stack EXCEPT ![Len(stack)].at = to] = Append(b, Frame(f.fn, to, f.q, f.ev))
  BY ScriptCallIs DEF Lock
<1>2. "locked" \in Points
  BY Getters DEF Points
<1>3. PICK g \in MethodCall :
        g = Frame(f.fn, "locked", f.q, f.ev) /\ g.fn = "invoke" /\ g.at = "locked" /\ g.ev = f.ev
  BY <1>1, <1>2, FrameGoes
<1>4. /\ stack' = Append(b, g) /\ lock' = TRUE /\ ~lock
      /\ UNCHANGED <<ring, listener, flag, data, handled, raised>>
  BY <1>1, <1>2, <1>3 DEF Lock, MayLock, GoTo
<1>5. f \in Outside /\ g \in Before /\ g \notin Taking /\ g \notin Adding /\ ~ToDispatch(f)
  BY <1>1, <1>3, Kinds DEF ScriptCall, Suspended, ToDispatch
<1>6. /\ One(f, Within) = 0 /\ One(f, Asking) = 1 /\ One(g, Within) = 1 /\ One(g, Asking) = 1
      /\ \A e : One(f, Enqueuing(e)) = One(g, Enqueuing(e)) /\ One(f, Taken(e)) = One(g, Taken(e))
  BY <1>5, Counts
<1>7. ScriptOk(Append(b, g), flag, data, lock', stranded)
  <2>1. Number(b, Within) + One(g, Within) <= (IF lock' THEN 1 ELSE 0)
    BY <1>1, <1>4, <1>6 DEF ScriptCall
  <2>2. /\ (flag => ToDispatch(g))
        /\ Len(data) = (IF flag THEN 1 ELSE 0) + Number(b, Asking) + One(g, Asking) + stranded
    BY <1>1, <1>5, <1>6 DEF ScriptCall
  <2>3. Beneath(b) /\ CalledFrom(b, g) /\ g \in Suspended /\ Takers(b, data)
    BY <1>1, <1>5 DEF ScriptCall, CalledFrom, Suspended
  <2> QED
    BY <1>1, <1>5, <2>1, <2>2, <2>3, ScriptPut DEF ScriptCall
<1>8. ASSUME NEW e PROVE Copied(stack', data, handled, e) = Copied(stack, data, handled, e)
  <2>1. Copied(Append(b, g), data, handled, e) = Copied(Append(b, f), data, handled, e)
    BY <1>6, CopiedSame
  <2> QED
    BY <1>1, <1>4, <2>1 DEF ScriptCall
<1>9. TypeOK'
  <2>1. stack' \in Seq(MethodCall)
    BY <1>4, PutOn
  <2> QED
    BY <1>1, <1>4, <2>1, TypeKept DEF ScriptCall
<1>10. RingSteps
  BY <1>1, <1>3, <1>4, RingsQuietOn DEF ScriptCall
<1> QED
  BY <1>4, <1>7, <1>8, <1>9, <1>10 DEF Proceeds, raised

LEMMA LookStep ==
  ASSUME IInv, Look PROVE Proceeds
<1>1. PICK b \in Seq(MethodCall), f \in MethodCall :
        /\ ScriptCall(b, f) /\ f.fn = "invoke" /\ f.at = "look"
        /\ \A g \in MethodCall : [stack EXCEPT ![Len(stack)] = g] = Append(b, g)
        /\ \A to \in Points : [stack EXCEPT ![Len(stack)].at = to] = Append(b, Frame(f.fn, to, f.q, f.ev))
  BY ScriptCallIs DEF Look
<1>2. UNCHANGED <<ring, listener, script>>
  BY DEF Look
<1>3. f \in Before /\ ~ToDispatch(f)
  BY <1>1, Kinds DEF ScriptCall, Suspended, ToDispatch
<1>4. PICK g \in MethodCall :
        /\ stack' = Append(b, g) /\ g.at \in {"called", "take"} /\ g \notin Adding
        /\ (data = <<>> /\ g \in After /\ g \notin Taking)
             \/ (data # <<>> /\ g \in Before /\ g.ev = Head(data))
  <2>1. CASE data = <<>> /\ GoTo("called")
    <3>1. "called" \in Points
      BY Getters DEF Points
    <3>2. PICK g \in MethodCall :
            g = Frame(f.fn, "called", f.q, f.ev) /\ g.fn = "invoke" /\ g.at = "called"
      BY <1>1, <3>1, FrameGoes
    <3>3. stack' = Append(b, g)
      BY <1>1, <2>1, <3>1, <3>2 DEF GoTo
    <3>4. g \in After /\ g \notin Taking /\ g \notin Adding
      BY <3>2, Kinds
    <3> QED
      BY <2>1, <3>2, <3>3, <3>4
  <2>2. CASE data # <<>> /\ stack' = [stack EXCEPT ![Len(stack)] = Frame("invoke", "take", 0, Head(data))]
    <3>1. Head(data) \in Event
      BY <1>1, <2>2, HeadOff DEF ScriptCall
    <3>2. "take" \in Points /\ 0 \in 0 .. EVENT_TYPE_MAX
      BY Getters DEF Points, EVENT_TYPE_MAX
    <3>3. PICK g \in MethodCall :
            g = Frame("invoke", "take", 0, Head(data)) /\ g.fn = "invoke" /\ g.at = "take"
            /\ g.ev = Head(data)
      BY <3>1, <3>2, FrameMade
    <3>4. stack' = Append(b, g)
      BY <1>1, <2>2, <3>3
    <3>5. g \in Before /\ g \notin Adding
      BY <3>1, <3>3, Kinds
    <3> QED
      BY <2>2, <3>3, <3>4, <3>5
  <2> QED
    BY <2>1, <2>2 DEF Look
<1>5. /\ One(f, Within) = 1 /\ One(f, Asking) = 1 /\ One(g, Within) = 1
      /\ g \in Before => One(g, Asking) = 1
      /\ \A e : One(f, Enqueuing(e)) = 0 /\ One(g, Enqueuing(e)) = 0
      /\ \A e : One(f, Taken(e)) = 0 /\ One(g, Taken(e)) = 0
  BY <1>3, <1>4, Counts
<1>6. ScriptOk(Append(b, g), flag, data, lock, stranded)
  <2>1. Number(b, Within) + One(g, Within) <= (IF lock THEN 1 ELSE 0)
    BY <1>1, <1>5 DEF ScriptCall
  <2>2. g \in Before
    <3>1. ASSUME data = <<>> PROVE FALSE
      <4>1. Len(data) = 0
        BY <3>1
      <4>2. Len(data) = (IF flag THEN 1 ELSE 0) + Number(b, Asking) + 1 + stranded
        BY <1>1, <1>5 DEF ScriptCall
      <4> QED
        BY <1>1, <4>1, <4>2 DEF ScriptCall
    <3> QED
      BY <1>4, <3>1
  <2>3. /\ (flag => ToDispatch(g))
        /\ Len(data) = (IF flag THEN 1 ELSE 0) + Number(b, Asking) + One(g, Asking) + stranded
    BY <1>1, <1>3, <1>5, <2>2 DEF ScriptCall
  <2>4. Beneath(b) /\ CalledFrom(b, g) /\ g \in Suspended /\ Takers(b, data)
    BY <1>1, <1>4 DEF ScriptCall, CalledFrom, Suspended
  <2> QED
    BY <1>1, <1>4, <2>1, <2>3, <2>4, ScriptPut DEF ScriptCall
<1>7. ASSUME NEW e PROVE Copied(stack', data, handled, e) = Copied(stack, data, handled, e)
  <2>1. Copied(Append(b, g), data, handled, e) = Copied(Append(b, f), data, handled, e)
    BY <1>5, CopiedSame
  <2> QED
    BY <1>1, <1>4, <2>1 DEF ScriptCall
<1>8. TypeOK'
  <2>1. stack' \in Seq(MethodCall)
    BY <1>4, PutOn
  <2> QED
    BY <1>1, <1>2, <2>1, TypeKept DEF ScriptCall, script, raised
<1>9. RingSteps
  BY <1>1, <1>2, <1>4, RingsQuietOn DEF ScriptCall
<1> QED
  BY <1>2, <1>4, <1>6, <1>7, <1>8, <1>9 DEF Proceeds, script, raised

LEMMA RemoveHeadStep ==
  ASSUME IInv, RemoveHead PROVE Proceeds
<1>1. PICK b \in Seq(MethodCall), f \in MethodCall :
        /\ ScriptCall(b, f) /\ f.fn = "invoke" /\ f.at = "remove"
        /\ \A to \in Points : [stack EXCEPT ![Len(stack)].at = to] = Append(b, Frame(f.fn, to, f.q, f.ev))
  BY ScriptCallIs DEF RemoveHead
<1>2. "removed" \in Points
  BY Getters DEF Points
<1>3. PICK g \in MethodCall :
        g = Frame(f.fn, "removed", f.q, f.ev) /\ g.fn = "invoke" /\ g.at = "removed" /\ g.ev = f.ev
  BY <1>1, <1>2, FrameGoes
<1>4. /\ stack' = Append(b, g) /\ data' = Tail(data)
      /\ UNCHANGED <<ring, listener, flag, lock, handled, raised>>
  BY <1>1, <1>2, <1>3 DEF RemoveHead, GoTo
<1>5. /\ f \in Before /\ f \in Taking /\ f.ev \in Event /\ ~ToDispatch(f)
      /\ g \in After /\ g \notin Taking /\ g \notin Adding
  BY <1>1, <1>3, Kinds DEF ScriptCall, Suspended, ToDispatch
<1>6. /\ One(f, Within) = 1 /\ One(f, Asking) = 1 /\ One(g, Within) = 1 /\ One(g, Asking) = 0
      /\ \A e : One(f, Enqueuing(e)) = 0 /\ One(g, Enqueuing(e)) = 0
      /\ \A e : One(f, Taken(e)) = 0 /\ One(g, Taken(e)) = One(f.ev, {e})
  BY <1>3, <1>5, Counts
<1>7. /\ data # <<>> /\ f.ev = Head(data) /\ data' \in Seq(Event)
      /\ Len(data) \in Nat \ {0} /\ Len(data') = Len(data) - 1
  BY <1>1, <1>4, <1>5, HeadOff DEF ScriptCall
<1>8. ScriptOk(Append(b, g), flag, data', lock, stranded)
  <2>1. Number(b, Within) = 0 /\ Number(b, Within) + One(g, Within) <= (IF lock THEN 1 ELSE 0)
    BY <1>1, <1>6 DEF ScriptCall
  <2>2. Takers(b, data')
    BY <2>1, TakersNone
  <2>3. /\ (flag => ToDispatch(g))
        /\ Len(data') = (IF flag THEN 1 ELSE 0) + Number(b, Asking) + One(g, Asking) + stranded
    BY <1>1, <1>5, <1>6, <1>7, ScriptCallCounts
  <2>4. Beneath(b) /\ CalledFrom(b, g) /\ g \in Suspended
    BY <1>1, <1>5 DEF ScriptCall, CalledFrom, Suspended
  <2> QED
    BY <1>1, <1>5, <2>1, <2>2, <2>3, <2>4, ScriptPut DEF ScriptCall
<1>9. ASSUME NEW e PROVE Copied(Append(b, g), data', handled, e) = Copied(stack, data, handled, e)
  <2>1. Number(data, {e}) = One(f.ev, {e}) + Number(data', {e})
    BY <1>1, <1>4, <1>7, NumberTail DEF ScriptCall
  <2>2. Copied(Append(b, f), data, handled, e) =
          (Number(b, Enqueuing(e)) + One(f, Enqueuing(e))) + Number(data, {e})
            + (Number(b, Taken(e)) + One(f, Taken(e))) + Number(handled, {e})
    BY CopiedPut
  <2>3. Copied(stack, data, handled, e) =
          (Number(b, Enqueuing(e)) + 0) + Number(data, {e})
            + (Number(b, Taken(e)) + 0) + Number(handled, {e})
    BY <1>1, <1>6, <2>2 DEF ScriptCall
  <2>4. Copied(Append(b, g), data', handled, e) =
          (Number(b, Enqueuing(e)) + 0) + Number(data', {e})
            + (Number(b, Taken(e)) + One(f.ev, {e})) + Number(handled, {e})
    BY <1>6, CopiedPut
  <2>5. /\ Number(handled, {e}) \in Nat /\ One(f.ev, {e}) \in Nat /\ Number(data', {e}) \in Nat
        /\ Number(b, Enqueuing(e)) \in Nat /\ Number(b, Taken(e)) \in Nat
    BY <1>1, <1>7, PlacesFinite DEF ScriptCall, One
  <2> QED
    BY <2>1, <2>3, <2>4, <2>5
<1>10. TypeOK'
  <2>1. stack' \in Seq(MethodCall)
    BY <1>4, PutOn
  <2> QED
    BY <1>1, <1>4, <1>7, <2>1, TypeKept DEF ScriptCall
<1>11. RingSteps
  BY <1>1, <1>3, <1>4, RingsQuietOn DEF ScriptCall
<1> QED
  BY <1>4, <1>8, <1>9, <1>10, <1>11 DEF Proceeds, raised

LEMMA CallStep ==
  ASSUME IInv, Call PROVE Proceeds
<1>1. PICK b \in Seq(MethodCall), f \in MethodCall :
        /\ ScriptCall(b, f) /\ f.fn = "invoke" /\ f.at = "call"
        /\ \A to \in Points : [stack EXCEPT ![Len(stack)].at = to] = Append(b, Frame(f.fn, to, f.q, f.ev))
  BY ScriptCallIs DEF Call
<1>2. "called" \in Points
  BY Getters DEF Points
<1>3. PICK g \in MethodCall :
        g = Frame(f.fn, "called", f.q, f.ev) /\ g.fn = "invoke" /\ g.at = "called" /\ g.ev = f.ev
  BY <1>1, <1>2, FrameGoes
<1>4. /\ stack' = Append(b, g) /\ handled' = Append(handled, f.ev)
      /\ UNCHANGED <<ring, listener, flag, data, lock, raised>>
  BY <1>1, <1>2, <1>3 DEF ScriptCall, Call, GoTo
<1>5. /\ f \in After /\ f.ev \in Event /\ ~ToDispatch(f)
      /\ g \in After /\ g \notin Taking /\ g \notin Adding
  BY <1>1, <1>3, Kinds DEF ScriptCall, Suspended, ToDispatch
<1>6. /\ One(f, Within) = 1 /\ One(f, Asking) = 0 /\ One(g, Within) = 1 /\ One(g, Asking) = 0
      /\ \A e : One(f, Enqueuing(e)) = 0 /\ One(g, Enqueuing(e)) = 0
      /\ \A e : One(f, Taken(e)) = One(f.ev, {e}) /\ One(g, Taken(e)) = 0
  BY <1>1, <1>3, <1>5, Counts
<1>7. handled' \in Seq(Event)
  BY <1>1, <1>4, <1>5, PutOn DEF ScriptCall
<1>8. ScriptOk(Append(b, g), flag, data, lock, stranded)
  <2>1. Number(b, Within) + One(g, Within) <= (IF lock THEN 1 ELSE 0)
    BY <1>1, <1>6 DEF ScriptCall
  <2>2. /\ (flag => ToDispatch(g))
        /\ Len(data) = (IF flag THEN 1 ELSE 0) + Number(b, Asking) + One(g, Asking) + stranded
    BY <1>1, <1>5, <1>6 DEF ScriptCall
  <2>3. Beneath(b) /\ CalledFrom(b, g) /\ g \in Suspended /\ Takers(b, data)
    BY <1>1, <1>5 DEF ScriptCall, CalledFrom, Suspended
  <2> QED
    BY <1>1, <1>5, <2>1, <2>2, <2>3, ScriptPut DEF ScriptCall
<1>9. ASSUME NEW e PROVE Copied(Append(b, g), data, handled', e) = Copied(stack, data, handled, e)
  <2>1. Number(handled', {e}) = Number(handled, {e}) + One(f.ev, {e})
    BY <1>1, <1>4, <1>5, NumberPut DEF ScriptCall
  <2>2. Copied(Append(b, f), data, handled, e) =
          (Number(b, Enqueuing(e)) + One(f, Enqueuing(e))) + Number(data, {e})
            + (Number(b, Taken(e)) + One(f, Taken(e))) + Number(handled, {e})
    BY CopiedPut
  <2>3. Copied(stack, data, handled, e) =
          (Number(b, Enqueuing(e)) + 0) + Number(data, {e})
            + (Number(b, Taken(e)) + One(f.ev, {e})) + Number(handled, {e})
    BY <1>1, <1>6, <2>2 DEF ScriptCall
  <2>4. Copied(Append(b, g), data, handled', e) =
          (Number(b, Enqueuing(e)) + 0) + Number(data, {e})
            + (Number(b, Taken(e)) + 0) + Number(handled', {e})
    BY <1>6, CopiedPut
  <2>5. /\ Number(handled, {e}) \in Nat /\ One(f.ev, {e}) \in Nat /\ Number(data, {e}) \in Nat
        /\ Number(b, Enqueuing(e)) \in Nat /\ Number(b, Taken(e)) \in Nat
    BY <1>1, PlacesFinite DEF ScriptCall, One
  <2> QED
    BY <2>1, <2>3, <2>4, <2>5
<1>10. TypeOK'
  <2>1. stack' \in Seq(MethodCall)
    BY <1>4, PutOn
  <2> QED
    BY <1>1, <1>4, <1>7, <2>1, TypeKept DEF ScriptCall
<1>11. RingSteps
  BY <1>1, <1>3, <1>4, RingsQuietOn DEF ScriptCall
<1> QED
  BY <1>4, <1>8, <1>9, <1>10, <1>11 DEF Proceeds, raised

LEMMA UnlockStep ==
  ASSUME IInv, Unlock PROVE Proceeds
<1>1. PICK b \in Seq(MethodCall), f \in MethodCall :
        ScriptCall(b, f) /\ f.fn = "invoke" /\ f.at = "unlock"
  BY ScriptCallIs DEF Unlock
<1>2. /\ stack' = b /\ lock' = FALSE
      /\ UNCHANGED <<ring, listener, flag, data, handled, raised>>
  BY <1>1 DEF ScriptCall, Unlock, Return
<1>3. f \in After /\ ~ToDispatch(f)
  BY <1>1, Kinds DEF ScriptCall, Suspended, ToDispatch
<1>4. /\ One(f, Within) = 1 /\ One(f, Asking) = 0
      /\ \A e : One(f, Enqueuing(e)) = 0 /\ One(f, Taken(e)) = 0
  BY <1>1, <1>3, Counts
<1>5. ScriptOk(b, flag, data, lock', stranded)
  <2>1. StackOk(b)
    BY <1>1, StackReturn DEF ScriptCall
  <2>2. LockOk(b, lock', data)
    BY <1>1, <1>2, <1>4 DEF ScriptCall, LockOk
  <2>3. RequestOk(b, flag, data, stranded)
    BY <1>1, <1>3, <1>4, ScriptCallCounts DEF RequestOk, Flagged, Requests
  <2> QED
    BY <2>1, <2>2, <2>3 DEF ScriptOk
<1>6. ASSUME NEW e PROVE Copied(b, data, handled, e) = Copied(stack, data, handled, e)
  <2>1. Copied(Append(b, f), data, handled, e) =
          (Number(b, Enqueuing(e)) + One(f, Enqueuing(e))) + Number(data, {e})
            + (Number(b, Taken(e)) + One(f, Taken(e))) + Number(handled, {e})
    BY CopiedPut
  <2>2. /\ Number(b, Enqueuing(e)) + One(f, Enqueuing(e)) = Number(b, Enqueuing(e))
        /\ Number(b, Taken(e)) + One(f, Taken(e)) = Number(b, Taken(e))
    BY <1>1, <1>4 DEF ScriptCall
  <2> QED
    BY <1>1, <2>2, <2>1 DEF ScriptCall, Copied
<1>7. TypeOK'
  BY <1>1, <1>2, TypeKept DEF ScriptCall
<1>8. RingSteps
  BY <1>1, <1>2, RingsQuietReturn DEF ScriptCall
<1> QED
  BY <1>2, <1>5, <1>6, <1>7, <1>8 DEF Proceeds, raised

(* A handler raises.  Of the calls beneath, those of enqueueEvent hold the *)
(* events that are dropped, and those of invoke are all outside the lock.  *)
LEMMA RaiseStep ==
  ASSUME IInv, Raise
  PROVE  /\ TypeOK' /\ RingSteps /\ ScriptOk(stack', flag', data', lock', stranded')
         /\ dropped \subseteq dropped'
         /\ \A e \in Event :
              /\ Copied(stack', data', handled', e) \in Nat
              /\ Copied(stack', data', handled', e) <= Copied(stack, data, handled, e)
              /\ \/ Copied(stack', data', handled', e) = Copied(stack, data, handled, e)
                 \/ e \in dropped'
<1>1. PICK b \in Seq(MethodCall), f \in MethodCall :
        ScriptCall(b, f) /\ f.fn = "invoke" /\ f.at = "call"
  BY ScriptCallIs DEF Raise
<1>2. /\ stack' = <<>> /\ handled' = Append(handled, f.ev)
      /\ raises' = raises + 1 /\ raises < MaxRaises /\ raises \in Nat
      /\ dropped' = dropped \cup {stack[k].ev : k \in {k \in 1 .. Len(stack) : stack[k] \in Adding}}
      /\ stranded' = stranded + Number(stack, Outside)
      /\ UNCHANGED <<ring, listener, flag, data, lock>>
  BY <1>1, ListenerAssumption DEF ScriptCall, Raise, TypeOK
<1>3. f \in After /\ f.ev \in Event /\ ~ToDispatch(f) /\ f \notin Outside
  BY <1>1, Kinds DEF ScriptCall, Suspended, ToDispatch
<1>4. /\ One(f, Within) = 1 /\ One(f, Asking) = 0
      /\ \A e : One(f, Enqueuing(e)) = 0 /\ One(f, Taken(e)) = One(f.ev, {e})
  BY <1>1, <1>3, Counts
<1>5. raises' \in 0 .. MaxRaises
  BY <1>2, ListenerAssumption
<1>6. Number(stack, Outside) \in Nat /\ Number(b, Asking) = Number(stack, Outside)
  <2>1. Number(b, Within) = 0
    BY <1>1, <1>4 DEF ScriptCall
  <2>2. \A k \in 1 .. Len(b) : b[k] \notin Within
    BY <2>1, NumberNone
  <2>3. \A k \in 1 .. Len(b) : b[k] \in Asking <=> b[k] \in Outside
    BY <2>2 DEF Within, Asking
  <2>4. Number(b, Asking) = Number(b, Outside)
    BY <2>3 DEF Number
  <2>5. Number(stack, Outside) = Number(b, Outside) + One(f, Outside) /\ Number(b, Outside) \in Nat
    BY <1>1, NumberPut, PlacesFinite DEF ScriptCall
  <2>6. One(f, Outside) = 0
    BY <1>3 DEF One
  <2> QED
    BY <2>4, <2>5, <2>6
<1>7. ScriptOk(<<>>, flag, data, lock, stranded')
  <2>1. Number(<<>>, Within) = 0 /\ Number(<<>>, Asking) = 0
    BY NumberNil
  <2>2. LockOk(<<>>, lock, data)
    BY <2>1 DEF LockOk, Takers
  <2>3. ~flag
    BY <1>1, <1>3, ScriptCallCounts
  <2>4. Len(data) = stranded'
    BY <1>1, <1>2, <1>4, <1>6, <2>3, ScriptCallCounts
  <2>5. stranded' \in Nat
    BY <1>1, <1>2, <1>6, ScriptCallCounts
  <2> QED
    BY <2>1, <2>2, <2>3, <2>4, <2>5, StackEmpty DEF ScriptOk, RequestOk, Flagged, Requests
<1>8. handled' \in Seq(Event)
  BY <1>1, <1>2, <1>3, PutOn DEF ScriptCall
<1>9. ASSUME NEW e \in Event
      PROVE  Number(b, Enqueuing(e)) = 0 \/ e \in dropped'
  <2>1. stack \in Seq(MethodCall)
    BY <1>1, PutOn DEF ScriptCall
  <2>2. Number(stack, Enqueuing(e)) = Number(b, Enqueuing(e))
    BY <1>1, <1>4, NumbersPut DEF ScriptCall
  <2>3. ASSUME NEW k \in 1 .. Len(stack), stack[k] \in Enqueuing(e) PROVE e \in dropped'
    <3>1. stack[k] \in Adding /\ stack[k].ev = e
      BY <2>3 DEF Enqueuing, Adding, Calls
    <3> QED
      BY <1>2, <3>1
  <2>4. ASSUME \A k \in 1 .. Len(stack) : stack[k] \notin Enqueuing(e)
        PROVE  Number(stack, Enqueuing(e)) = 0
    <3>1. {k \in 1 .. Len(stack) : stack[k] \in Enqueuing(e)} = {}
      BY <2>4
    <3> QED
      BY <3>1, FS_EmptySet DEF Number
  <2> QED
    BY <2>2, <2>3, <2>4
<1>10. ASSUME NEW e \in Event
       PROVE  /\ Copied(<<>>, data, handled', e) \in Nat
              /\ Copied(<<>>, data, handled', e) <= Copied(stack, data, handled, e)
              /\ \/ Copied(<<>>, data, handled', e) = Copied(stack, data, handled, e)
                 \/ e \in dropped'
  <2>1. Number(handled', {e}) = Number(handled, {e}) + One(f.ev, {e})
    BY <1>1, <1>2, <1>3, NumberPut DEF ScriptCall
  <2>2. Copied(Append(b, f), data, handled, e) =
          (Number(b, Enqueuing(e)) + One(f, Enqueuing(e))) + Number(data, {e})
            + (Number(b, Taken(e)) + One(f, Taken(e))) + Number(handled, {e})
    BY CopiedPut
  <2>3. Copied(stack, data, handled, e) =
          (Number(b, Enqueuing(e)) + 0) + Number(data, {e})
            + (Number(b, Taken(e)) + One(f.ev, {e})) + Number(handled, {e})
    BY <1>1, <1>4, <2>2 DEF ScriptCall
  <2>4. Copied(<<>>, data, handled', e) = 0 + Number(data, {e}) + 0 + Number(handled', {e})
    BY NumberNil DEF Copied
  <2>5. /\ Number(handled, {e}) \in Nat /\ One(f.ev, {e}) \in Nat /\ Number(data, {e}) \in Nat
        /\ Number(b, Enqueuing(e)) \in Nat
    BY <1>1, PlacesFinite DEF ScriptCall, One
  <2>6. Number(b, Taken(e)) = 0
    <3>1. Number(b, Within) = 0
      BY <1>1, <1>4 DEF ScriptCall
    <3>2. \A k \in 1 .. Len(b) : b[k] \notin Taken(e)
      BY <3>1, NumberNone DEF Within, After, Taken, Calls
    <3>3. {k \in 1 .. Len(b) : b[k] \in Taken(e)} = {}
      BY <3>2
    <3> QED
      BY <3>3, FS_EmptySet DEF Number
  <2> QED
    BY <1>9, <2>1, <2>3, <2>4, <2>5, <2>6
<1>11. TypeOK'
  <2>1. dropped' \subseteq Event
    <3>1. \A k \in 1 .. Len(stack) : stack[k] \in Adding => stack[k].ev \in Event
      BY DEF Adding, Calls
    <3>2. dropped \subseteq Event
      BY DEF IInv, TypeOK
    <3> QED
      BY <1>2, <3>1, <3>2
  <2>2. stranded' \in Nat
    BY <1>1, <1>2, <1>6, ScriptCallCounts
  <2>3. TypeOK
    BY DEF IInv
  <2>4. <<>> \in Seq(MethodCall)
    BY StackEmpty, EmptySeq
  <2> QED
    BY <1>2, <1>5, <1>8, <2>1, <2>2, <2>3, <2>4 DEF TypeOK, ring, listener
<1>12. RingSteps
  <2>1. \A s : Dequeuing(s) = DequeueOf(f, s) /\ Dequeuing(s)' = Idle
    BY <1>1, <1>2, DequeuingTop DEF ScriptCall, Dequeuing
  <2> QED
    BY <1>1, <1>2, <2>1, RingsQuiet DEF DequeueOf
<1> QED
  BY <1>2, <1>7, <1>10, <1>11, <1>12

----------------------------------------------------------------------------
(* The queues' own theorems, for each of the two.                          *)

HttpRing ==
  INSTANCE LocalQueueProofs
    WITH Event <- Event \cup {NULL}, front <- front[HTTP_EVENT], last <- last[HTTP_EVENT],
         list <- list[HTTP_EVENT], prod <- prod[HTTP_EVENT], cons <- Dequeuing(HTTP_EVENT),
         reply <- reply[HTTP_EVENT], out <- out[HTTP_EVENT]
SignalRing ==
  INSTANCE LocalQueueProofs
    WITH Event <- Event \cup {NULL}, front <- front[SIGNAL_EVENT], last <- last[SIGNAL_EVENT],
         list <- list[SIGNAL_EVENT], prod <- prod[SIGNAL_EVENT], cons <- Dequeuing(SIGNAL_EVENT),
         reply <- reply[SIGNAL_EVENT], out <- out[SIGNAL_EVENT]

LEMMA NextInRing == \A i \in 0 .. QueueSize - 1 : next(i) \in 0 .. QueueSize - 1
<1>1. \A i \in 0 .. QueueSize - 1 : HttpRing!next(i) \in 0 .. QueueSize - 1
  BY ListenerAssumption, HttpRing!NextIndex DEF HttpRing!Index
<1> QED
  BY <1>1 DEF next, HttpQueue!next, HttpRing!next

(* The three names of each queue: as one of the two of EventListener, as   *)
(* the subject of the proofs about LocalQueue, as the queue of a source.   *)
LEMMA HttpRingIs ==
  /\ HttpRing!IInv <=> Ring(HTTP_EVENT)!IInv
  /\ HttpRing!Contents = Ring(HTTP_EVENT)!Contents
<1>1. HttpRing!IInv <=> Ring(HTTP_EVENT)!IInv
  BY DEF HttpRing!IInv, HttpRing!TypeOK, HttpRing!QueueInv, HttpRing!Count, HttpRing!Index,
         HttpRing!Doing, Ring!IInv, Ring!TypeOK, Ring!QueueInv, Ring!Count, Ring!Index,
         Ring!Doing
<1>2. HttpRing!Contents = Ring(HTTP_EVENT)!Contents
  BY DEF HttpRing!Contents, HttpRing!Count, HttpRing!SlotAt, Ring!Contents, Ring!Count,
         Ring!SlotAt
<1> QED
  BY <1>1, <1>2

LEMMA HttpRingDoes ==
  /\ HttpRing!EnqueuePublish <=> Ring(HTTP_EVENT)!EnqueuePublish
  /\ HttpRing!DequeueRelease <=> Ring(HTTP_EVENT)!DequeueRelease
  /\ [HttpRing!Next]_(HttpRing!vars) <=> [Ring(HTTP_EVENT)!Next]_(Ring(HTTP_EVENT)!vars)
<1>1. HttpRing!EnqueuePublish <=> Ring(HTTP_EVENT)!EnqueuePublish
  BY DEF HttpRing!EnqueuePublish, HttpRing!DequeueRelease, HttpRing!next, HttpRing!Idle,
         Ring!EnqueuePublish, Ring!DequeueRelease, Ring!next, Ring!Idle
<1>2. HttpRing!DequeueRelease <=> Ring(HTTP_EVENT)!DequeueRelease
  BY DEF HttpRing!EnqueuePublish, HttpRing!DequeueRelease, HttpRing!next, HttpRing!Idle,
         Ring!EnqueuePublish, Ring!DequeueRelease, Ring!next, Ring!Idle
<1>3. [HttpRing!Next]_(HttpRing!vars) <=> [Ring(HTTP_EVENT)!Next]_(Ring(HTTP_EVENT)!vars)
  BY DEF HttpRing!Next, HttpRing!Enqueue, HttpRing!Dequeue, HttpRing!EnqueueTest,
         HttpRing!EnqueueWrite, HttpRing!EnqueuePublish, HttpRing!DequeueTest,
         HttpRing!DequeueRead, HttpRing!DequeueRelease, HttpRing!Full, HttpRing!next,
         HttpRing!Idle, HttpRing!vars, Ring!Next, Ring!Enqueue, Ring!Dequeue, Ring!EnqueueTest,
         Ring!EnqueueWrite, Ring!EnqueuePublish, Ring!DequeueTest, Ring!DequeueRead,
         Ring!DequeueRelease, Ring!Full, Ring!next, Ring!Idle, Ring!vars
<1> QED
  BY <1>1, <1>2, <1>3

LEMMA SignalRingIs ==
  /\ SignalRing!IInv <=> Ring(SIGNAL_EVENT)!IInv
  /\ SignalRing!Contents = Ring(SIGNAL_EVENT)!Contents
<1>1. SignalRing!IInv <=> Ring(SIGNAL_EVENT)!IInv
  BY DEF SignalRing!IInv, SignalRing!TypeOK, SignalRing!QueueInv, SignalRing!Count,
         SignalRing!Index, SignalRing!Doing, Ring!IInv, Ring!TypeOK, Ring!QueueInv, Ring!Count,
         Ring!Index, Ring!Doing
<1>2. SignalRing!Contents = Ring(SIGNAL_EVENT)!Contents
  BY DEF SignalRing!Contents, SignalRing!Count, SignalRing!SlotAt, Ring!Contents, Ring!Count,
         Ring!SlotAt
<1> QED
  BY <1>1, <1>2

LEMMA SignalRingDoes ==
  /\ SignalRing!EnqueuePublish <=> Ring(SIGNAL_EVENT)!EnqueuePublish
  /\ SignalRing!DequeueRelease <=> Ring(SIGNAL_EVENT)!DequeueRelease
  /\ [SignalRing!Next]_(SignalRing!vars) <=> [Ring(SIGNAL_EVENT)!Next]_(Ring(SIGNAL_EVENT)!vars)
<1>1. SignalRing!EnqueuePublish <=> Ring(SIGNAL_EVENT)!EnqueuePublish
  BY DEF SignalRing!EnqueuePublish, SignalRing!DequeueRelease, SignalRing!next, SignalRing!Idle,
         Ring!EnqueuePublish, Ring!DequeueRelease, Ring!next, Ring!Idle
<1>2. SignalRing!DequeueRelease <=> Ring(SIGNAL_EVENT)!DequeueRelease
  BY DEF SignalRing!EnqueuePublish, SignalRing!DequeueRelease, SignalRing!next, SignalRing!Idle,
         Ring!EnqueuePublish, Ring!DequeueRelease, Ring!next, Ring!Idle
<1>3. [SignalRing!Next]_(SignalRing!vars) <=> [Ring(SIGNAL_EVENT)!Next]_(Ring(SIGNAL_EVENT)!vars)
  BY DEF SignalRing!Next, SignalRing!Enqueue, SignalRing!Dequeue, SignalRing!EnqueueTest,
         SignalRing!EnqueueWrite, SignalRing!EnqueuePublish, SignalRing!DequeueTest,
         SignalRing!DequeueRead, SignalRing!DequeueRelease, SignalRing!Full, SignalRing!next,
         SignalRing!Idle, SignalRing!vars, Ring!Next, Ring!Enqueue, Ring!Dequeue,
         Ring!EnqueueTest, Ring!EnqueueWrite, Ring!EnqueuePublish, Ring!DequeueTest,
         Ring!DequeueRead, Ring!DequeueRelease, Ring!Full, Ring!next, Ring!Idle, Ring!vars
<1> QED
  BY <1>1, <1>2, <1>3

LEMMA HttpQueueIs ==
  /\ HttpQueue!IInv <=> Ring(HTTP_EVENT)!IInv
  /\ HttpQueue!Contents = Ring(HTTP_EVENT)!Contents
  /\ [HttpQueue!Next]_(HttpQueue!vars) <=> [Ring(HTTP_EVENT)!Next]_(Ring(HTTP_EVENT)!vars)
<1>1. HttpQueue!IInv <=> Ring(HTTP_EVENT)!IInv
  BY DEF HttpQueue!IInv, HttpQueue!TypeOK, HttpQueue!QueueInv, HttpQueue!Count, HttpQueue!Index,
         HttpQueue!Doing, Ring!IInv, Ring!TypeOK, Ring!QueueInv, Ring!Count, Ring!Index,
         Ring!Doing
<1>2. HttpQueue!Contents = Ring(HTTP_EVENT)!Contents
  BY DEF HttpQueue!Contents, HttpQueue!Count, HttpQueue!SlotAt, Ring!Contents, Ring!Count,
         Ring!SlotAt
<1>3. [HttpQueue!Next]_(HttpQueue!vars) <=> [Ring(HTTP_EVENT)!Next]_(Ring(HTTP_EVENT)!vars)
  BY DEF HttpQueue!Next, HttpQueue!Enqueue, HttpQueue!Dequeue, HttpQueue!EnqueueTest,
         HttpQueue!EnqueueWrite, HttpQueue!EnqueuePublish, HttpQueue!DequeueTest,
         HttpQueue!DequeueRead, HttpQueue!DequeueRelease, HttpQueue!Full, HttpQueue!next,
         HttpQueue!Idle, HttpQueue!vars, Ring!Next, Ring!Enqueue, Ring!Dequeue, Ring!EnqueueTest,
         Ring!EnqueueWrite, Ring!EnqueuePublish, Ring!DequeueTest, Ring!DequeueRead,
         Ring!DequeueRelease, Ring!Full, Ring!next, Ring!Idle, Ring!vars
<1> QED
  BY <1>1, <1>2, <1>3

LEMMA SignalQueueIs ==
  /\ SignalQueue!IInv <=> Ring(SIGNAL_EVENT)!IInv
  /\ SignalQueue!Contents = Ring(SIGNAL_EVENT)!Contents
  /\ [SignalQueue!Next]_(SignalQueue!vars) <=> [Ring(SIGNAL_EVENT)!Next]_(Ring(SIGNAL_EVENT)!vars)
<1>1. SignalQueue!IInv <=> Ring(SIGNAL_EVENT)!IInv
  BY DEF SignalQueue!IInv, SignalQueue!TypeOK, SignalQueue!QueueInv, SignalQueue!Count,
         SignalQueue!Index, SignalQueue!Doing, Ring!IInv, Ring!TypeOK, Ring!QueueInv, Ring!Count,
         Ring!Index, Ring!Doing
<1>2. SignalQueue!Contents = Ring(SIGNAL_EVENT)!Contents
  BY DEF SignalQueue!Contents, SignalQueue!Count, SignalQueue!SlotAt, Ring!Contents, Ring!Count,
         Ring!SlotAt
<1>3. [SignalQueue!Next]_(SignalQueue!vars) <=> [Ring(SIGNAL_EVENT)!Next]_(Ring(SIGNAL_EVENT)!vars)
  BY DEF SignalQueue!Next, SignalQueue!Enqueue, SignalQueue!Dequeue, SignalQueue!EnqueueTest,
         SignalQueue!EnqueueWrite, SignalQueue!EnqueuePublish, SignalQueue!DequeueTest,
         SignalQueue!DequeueRead, SignalQueue!DequeueRelease, SignalQueue!Full, SignalQueue!next,
         SignalQueue!Idle, SignalQueue!vars, Ring!Next, Ring!Enqueue, Ring!Dequeue,
         Ring!EnqueueTest, Ring!EnqueueWrite, Ring!EnqueuePublish, Ring!DequeueTest,
         Ring!DequeueRead, Ring!DequeueRelease, Ring!Full, Ring!next, Ring!Idle, Ring!vars
<1> QED
  BY <1>1, <1>2, <1>3

(* What the proofs about LocalQueue say of each queue.                     *)
RingContents(s) ==
  /\ Ring(s)!Contents \in Seq(Event \cup {NULL})
  /\ Ring(s)!EnqueuePublish => Ring(s)!Contents' = Append(Ring(s)!Contents, prod[s].ev)
  /\ Ring(s)!DequeueRelease =>
       /\ Ring(s)!Contents # <<>> /\ Head(Ring(s)!Contents) = Dequeuing(s).ev
       /\ Ring(s)!Contents' = Tail(Ring(s)!Contents)
  /\ UNCHANGED <<front[s], last[s]>> => Ring(s)!Contents' = Ring(s)!Contents

LEMMA HttpRingStep ==
  ASSUME Ring(HTTP_EVENT)!IInv, [Ring(HTTP_EVENT)!Next]_(Ring(HTTP_EVENT)!vars)
  PROVE  Ring(HTTP_EVENT)!IInv' /\ RingContents(HTTP_EVENT)
<1>1. HttpRing!IInv /\ [HttpRing!Next]_(HttpRing!vars)
  BY HttpRingIs, HttpRingDoes
<1>2. HttpRing!IInv'
  BY <1>1, ListenerAssumption, HttpRing!NextInv
<1>3. /\ HttpRing!IInv' <=> Ring(HTTP_EVENT)!IInv'
      /\ HttpRing!Contents' = Ring(HTTP_EVENT)!Contents'
  <2>1. (/\ HttpRing!IInv <=> Ring(HTTP_EVENT)!IInv
         /\ HttpRing!Contents = Ring(HTTP_EVENT)!Contents)'
    BY HttpRingIs, PTL
  <2> QED
    BY <2>1
<1>4. /\ HttpRing!Contents \in Seq(Event \cup {NULL})
      /\ HttpRing!EnqueuePublish => HttpRing!Contents' = Append(HttpRing!Contents, prod[HTTP_EVENT].ev)
      /\ HttpRing!DequeueRelease =>
           /\ HttpRing!Contents # <<>> /\ Head(HttpRing!Contents) = Dequeuing(HTTP_EVENT).ev
           /\ HttpRing!Contents' = Tail(HttpRing!Contents)
      /\ UNCHANGED <<front[HTTP_EVENT], last[HTTP_EVENT]>> => HttpRing!Contents' = HttpRing!Contents
  <2>1. (Event \cup {NULL}) \cup {NULL} = Event \cup {NULL}
    OBVIOUS
  <2> QED
    BY <1>1, <2>1, ListenerAssumption, HttpRing!ContentsStep
<1> QED
  BY <1>2, <1>3, <1>4, HttpRingIs, HttpRingDoes DEF RingContents

LEMMA SignalRingStep ==
  ASSUME Ring(SIGNAL_EVENT)!IInv, [Ring(SIGNAL_EVENT)!Next]_(Ring(SIGNAL_EVENT)!vars)
  PROVE  Ring(SIGNAL_EVENT)!IInv' /\ RingContents(SIGNAL_EVENT)
<1>1. SignalRing!IInv /\ [SignalRing!Next]_(SignalRing!vars)
  BY SignalRingIs, SignalRingDoes
<1>2. SignalRing!IInv'
  BY <1>1, ListenerAssumption, SignalRing!NextInv
<1>3. /\ SignalRing!IInv' <=> Ring(SIGNAL_EVENT)!IInv'
      /\ SignalRing!Contents' = Ring(SIGNAL_EVENT)!Contents'
  <2>1. (/\ SignalRing!IInv <=> Ring(SIGNAL_EVENT)!IInv
         /\ SignalRing!Contents = Ring(SIGNAL_EVENT)!Contents)'
    BY SignalRingIs, PTL
  <2> QED
    BY <2>1
<1>4. /\ SignalRing!Contents \in Seq(Event \cup {NULL})
      /\ SignalRing!EnqueuePublish => SignalRing!Contents' = Append(SignalRing!Contents, prod[SIGNAL_EVENT].ev)
      /\ SignalRing!DequeueRelease =>
           /\ SignalRing!Contents # <<>> /\ Head(SignalRing!Contents) = Dequeuing(SIGNAL_EVENT).ev
           /\ SignalRing!Contents' = Tail(SignalRing!Contents)
      /\ UNCHANGED <<front[SIGNAL_EVENT], last[SIGNAL_EVENT]>> => SignalRing!Contents' = SignalRing!Contents
  <2>1. (Event \cup {NULL}) \cup {NULL} = Event \cup {NULL}
    OBVIOUS
  <2> QED
    BY <1>1, <2>1, ListenerAssumption, SignalRing!ContentsStep
<1> QED
  BY <1>2, <1>3, <1>4, SignalRingIs, SignalRingDoes DEF RingContents

LEMMA RingStep ==
  ASSUME NEW s \in Source, Ring(s)!IInv, [Ring(s)!Next]_(Ring(s)!vars)
  PROVE  Ring(s)!IInv' /\ RingContents(s)
BY HttpRingStep, SignalRingStep, EventNumbers

----------------------------------------------------------------------------
(* The steps that change what is in the queues.                            *)

(* An event leaves its queue.                                              *)
LEMMA ReleaseStep ==
  ASSUME IInv, DequeueRelease
  PROVE  /\ TypeOK' /\ RingSteps /\ ScriptOk(stack', flag', data', lock', stranded')
         /\ \E s \in Source :
              /\ Ring(s)!DequeueRelease
              /\ \A r \in Source : r # s => UNCHANGED <<front[r], last[r]>>
              /\ \A e \in Event :
                   Copied(stack', data', handled', e)
                     = Copied(stack, data, handled, e) + One(Dequeuing(s).ev, {e})
<1>1. PICK b \in Seq(MethodCall), f \in MethodCall : Inner(b, f, "schedule", "release")
  BY InnerCall DEF DequeueRelease
<1>2. PICK s \in Source : s = f.q
  BY <1>1, Kinds DEF Inner, Suspended
<1>3. /\ stack = Append(b, f) /\ f.fn = "schedule" /\ f.at = "release" /\ TypeOK
      /\ b = Front(stack) /\ f = Last(stack) /\ f.ev \in Event \cup {NULL} /\ stranded \in Nat
      /\ ScriptOk(Append(b, f), flag, data, lock, stranded)
  BY <1>1 DEF Inner, MethodCall, TypeOK
<1>4. /\ last' = [last EXCEPT ![s] = next(@)] /\ out' = [out EXCEPT ![s] = f.ev]
      /\ \/ f.ev = NULL /\ NextQueue(s)
         \/ f.ev # NULL /\ stack' = b \o <<Frame("schedule", "test", s, NULL),
                                          Frame("enqueueEvent", "begin", s, f.ev)>>
      /\ UNCHANGED <<front, list, prod, reply, listener, script>>
  BY <1>2, <1>3 DEF DequeueRelease, EnqueueStart
<1>5. /\ \A e \in Event : Copied(Append(b, f), data, handled, e) \in Nat
      /\ \A e \in Event : Number(data, {e}) \in Nat /\ Number(handled, {e}) \in Nat
      /\ \A e : Number(b, Enqueuing(e)) \in Nat /\ Number(b, Taken(e)) \in Nat
      /\ \A e : One(f, Enqueuing(e)) = 0 /\ One(f, Taken(e)) = 0
  <2>1. data \in Seq(Event) /\ handled \in Seq(Event)
    BY <1>3 DEF TypeOK
  <2>2. \A e : One(f, Enqueuing(e)) = 0 /\ One(f, Taken(e)) = 0
    BY <1>3, ScheduleCountsNothing
  <2>3. /\ \A e \in Event : Number(data, {e}) \in Nat /\ Number(handled, {e}) \in Nat
        /\ \A e : Number(b, Enqueuing(e)) \in Nat /\ Number(b, Taken(e)) \in Nat
    BY <2>1, PlacesFinite
  <2>4. ASSUME NEW e \in Event PROVE Copied(Append(b, f), data, handled, e) \in Nat
    <3>1. Copied(Append(b, f), data, handled, e) =
            (Number(b, Enqueuing(e)) + One(f, Enqueuing(e))) + Number(data, {e})
              + (Number(b, Taken(e)) + One(f, Taken(e))) + Number(handled, {e})
      BY CopiedPut
    <3> QED
      BY <2>2, <2>3, <3>1
  <2> QED
    BY <2>2, <2>3, <2>4
<1>6. /\ stack' \in Seq(MethodCall) /\ ScriptOk(stack', flag, data, lock, stranded)
      /\ \A r : Dequeuing(r)' = Idle
      /\ \A e \in Event :
           Copied(stack', data, handled, e) = Copied(stack, data, handled, e) + One(f.ev, {e})
  <2>1. CASE f.ev = NULL /\ NextQueue(s)
    <3>1. PICK g \in MethodCall :
           /\ stack' = Append(b, g) /\ g.fn = "schedule" /\ g.at \in {"test", "dispatch"}
           /\ g \in Suspended \cup Dispatching
      BY <1>1, <1>2, <2>1, NextQueueOn
    <3>2. Alike(f, g) /\ (ToDispatch(f) => ToDispatch(g))
      BY <1>3, <3>1, Kinds DEF Alike, Within, Asking, ToDispatch
    <3>3. /\ ScriptOk(stack', flag, data, lock, stranded)
          /\ \A e \in Event : Copied(stack', data, handled, e) = Copied(Append(b, f), data, handled, e)
      <4>1. /\ ScriptOk(Append(b, g), flag, data, lock, stranded)
            /\ \A h, e : Copied(Append(b, g), data, h, e) = Copied(Append(b, f), data, h, e)
        BY <1>3, <3>1, <3>2, GoesOn
      <4> QED
        BY <3>1, <4>1
    <3>4. \A r : Dequeuing(r)' = Idle
      BY <3>1, DequeuingTop DEF DequeueOf
    <3>5. \A e \in Event : One(f.ev, {e}) = 0
      BY <2>1, EventNumbers DEF One
    <3>6. stack' \in Seq(MethodCall)
      BY <3>1, PutOn
    <3>7. ASSUME NEW e \in Event
          PROVE  Copied(stack', data, handled, e) = Copied(stack, data, handled, e) + One(f.ev, {e})
      <4>1. Copied(stack, data, handled, e) \in Nat
        BY <1>3, <1>5
      <4>2. Copied(stack', data, handled, e) = Copied(stack, data, handled, e)
        BY <1>3, <3>3
      <4> QED
        BY <3>5, <4>1, <4>2
    <3> QED
      BY <3>3, <3>4, <3>6, <3>7
  <2>2. CASE /\ f.ev # NULL
             /\ stack' = b \o <<Frame("schedule", "test", s, NULL),
                                Frame("enqueueEvent", "begin", s, f.ev)>>
    <3>1. f.ev \in Event
      BY <1>3, <2>2
    <3>2. "test" \in Points /\ "begin" \in Points /\ s \in 0 .. EVENT_TYPE_MAX
      BY Getters DEF Points, Source, EVENT_TYPE_MAX
    <3>3. PICK g \in MethodCall :
            /\ g = Frame("schedule", "test", s, NULL) /\ g.fn = "schedule" /\ g.at = "test"
            /\ g.q = s /\ g.ev = NULL
      BY <3>2, FrameMade
    <3>4. PICK h \in MethodCall :
            /\ h = Frame("enqueueEvent", "begin", s, f.ev) /\ h.fn = "enqueueEvent" /\ h.at = "begin"
            /\ h.ev = f.ev
      BY <3>1, <3>2, FrameMade
    <3>5. PICK c \in Seq(MethodCall) : c = Append(b, g)
      BY PutOn
    <3>6. stack' = Append(c, h)
      BY <2>2, <3>3, <3>4, <3>5, PutTwo
    <3>7. Alike(f, g) /\ (ToDispatch(f) => ToDispatch(g)) /\ g \in Suspended
      BY <1>3, <3>3, Kinds DEF Alike, Within, Asking, ToDispatch, Suspended
    <3>8. /\ ScriptOk(c, flag, data, lock, stranded)
          /\ \A e \in Event : Copied(c, data, handled, e) = Copied(Append(b, f), data, handled, e)
      <4>1. /\ ScriptOk(Append(b, g), flag, data, lock, stranded)
            /\ \A h1, e : Copied(Append(b, g), data, h1, e) = Copied(Append(b, f), data, h1, e)
        BY <1>3, <3>7, GoesOn
      <4> QED
        BY <3>5, <4>1
    <3>9. Beneath(c) /\ c # <<>> /\ Last(c) = g
      BY <3>5, <3>7, <3>8, StackPut, PutOn DEF ScriptOk
    <3>10. /\ h \in Adding /\ h \in Suspended /\ h \notin Taking /\ ToDispatch(h)
      BY <3>1, <3>4, Kinds DEF Suspended, ToDispatch
    <3>11. /\ One(h, Within) = 0 /\ One(h, Asking) = 0
           /\ \A e : One(h, Enqueuing(e)) = One(f.ev, {e}) /\ One(h, Taken(e)) = 0
      BY <3>4, <3>10, Counts
    <3>12. ScriptOk(Append(c, h), flag, data, lock, stranded)
      <4>1. /\ Number(c, Within) \in Nat /\ Number(c, Asking) \in Nat
        BY PlacesFinite
      <4>2. /\ Number(c, Within) + One(h, Within) <= (IF lock THEN 1 ELSE 0) /\ Takers(c, data)
        BY <3>8, <3>11, <4>1 DEF ScriptOk, LockOk
      <4>3. Len(data) = (IF flag THEN 1 ELSE 0) + Number(c, Asking) + One(h, Asking) + stranded
        <5>1. Len(data) = (IF flag THEN 1 ELSE 0) + Number(c, Asking) + stranded
          BY <3>8 DEF ScriptOk, RequestOk, Requests
        <5> QED
          BY <1>3, <3>11, <4>1, <5>1
      <4>4. CalledFrom(c, h)
        BY <3>3, <3>9 DEF CalledFrom
      <4> QED
        BY <1>3, <3>9, <3>10, <4>2, <4>3, <4>4, ScriptPut
    <3>13. ASSUME NEW e \in Event
           PROVE  Copied(Append(c, h), data, handled, e) = Copied(stack, data, handled, e) + One(f.ev, {e})
      <4>1. Copied(Append(c, h), data, handled, e) =
              (Number(c, Enqueuing(e)) + One(h, Enqueuing(e))) + Number(data, {e})
                + (Number(c, Taken(e)) + One(h, Taken(e))) + Number(handled, {e})
        BY CopiedPut
      <4>2. Copied(c, data, handled, e) =
              Number(c, Enqueuing(e)) + Number(data, {e}) + Number(c, Taken(e)) + Number(handled, {e})
        BY DEF Copied
      <4>3. /\ Number(c, Enqueuing(e)) \in Nat /\ Number(c, Taken(e)) \in Nat
            /\ Number(data, {e}) \in Nat /\ Number(handled, {e}) \in Nat /\ One(f.ev, {e}) \in Nat
        BY <1>5, PlacesFinite DEF One
      <4>4. Copied(Append(c, h), data, handled, e) = Copied(c, data, handled, e) + One(f.ev, {e})
        <5>1. One(h, Enqueuing(e)) = One(f.ev, {e}) /\ One(h, Taken(e)) = 0
          BY <3>11
        <5> DEFINE x == One(f.ev, {e})
                   n1 == Number(c, Enqueuing(e))
                   n2 == Number(c, Taken(e))
                   n3 == Number(data, {e})
                   n4 == Number(handled, {e})
        <5>2. /\ n1 \in Nat /\ n2 \in Nat /\ n3 \in Nat /\ n4 \in Nat /\ x \in Nat
              /\ Copied(Append(c, h), data, handled, e) = (n1 + x) + n3 + (n2 + 0) + n4
              /\ Copied(c, data, handled, e) = n1 + n3 + n2 + n4
          BY <4>1, <4>2, <4>3, <5>1
        <5> HIDE DEF x, n1, n2, n3, n4
        <5>3. Copied(Append(c, h), data, handled, e) = Copied(c, data, handled, e) + x
          BY <5>2
        <5> QED
          BY <5>3 DEF x
      <4> QED
        BY <1>3, <3>8, <4>4
    <3>14. \A r : Dequeuing(r)' = Idle
      <4>1. \A r : Dequeuing(r)' = DequeueOf(h, r)
        BY <3>6, DequeuingTop
      <4> QED
        BY <3>4, <4>1 DEF DequeueOf
    <3>15. stack' \in Seq(MethodCall)
      BY <3>6, PutOn
    <3> QED
      BY <3>6, <3>12, <3>13, <3>14, <3>15
  <2> QED
    BY <1>4, <2>1, <2>2
<1>7. TypeOK'
  <2>1. last \in [Source -> 0 .. QueueSize - 1] /\ out \in [Source -> Event \cup {NULL}]
    BY <1>3 DEF TypeOK
  <2>2. last' \in [Source -> 0 .. QueueSize - 1]
    BY <1>4, <2>1, NextInRing
  <2>3. out' \in [Source -> Event \cup {NULL}]
    BY <1>3, <1>4, <2>1
  <2> QED
    BY <1>3, <1>4, <1>6, <2>2, <2>3 DEF TypeOK, listener, script, raised
<1>8. Dequeuing(s) = [at |-> "release", ev |-> f.ev] /\ \A r \in Source : r # s => Dequeuing(r) = Idle
  <2>1. \A r : Dequeuing(r) = DequeueOf(f, r)
    BY <1>3, DequeuingTop
  <2> QED
    BY <1>2, <1>3, <2>1 DEF DequeueOf
<1>9. Ring(s)!DequeueRelease
  <2>1. last'[s] = next(last[s]) /\ out'[s] = f.ev
    BY <1>3, <1>4 DEF TypeOK
  <2>2. Ring(s)!next(last[s]) = next(last[s])
    BY DEF Ring!next, next, HttpQueue!next
  <2>3. Ring(s)!Idle = Idle
    BY DEF Ring!Idle, Idle
  <2> QED
    BY <1>4, <1>6, <1>8, <2>1, <2>2, <2>3 DEF Ring!DequeueRelease
<1>10. ASSUME NEW r \in Source, r # s
       PROVE  UNCHANGED <<front[r], last[r]>> /\ UNCHANGED Ring(r)!vars
  <2>1. last'[r] = last[r] /\ out'[r] = out[r]
    BY <1>3, <1>4, <1>10 DEF TypeOK
  <2> QED
    BY <1>4, <1>6, <1>8, <1>10, <2>1 DEF Ring!vars
<1>11. RingSteps
  BY <1>9, <1>10 DEF RingSteps, Ring!Next, Ring!Dequeue
<1>12. ScriptOk(stack', flag', data', lock', stranded')
  BY <1>4, <1>6 DEF script, raised
<1>13. \A e \in Event :
         Copied(stack', data', handled', e) = Copied(stack, data, handled, e) + One(Dequeuing(s).ev, {e})
  BY <1>4, <1>6, <1>8 DEF script, raised
<1> QED
  BY <1>7, <1>9, <1>10, <1>11, <1>12, <1>13

----------------------------------------------------------------------------
(* The steps of the listener threads.                                      *)

LEMMA ReceiveStep ==
  ASSUME IInv, NEW s \in Source, NEW e \in Event \cup {NULL}, Receive(s, e),
         made' \in 0 .. MaxEvents, malformed' \in 0 .. MaxMalformed
  PROVE  /\ TypeOK' /\ RingSteps /\ UNCHANGED <<front, last, stack, script>>
         /\ \/ UNCHANGED prod /\ refused' = refused \cup ({e} \ {NULL})
            \/ /\ prod[s].at = "idle" /\ prod' = [prod EXCEPT ![s] = [at |-> "write", ev |-> e]]
               /\ UNCHANGED refused
<1>1. TypeOK
  BY DEF IInv
<1>2. /\ prod[s].at = "idle" /\ UNCHANGED <<front, last, list, out, started, stack, script>>
      /\ \/ /\ Full(s) /\ reply' = [reply EXCEPT ![s] = <<e, FALSE>>]
            /\ refused' = refused \cup ({e} \ {NULL}) /\ UNCHANGED prod
         \/ /\ ~Full(s) /\ prod' = [prod EXCEPT ![s] = [at |-> "write", ev |-> e]]
            /\ UNCHANGED <<reply, refused>>
  BY DEF Receive
<1>3. /\ prod \in [Source -> [at : {"idle", "write", "publish"}, ev : Event \cup {NULL}]]
      /\ reply \in [Source -> {<<>>} \cup ((Event \cup {NULL}) \X BOOLEAN)]
      /\ refused \subseteq Event
  BY <1>1 DEF TypeOK
<1>4. TypeOK'
  <2>1. prod' \in [Source -> [at : {"idle", "write", "publish"}, ev : Event \cup {NULL}]]
    <3> DEFINE P == [at : {"idle", "write", "publish"}, ev : Event \cup {NULL}]
               a == [at |-> "write", ev |-> e]
    <3>1. prod \in [Source -> P] /\ (prod' = prod \/ prod' = [prod EXCEPT ![s] = a])
      BY <1>2, <1>3
    <3>2. a \in P
      OBVIOUS
    <3> HIDE DEF P, a
    <3>3. prod' \in [Source -> P]
      BY <3>1, <3>2
    <3> QED
      BY <3>3 DEF P
  <2>2. reply' \in [Source -> {<<>>} \cup ((Event \cup {NULL}) \X BOOLEAN)]
    <3>1. <<e, FALSE>> \in {<<>>} \cup ((Event \cup {NULL}) \X BOOLEAN)
      OBVIOUS
    <3> DEFINE R == {<<>>} \cup ((Event \cup {NULL}) \X BOOLEAN)
               a == <<e, FALSE>>
    <3>2. reply \in [Source -> R] /\ a \in R /\ (reply' = reply \/ reply' = [reply EXCEPT ![s] = a])
      BY <1>2, <1>3, <3>1
    <3> HIDE DEF R, a
    <3>3. reply' \in [Source -> R]
      BY <3>2
    <3> QED
      BY <3>3 DEF R
  <2>3. refused' \subseteq Event
    BY <1>2, <1>3
  <2> QED
    BY <1>1, <1>2, <2>1, <2>2, <2>3 DEF TypeOK, script, raised
<1>5. \A r : Dequeuing(r)' = Dequeuing(r)
  BY <1>2 DEF Dequeuing
<1>6. ASSUME NEW r \in Source, r # s PROVE UNCHANGED Ring(r)!vars
  <2>1. prod'[r] = prod[r] /\ reply'[r] = reply[r]
    BY <1>2, <1>3, <1>6
  <2> QED
    BY <1>2, <1>5, <2>1 DEF Ring!vars
<1>7. Ring(s)!EnqueueTest(e)
  <2>1. Full(s) <=> Ring(s)!Full(front[s], last[s])
    BY DEF Full, Ring!Full, Ring!next, next, HttpQueue!next
  <2>2. Full(s) => reply'[s] = <<e, FALSE>> /\ prod'[s] = prod[s]
    BY <1>2, <1>3
  <2>3. ~Full(s) => prod'[s] = [at |-> "write", ev |-> e] /\ reply'[s] = reply[s]
    BY <1>2, <1>3
  <2> QED
    BY <1>2, <1>5, <2>1, <2>2, <2>3 DEF Ring!EnqueueTest
<1>8. RingSteps
  BY <1>6, <1>7 DEF RingSteps, Ring!Next, Ring!Enqueue
<1> QED
  BY <1>2, <1>4, <1>8

LEMMA WriteStep ==
  ASSUME IInv, NEW s \in Source, Write(s)
  PROVE  /\ TypeOK' /\ RingSteps /\ UNCHANGED <<front, last, listener, stack, script>>
         /\ prod[s].at # "idle" /\ prod'[s].at # "idle" /\ prod'[s].ev = prod[s].ev
         /\ \A r \in Source : r # s => prod'[r] = prod[r]
<1>1. /\ TypeOK /\ prod \in [Source -> [at : {"idle", "write", "publish"}, ev : Event \cup {NULL}]]
      /\ front[s] \in 0 .. QueueSize - 1
      /\ list \in [Source -> [0 .. QueueSize - 1 -> Event \cup {NULL}]]
  BY DEF IInv, TypeOK
<1>2. PICK p \in [at : {"idle", "write", "publish"}, ev : Event \cup {NULL}] : p = prod[s]
  BY <1>1
<1>3. /\ prod[s].at = "write" /\ list' = [list EXCEPT ![s][front[s]] = prod[s].ev]
      /\ prod' = [prod EXCEPT ![s] = [at |-> "publish", ev |-> prod[s].ev]]
      /\ UNCHANGED <<front, last, reply, out, listener, stack, script>>
  <2>1. [prod EXCEPT ![s].at = "publish"] = [prod EXCEPT ![s] = [prod[s] EXCEPT !.at = "publish"]]
    BY <1>1
  <2>2. [p EXCEPT !.at = "publish"] = [at |-> "publish", ev |-> p.ev]
    BY <1>2
  <2> QED
    BY <1>2, <2>1, <2>2 DEF Write
<1>4. /\ prod'[s] = [at |-> "publish", ev |-> prod[s].ev]
      /\ list'[s] = [list[s] EXCEPT ![front[s]] = prod[s].ev]
      /\ \A r \in Source : r # s => prod'[r] = prod[r] /\ list'[r] = list[r]
  BY <1>1, <1>3
<1>5. prod[s].ev \in Event \cup {NULL}
  BY <1>2
<1>6. TypeOK'
  <2>1. prod' \in [Source -> [at : {"idle", "write", "publish"}, ev : Event \cup {NULL}]]
    BY <1>1, <1>3, <1>5
  <2>2. list' \in [Source -> [0 .. QueueSize - 1 -> Event \cup {NULL}]]
    BY <1>1, <1>3, <1>5
  <2> QED
    BY <1>1, <1>3, <2>1, <2>2 DEF TypeOK, listener, script, raised
<1>7. \A r : Dequeuing(r)' = Dequeuing(r)
  BY <1>3 DEF Dequeuing
<1>8. ASSUME NEW r \in Source, r # s PROVE UNCHANGED Ring(r)!vars
  BY <1>3, <1>4, <1>7, <1>8 DEF Ring!vars
<1>9. Ring(s)!EnqueueWrite
  <2>1. prod'[s] = [prod[s] EXCEPT !.at = "publish"]
    <3>1. [p EXCEPT !.at = "publish"] = [at |-> "publish", ev |-> p.ev]
      BY <1>2
    <3> QED
      BY <1>2, <1>4, <3>1
  <2> QED
    BY <1>3, <1>4, <1>7, <2>1 DEF Ring!EnqueueWrite
<1>10. RingSteps
  BY <1>8, <1>9 DEF RingSteps, Ring!Next, Ring!Enqueue
<1> QED
  BY <1>3, <1>4, <1>6, <1>10

LEMMA PublishStep ==
  ASSUME IInv, NEW s \in Source, Publish(s)
  PROVE  /\ TypeOK' /\ RingSteps /\ UNCHANGED <<listener, stack, script>>
         /\ prod[s].at # "idle" /\ prod'[s].at = "idle" /\ Ring(s)!EnqueuePublish
         /\ \A r \in Source : r # s => prod'[r] = prod[r] /\ UNCHANGED <<front[r], last[r]>>
<1>1. /\ TypeOK /\ prod \in [Source -> [at : {"idle", "write", "publish"}, ev : Event \cup {NULL}]]
      /\ front \in [Source -> 0 .. QueueSize - 1]
      /\ reply \in [Source -> {<<>>} \cup ((Event \cup {NULL}) \X BOOLEAN)]
  BY DEF IInv, TypeOK
<1>2. /\ prod[s].at = "publish" /\ front' = [front EXCEPT ![s] = next(@)]
      /\ reply' = [reply EXCEPT ![s] = <<prod[s].ev, TRUE>>]
      /\ prod' = [prod EXCEPT ![s] = Idle]
      /\ UNCHANGED <<last, list, out, listener, stack, script>>
  BY DEF Publish
<1>3. prod[s].ev \in Event \cup {NULL} /\ Idle \in [at : {"idle", "write", "publish"}, ev : Event \cup {NULL}]
      /\ Idle.at = "idle"
  BY <1>1 DEF Idle
<1>4. TypeOK'
  <2>1. prod' \in [Source -> [at : {"idle", "write", "publish"}, ev : Event \cup {NULL}]]
    BY <1>1, <1>2, <1>3
  <2>2. front' \in [Source -> 0 .. QueueSize - 1]
    BY <1>1, <1>2, NextInRing
  <2>3. reply' \in [Source -> {<<>>} \cup ((Event \cup {NULL}) \X BOOLEAN)]
    <3> DEFINE R == {<<>>} \cup ((Event \cup {NULL}) \X BOOLEAN)
               a == <<prod[s].ev, TRUE>>
    <3>1. reply \in [Source -> R] /\ reply' = [reply EXCEPT ![s] = a]
      BY <1>1, <1>2
    <3>2. a \in R
      BY <1>3
    <3> HIDE DEF R, a
    <3>3. reply' \in [Source -> R]
      BY <3>1, <3>2
    <3> QED
      BY <3>3 DEF R
  <2> QED
    BY <1>1, <1>2, <2>1, <2>2, <2>3 DEF TypeOK, listener, script, raised
<1>5. \A r : Dequeuing(r)' = Dequeuing(r)
  BY <1>2 DEF Dequeuing
<1>6. ASSUME NEW r \in Source, r # s
      PROVE  prod'[r] = prod[r] /\ UNCHANGED <<front[r], last[r]>> /\ UNCHANGED Ring(r)!vars
  <2>1. prod'[r] = prod[r] /\ front'[r] = front[r] /\ reply'[r] = reply[r]
    BY <1>1, <1>2, <1>6
  <2> QED
    BY <1>2, <1>5, <2>1 DEF Ring!vars
<1>7. Ring(s)!EnqueuePublish
  <2>1. front'[s] = next(front[s]) /\ reply'[s] = <<prod[s].ev, TRUE>> /\ prod'[s] = Idle
    BY <1>1, <1>2
  <2>2. Ring(s)!next(front[s]) = next(front[s]) /\ Ring(s)!Idle = Idle
    BY DEF Ring!next, next, HttpQueue!next, Ring!Idle, Idle
  <2> QED
    BY <1>2, <1>5, <2>1, <2>2 DEF Ring!EnqueuePublish
<1>8. prod'[s].at = "idle"
  BY <1>1, <1>2, <1>3
<1>9. RingSteps
  BY <1>6, <1>7 DEF RingSteps, Ring!Next, Ring!Enqueue
<1> QED
  BY <1>2, <1>4, <1>6, <1>7, <1>8, <1>9

----------------------------------------------------------------------------
(* The copies of an event, source by source.                               *)

LEMMA RingsAre == RingInv <=> \A s \in Source : Ring(s)!IInv
BY HttpQueueIs, SignalQueueIs, EventNumbers DEF RingInv

LEMMA ContentsAre ==
  \A s \in Source : Ring(s)!IInv =>
    /\ Ring(s)!Contents \in Seq(Event \cup {NULL})
    /\ front[s] = last[s] => Ring(s)!Contents = <<>>
<1>1. Ring(HTTP_EVENT)!IInv =>
        /\ Ring(HTTP_EVENT)!Contents \in Seq(Event \cup {NULL})
        /\ front[HTTP_EVENT] = last[HTTP_EVENT] => Ring(HTTP_EVENT)!Contents = <<>>
  <2>1. HttpRing!IInv =>
          /\ HttpRing!Contents \in Seq(Event \cup {NULL}) /\ Len(HttpRing!Contents) = HttpRing!Count
    BY ListenerAssumption, HttpRing!ContentsType DEF HttpRing!ContentsListed, HttpRing!IInv
  <2>2. front[HTTP_EVENT] = last[HTTP_EVENT] /\ HttpRing!IInv => HttpRing!Count = 0
    BY ListenerAssumption DEF HttpRing!Count, HttpRing!IInv, HttpRing!TypeOK, HttpRing!Index
  <2> QED
    BY <2>1, <2>2, HttpRingIs, EmptySeq
<1>2. Ring(SIGNAL_EVENT)!IInv =>
        /\ Ring(SIGNAL_EVENT)!Contents \in Seq(Event \cup {NULL})
        /\ front[SIGNAL_EVENT] = last[SIGNAL_EVENT] => Ring(SIGNAL_EVENT)!Contents = <<>>
  <2>1. SignalRing!IInv =>
          /\ SignalRing!Contents \in Seq(Event \cup {NULL}) /\ Len(SignalRing!Contents) = SignalRing!Count
    BY ListenerAssumption, SignalRing!ContentsType DEF SignalRing!ContentsListed, SignalRing!IInv
  <2>2. front[SIGNAL_EVENT] = last[SIGNAL_EVENT] /\ SignalRing!IInv => SignalRing!Count = 0
    BY ListenerAssumption DEF SignalRing!Count, SignalRing!IInv, SignalRing!TypeOK, SignalRing!Index
  <2> QED
    BY <2>1, <2>2, SignalRingIs, EmptySeq
<1> QED
  BY <1>1, <1>2, EventNumbers

(* Event e with the listener of source s, and in its queue.                *)
Held(s, e) == IF prod[s].at # "idle" /\ prod[s].ev = e THEN 1 ELSE 0
Queued(s, e) == Held(s, e) + Number(Ring(s)!Contents, {e})

Sum(h, g, r, c) == r + h + g + c

CopiesSummed ==
  \A e \in Event :
    /\ Copies(e) = Sum(Queued(HTTP_EVENT, e), Queued(SIGNAL_EVENT, e), One(e, refused),
                       Copied(stack, data, handled, e))
    /\ \A s \in Source : Queued(s, e) \in Nat /\ Held(s, e) \in Nat
    /\ Copied(stack, data, handled, e) \in Nat

LEMMA CopiesSum == IInv => CopiesSummed
<1> SUFFICES ASSUME IInv, NEW e \in Event
    PROVE  /\ Copies(e) = Sum(Queued(HTTP_EVENT, e), Queued(SIGNAL_EVENT, e), One(e, refused),
                              Copied(stack, data, handled, e))
           /\ \A s \in Source : Queued(s, e) \in Nat /\ Held(s, e) \in Nat
           /\ Copied(stack, data, handled, e) \in Nat
  BY DEF CopiesSummed
<1> DEFINE H == {s \in Source : prod[s].at # "idle" /\ prod[s].ev = e}
           h(s) == prod[s].at # "idle" /\ prod[s].ev = e
<1>1. Cardinality({e} \cap refused) = One(e, refused)
  <2>1. CASE e \in refused
    <3>1. {e} \cap refused = {e}
      BY <2>1
    <3> QED
      BY <2>1, <3>1, FS_Singleton DEF One
  <2>2. CASE e \notin refused
    <3>1. {e} \cap refused = {}
      BY <2>2
    <3> QED
      BY <2>2, <3>1, FS_EmptySet DEF One
  <2> QED
    BY <2>1, <2>2
<1>2. Cardinality(H) = Held(HTTP_EVENT, e) + Held(SIGNAL_EVENT, e)
  <2>1. Cardinality({HTTP_EVENT}) = 1 /\ Cardinality({SIGNAL_EVENT}) = 1 /\ IsFiniteSet({HTTP_EVENT})
    BY FS_Singleton
  <2>2. Cardinality({HTTP_EVENT} \cup {SIGNAL_EVENT}) = 1 + 1
    BY <2>1, FS_AddElement, EventNumbers
  <2>3. /\ Held(HTTP_EVENT, e) = IF h(HTTP_EVENT) THEN 1 ELSE 0
        /\ Held(SIGNAL_EVENT, e) = IF h(SIGNAL_EVENT) THEN 1 ELSE 0
    BY DEF Held
  <2>4. \A s : s \in H <=> (s = HTTP_EVENT \/ s = SIGNAL_EVENT) /\ h(s)
    BY EventNumbers
  <2> HIDE DEF H, h
  <2>5. CASE h(HTTP_EVENT) /\ h(SIGNAL_EVENT)
    <3>1. H = {HTTP_EVENT} \cup {SIGNAL_EVENT}
      BY <2>4, <2>5
    <3>2. Cardinality(H) = 2
      BY ONLY <2>2, <3>1
    <3> QED
      BY ONLY <2>3, <2>5, <3>2
  <2>6. CASE h(HTTP_EVENT) /\ ~h(SIGNAL_EVENT)
    <3>1. H = {HTTP_EVENT}
      BY <2>4, <2>6
    <3>2. Cardinality(H) = 1
      BY ONLY <2>1, <3>1
    <3> QED
      BY ONLY <2>3, <2>6, <3>2
  <2>7. CASE ~h(HTTP_EVENT) /\ h(SIGNAL_EVENT)
    <3>1. H = {SIGNAL_EVENT}
      BY <2>4, <2>7
    <3>2. Cardinality(H) = 1
      BY ONLY <2>1, <3>1
    <3> QED
      BY ONLY <2>3, <2>7, <3>2
  <2>8. CASE ~h(HTTP_EVENT) /\ ~h(SIGNAL_EVENT)
    <3>1. H = {}
      BY <2>4, <2>8
    <3>2. Cardinality(H) = 0
      BY ONLY <3>1, FS_EmptySet
    <3> QED
      BY ONLY <2>3, <2>8, <3>2
  <2> QED
    BY <2>5, <2>6, <2>7, <2>8
<1>3. \A s \in Source : Ring(s)!Contents \in Seq(Event \cup {NULL})
  BY RingsAre, ContentsAre DEF IInv
<1>4. \A s \in Source : Number(Ring(s)!Contents, {e}) \in Nat /\ Held(s, e) \in Nat
  BY <1>3, PlacesFinite DEF Held
<1>5. /\ Number(stack, Enqueuing(e)) \in Nat /\ Number(stack, Taken(e)) \in Nat
      /\ Number(data, {e}) \in Nat /\ Number(handled, {e}) \in Nat
  BY PlacesFinite DEF IInv, TypeOK
<1>6. /\ HttpQueue!Contents = Ring(HTTP_EVENT)!Contents
      /\ SignalQueue!Contents = Ring(SIGNAL_EVENT)!Contents
  BY HttpQueueIs, SignalQueueIs
<1>7. One(e, refused) \in Nat
  BY DEF One
<1>8. Copies(e) =
        (Held(HTTP_EVENT, e) + Held(SIGNAL_EVENT, e)) + One(e, refused)
          + Number(Ring(HTTP_EVENT)!Contents, {e}) + Number(Ring(SIGNAL_EVENT)!Contents, {e})
          + Number(stack, Enqueuing(e)) + Number(data, {e}) + Number(stack, Taken(e)) + Number(handled, {e})
  BY <1>1, <1>2, <1>6 DEF Copies, Enqueuing, Taken
<1> QED
  BY <1>4, <1>5, <1>7, <1>8, EventNumbers DEF Queued, Copied, Sum

LEMMA InitInv == Init => IInv /\ CopiesInv
<1> SUFFICES ASSUME Init PROVE IInv /\ CopiesInv
  OBVIOUS
<1>1. /\ QueueSize \in Nat /\ QueueSize >= 2 /\ MaxRaises \in Nat /\ MaxEvents \in Nat
      /\ MaxMalformed \in Nat /\ 0 \in 0 .. QueueSize - 1
  BY ListenerAssumption
<1>2. TypeOK
  <2>1. /\ front \in [Source -> 0 .. QueueSize - 1] /\ last \in [Source -> 0 .. QueueSize - 1]
        /\ list \in [Source -> [0 .. QueueSize - 1 -> Event \cup {NULL}]]
        /\ out \in [Source -> Event \cup {NULL}]
    BY <1>1 DEF Init
  <2>2. prod \in [Source -> [at : {"idle", "write", "publish"}, ev : Event \cup {NULL}]]
    BY DEF Init, Idle
  <2>3. reply \in [Source -> {<<>>} \cup ((Event \cup {NULL}) \X BOOLEAN)]
    <3>1. <<>> \in {<<>>} \cup ((Event \cup {NULL}) \X BOOLEAN)
      OBVIOUS
    <3> QED
      BY <3>1 DEF Init
  <2>4. stack \in Seq(MethodCall) /\ data \in Seq(Event) /\ handled \in Seq(Event)
    BY EmptySeq DEF Init
  <2>5. started \subseteq Source /\ refused \subseteq Event
    BY DEF Init
  <2>6. /\ made \in 0 .. MaxEvents /\ malformed \in 0 .. MaxMalformed /\ raises \in 0 .. MaxRaises
        /\ dropped \subseteq Event /\ stranded \in Nat
    BY <1>1 DEF Init
  <2>7. flag = FALSE /\ lock = FALSE
    BY DEF Init
  <2> QED
    BY <2>1, <2>2, <2>3, <2>4, <2>5, <2>6, <2>7 DEF TypeOK
<1>3. StackInv /\ LockInv /\ RequestInv
  <2>1. ScriptOk(<<>>, FALSE, <<>>, FALSE, 0)
    BY StackEmpty, NumberNil DEF ScriptOk, LockOk, Takers, RequestOk, Flagged, Requests
  <2> QED
    BY <2>1, ScriptInvariants DEF Init
<1>4. \A s \in Source : Dequeuing(s) = Idle
  BY DEF Init, Dequeuing
<1>5. ASSUME NEW s \in Source PROVE Ring(s)!Init
  BY <1>1, <1>4, <1>5 DEF Init, Ring!Init, Ring!Index, Ring!Idle, Idle
<1>6. \A s \in Source : Ring(s)!IInv
  <2>1. ASSUME NEW s \in Source PROVE Ring(s)!IInv
    <3>1. Ring(s)!Count = 0
      BY <1>1, <1>5 DEF Ring!Init, Ring!Count
    <3> QED
      BY <1>1, <1>5, <3>1 DEF Ring!Init, Ring!IInv, Ring!TypeOK, Ring!QueueInv, Ring!Doing, Ring!Idle,
                              Ring!Index
  <2> QED
    BY <2>1
<1>7. IInv
  BY <1>2, <1>3, <1>6, RingsAre DEF IInv
<1>8. ASSUME NEW e \in Event PROVE e > made /\ Copies(e) = 0
  <2>1. \A s \in Source : Queued(s, e) = 0
    <3>1. \A s \in Source : Ring(s)!Contents = <<>>
      BY <1>6, ContentsAre DEF Init
    <3>2. \A s \in Source : Held(s, e) = 0
      BY DEF Init, Idle, Held
    <3>3. Number(<<>>, {e}) = 0
      BY NumberNil
    <3> QED
      BY <3>1, <3>2, <3>3 DEF Queued
  <2>2. Copied(stack, data, handled, e) = 0
    <3>1. Number(<<>>, {e}) = 0 /\ Number(<<>>, Enqueuing(e)) = 0 /\ Number(<<>>, Taken(e)) = 0
      BY NumberNil
    <3> QED
      BY <3>1 DEF Copied, Init
  <2>3. One(e, refused) = 0
    BY DEF One, Init
  <2>4. Copies(e) = Sum(0, 0, 0, 0)
    BY <1>7, <2>1, <2>2, <2>3, CopiesSum, EventNumbers DEF CopiesSummed
  <2> QED
    BY <1>1, <2>4 DEF Sum, Init, Event
<1> QED
  BY <1>1, <1>7, <1>8 DEF CopiesInv, Init, Event

(* What a step of the program that is not DequeueRelease leaves alone.     *)
LEMMA ProgramLeaves ==
  ASSUME Program, ~DequeueRelease
  PROVE  UNCHANGED <<front, last, prod, listener>> /\ (~Raise => UNCHANGED dropped)
BY DEF Program, ProgramSafePoint, NextGetter, LastGetter, GetterSafePoint, Absorb, DequeueRead,
       Dispatch, EnqueueEvent, Lock, Look, RemoveHead, Call, Raise, Unlock, ring, script, raised

LEMMA ProgramProceeds ==
  ASSUME IInv, Program, ~DequeueRelease, ~Raise
  PROVE  Proceeds
BY ProgramSafePointStep, GetterStep, AbsorbStep, DequeueReadStep, DispatchStep, EnqueueEventStep,
   LockStep, LookStep, RemoveHeadStep, CallStep, UnlockStep DEF Program

LEMMA StartStep ==
  ASSUME IInv, NEW s \in Source, Start(s)
  PROVE  TypeOK' /\ RingSteps /\ UNCHANGED <<ring, made, malformed, refused, stack, script>>
<1>1. UNCHANGED <<ring, made, malformed, refused, stack, script>> /\ started' = started \cup {s}
  BY DEF Start
<1>2. TypeOK'
  BY <1>1 DEF IInv, TypeOK, ring, script, raised
<1>3. RingSteps
  BY <1>1, RingsQuiet DEF Dequeuing
<1> QED
  BY <1>1, <1>2, <1>3

(* An event or a malformed request comes in.                               *)
LEMMA ReceiveIs ==
  ASSUME IInv, (\E s \in Source : ReceiveEvent(s)) \/ ReceiveMalformed
  PROVE  \E s \in Source, e \in Event \cup {NULL} :
           /\ Receive(s, e) /\ made' \in 0 .. MaxEvents /\ malformed' \in 0 .. MaxMalformed
           /\ \/ e = NULL /\ made' = made
              \/ e = made + 1 /\ e \in Event /\ made' = made + 1
<1>1. /\ made \in 0 .. MaxEvents /\ malformed \in 0 .. MaxMalformed
      /\ MaxEvents \in Nat /\ MaxMalformed \in Nat
  BY ListenerAssumption DEF IInv, TypeOK
<1>2. ASSUME NEW s \in Source, ReceiveEvent(s)
      PROVE  /\ Receive(s, made + 1) /\ made' = made + 1 /\ made' \in 0 .. MaxEvents
             /\ malformed' \in 0 .. MaxMalformed /\ made + 1 \in Event
  BY <1>1, <1>2 DEF ReceiveEvent, Event
<1>3. ASSUME ReceiveMalformed
      PROVE  /\ Receive(HTTP_EVENT, NULL) /\ made' = made /\ made' \in 0 .. MaxEvents
             /\ malformed' \in 0 .. MaxMalformed
  BY <1>1, <1>3 DEF ReceiveMalformed
<1> QED
  BY <1>2, <1>3, EventNumbers

(* The steps that do not change the calls and what they share.             *)
LEMMA ScriptStays ==
  ASSUME IInv, UNCHANGED <<stack, script>>
  PROVE  /\ ScriptOk(stack', flag', data', lock', stranded')
         /\ \A e \in Event : Copied(stack', data', handled', e) = Copied(stack, data, handled, e)
BY ScriptInvariants DEF IInv, script, raised

LEMMA StepIs ==
  ASSUME IInv, [Next]_vars
  PROVE  TypeOK' /\ RingSteps /\ ScriptOk(stack', flag', data', lock', stranded')
<1>1. CASE Program
  BY <1>1, ProgramProceeds, ReleaseStep, RaiseStep DEF Proceeds, raised
<1>2. ASSUME NEW s \in Source, Start(s) \/ Write(s) \/ Publish(s)
      PROVE  TypeOK' /\ RingSteps /\ UNCHANGED <<stack, script>>
  BY <1>2, StartStep, WriteStep, PublishStep
<1>3. CASE (\E s \in Source : ReceiveEvent(s)) \/ ReceiveMalformed
  BY <1>3, ReceiveIs, ReceiveStep, ScriptStays
<1>4. CASE UNCHANGED vars
  <2>1. TypeOK'
    BY <1>4 DEF IInv, TypeOK, vars, ring, listener, script, raised
  <2>2. RingSteps
    BY <1>4, RingsQuiet DEF vars, Dequeuing
  <2> QED
    BY <1>4, <2>1, <2>2, ScriptStays DEF vars
<1> QED
  BY <1>1, <1>2, <1>3, <1>4, ScriptStays DEF Next, Listener

LEMMA StepKeeps ==
  ASSUME IInv, [Next]_vars
  PROVE  IInv' /\ \A s \in Source : RingContents(s)
<1>1. TypeOK' /\ RingSteps /\ ScriptOk(stack', flag', data', lock', stranded')
  BY StepIs
<1>2. (StackInv /\ LockInv /\ RequestInv)'
  <2>1. (StackInv /\ LockInv /\ RequestInv <=> ScriptOk(stack, flag, data, lock, stranded))'
    BY ScriptInvariants, PTL
  <2> QED
    BY <1>1, <2>1
<1>3. \A s \in Source : Ring(s)!IInv' /\ RingContents(s)
  <2>1. \A s \in Source : Ring(s)!IInv
    BY RingsAre DEF IInv
  <2> QED
    BY <1>1, <2>1, RingStep DEF RingSteps
<1>4. RingInv'
  <2>1. (RingInv <=> \A s \in Source : Ring(s)!IInv)'
    BY RingsAre, PTL
  <2> QED
    BY <1>3, <2>1
<1> QED
  BY <1>1, <1>2, <1>3, <1>4 DEF IInv

----------------------------------------------------------------------------
(* The copies of an event, step by step.                                   *)

StaysDropped(e) == e \in dropped => e \in dropped'

LEMMA CopiesChange ==
  ASSUME IInv, IInv', NEW s \in Source, NEW e \in Event,
         \A r \in Source : r # s => Queued(r, e)' = Queued(r, e)
  PROVE  /\ Copies(e)' - Copies(e) =
              (One(e, refused') - One(e, refused)) + (Queued(s, e)' - Queued(s, e))
                + (Copied(stack', data', handled', e) - Copied(stack, data, handled, e))
         /\ Copies(e) \in Nat /\ Copies(e)' \in Nat
<1>1. /\ Copies(e) = Sum(Queued(HTTP_EVENT, e), Queued(SIGNAL_EVENT, e), One(e, refused),
                         Copied(stack, data, handled, e))
      /\ \A r \in Source : Queued(r, e) \in Nat
      /\ Copied(stack, data, handled, e) \in Nat
  BY CopiesSum DEF CopiesSummed
<1>2. /\ Copies(e)' = Sum(Queued(HTTP_EVENT, e)', Queued(SIGNAL_EVENT, e)', One(e, refused'),
                          Copied(stack', data', handled', e))
      /\ \A r \in Source : Queued(r, e)' \in Nat
      /\ Copied(stack', data', handled', e) \in Nat
  <2>1. (IInv => CopiesSummed)'
    BY CopiesSum, PTL
  <2> QED
    BY <2>1 DEF CopiesSummed
<1>3. One(e, refused) \in Nat /\ One(e, refused') \in Nat
  BY DEF One
<1>4. \/ s = HTTP_EVENT /\ Queued(SIGNAL_EVENT, e)' = Queued(SIGNAL_EVENT, e)
      \/ s = SIGNAL_EVENT /\ Queued(HTTP_EVENT, e)' = Queued(HTTP_EVENT, e)
  BY EventNumbers
<1> DEFINE h == Queued(HTTP_EVENT, e)
           g == Queued(SIGNAL_EVENT, e)
           hh == Queued(HTTP_EVENT, e)'
           gg == Queued(SIGNAL_EVENT, e)'
           q == Queued(s, e)
           qq == Queued(s, e)'
           r == One(e, refused)
           rr == One(e, refused')
           c == Copied(stack, data, handled, e)
           cc == Copied(stack', data', handled', e)
           n == Copies(e)
           nn == Copies(e)'
<1>5. /\ h \in Nat /\ g \in Nat /\ hh \in Nat /\ gg \in Nat /\ r \in Nat /\ rr \in Nat
      /\ c \in Nat /\ cc \in Nat /\ n = r + h + g + c /\ nn = rr + hh + gg + cc
      /\ (q = h /\ qq = hh /\ gg = g) \/ (q = g /\ qq = gg /\ hh = h)
  BY <1>1, <1>2, <1>3, <1>4, EventNumbers DEF Sum
<1> HIDE DEF h, g, hh, gg, q, qq, r, rr, c, cc, n, nn
<1>6. nn - n = (rr - r) + (qq - q) + (cc - c) /\ n \in Nat /\ nn \in Nat
  BY <1>5
<1> QED
  BY <1>6 DEF q, qq, r, rr, c, cc, n, nn

(* No copy moves.                                                          *)
LEMMA CopiesKept ==
  ASSUME IInv, IInv', NEW e \in Event, \A s \in Source : Queued(s, e)' = Queued(s, e),
         refused' = refused,
         Copied(stack', data', handled', e) = Copied(stack, data, handled, e)
  PROVE  Copies(e)' = Copies(e) /\ Copies(e) \in Nat
<1>1. /\ Copies(e)' - Copies(e) =
           (One(e, refused') - One(e, refused)) + (Queued(HTTP_EVENT, e)' - Queued(HTTP_EVENT, e))
             + (Copied(stack', data', handled', e) - Copied(stack, data, handled, e))
      /\ Copies(e) \in Nat /\ Copies(e)' \in Nat
  BY CopiesChange, EventNumbers
<1>2. /\ Queued(HTTP_EVENT, e) \in Nat /\ Copied(stack, data, handled, e) \in Nat
      /\ One(e, refused) \in Nat /\ Queued(HTTP_EVENT, e)' = Queued(HTTP_EVENT, e)
  BY CopiesSum, EventNumbers DEF One, CopiesSummed
<1> DEFINE q == Queued(HTTP_EVENT, e)
           c == Copied(stack, data, handled, e)
           r == One(e, refused)
           n == Copies(e)
           nn == Copies(e)'
<1>3. /\ q \in Nat /\ c \in Nat /\ r \in Nat /\ n \in Nat /\ nn \in Nat
      /\ nn - n = (r - r) + (q - q) + (c - c)
  BY <1>1, <1>2
<1> HIDE DEF q, c, r, n, nn
<1>4. nn = n
  BY <1>3
<1> QED
  BY <1>3, <1>4 DEF n, nn

LEMMA QueuedSame ==
  ASSUME NEW s \in Source, RingContents(s), UNCHANGED <<front[s], last[s]>>, prod'[s] = prod[s]
  PROVE  \A e \in Event : Queued(s, e)' = Queued(s, e)
BY DEF RingContents, Queued, Held

(* An event goes from its queue to a call of enqueueEvent.                 *)
LEMMA ReleaseCopies ==
  ASSUME IInv, [Next]_vars, DequeueRelease, NEW e \in Event
  PROVE  made' = made /\ StaysDropped(e) /\ Copies(e)' = Copies(e)
<1>1. PICK s \in Source :
        /\ Ring(s)!DequeueRelease
        /\ \A r \in Source : r # s => UNCHANGED <<front[r], last[r]>>
        /\ \A x \in Event :
             Copied(stack', data', handled', x)
               = Copied(stack, data, handled, x) + One(Dequeuing(s).ev, {x})
  BY ReleaseStep
<1>2. UNCHANGED <<front, list, prod, reply, listener, script>>
  BY DEF DequeueRelease
<1>3. IInv' /\ \A r \in Source : RingContents(r)
  BY StepKeeps
<1>4. \A r \in Source : r # s => Queued(r, e)' = Queued(r, e)
  BY <1>1, <1>2, <1>3, QueuedSame
<1>5. Queued(s, e) = Queued(s, e)' + One(Dequeuing(s).ev, {e})
  <2>1. /\ Ring(s)!Contents \in Seq(Event \cup {NULL}) /\ Ring(s)!Contents # <<>>
        /\ Head(Ring(s)!Contents) = Dequeuing(s).ev /\ Ring(s)!Contents' = Tail(Ring(s)!Contents)
    BY <1>1, <1>3 DEF RingContents
  <2>2. Number(Ring(s)!Contents, {e}) = One(Dequeuing(s).ev, {e}) + Number(Ring(s)!Contents', {e})
    BY <2>1, NumberTail
  <2>3. Tail(Ring(s)!Contents) \in Seq(Event \cup {NULL})
    BY <2>1, HeadOff
  <2>4. Number(Ring(s)!Contents', {e}) \in Nat
    BY <2>1, <2>3, PlacesFinite
  <2>5. Held(s, e)' = Held(s, e) /\ Held(s, e) \in Nat
    BY <1>2 DEF Held
  <2>6. One(Dequeuing(s).ev, {e}) \in Nat
    BY DEF One
  <2> QED
    BY <2>2, <2>4, <2>5, <2>6 DEF Queued
<1>6. /\ Copies(e)' - Copies(e) =
           (One(e, refused') - One(e, refused)) + (Queued(s, e)' - Queued(s, e))
             + (Copied(stack', data', handled', e) - Copied(stack, data, handled, e))
      /\ Copies(e) \in Nat /\ Copies(e)' \in Nat
  BY <1>3, <1>4, CopiesChange
<1>7. /\ Queued(s, e) \in Nat /\ Copied(stack, data, handled, e) \in Nat
      /\ One(Dequeuing(s).ev, {e}) \in Nat /\ One(e, refused) \in Nat
  BY CopiesSum DEF One, CopiesSummed
<1>8. Queued(s, e)' \in Nat
  <2>1. (IInv => CopiesSummed)'
    BY CopiesSum, PTL
  <2> QED
    BY <1>3, <2>1 DEF CopiesSummed
<1>9. refused' = refused /\ made' = made /\ StaysDropped(e)
  BY <1>2 DEF listener, script, raised, StaysDropped
<1>10. Copied(stack', data', handled', e) = Copied(stack, data, handled, e) + One(Dequeuing(s).ev, {e})
  BY <1>1
<1> DEFINE q == Queued(s, e)
           qq == Queued(s, e)'
           c == Copied(stack, data, handled, e)
           cc == Copied(stack', data', handled', e)
           x == One(Dequeuing(s).ev, {e})
           r == One(e, refused)
           n == Copies(e)
           nn == Copies(e)'
<1>11. /\ q \in Nat /\ qq \in Nat /\ c \in Nat /\ x \in Nat /\ r \in Nat /\ n \in Nat /\ nn \in Nat
       /\ q = qq + x /\ cc = c + x /\ nn - n = (r - r) + (qq - q) + (cc - c)
  BY <1>5, <1>6, <1>7, <1>8, <1>9, <1>10
<1> HIDE DEF q, qq, c, cc, x, r, n, nn
<1>12. nn = n
  BY <1>11
<1> QED
  BY <1>9, <1>12 DEF n, nn

(* What the program's thread does otherwise keeps every copy, except that  *)
(* an exception may lose some.                                             *)
LEMMA ProgramCopies ==
  ASSUME IInv, [Next]_vars, Program, ~DequeueRelease, NEW e \in Event
  PROVE  /\ made' = made
         /\ Copies(e)' \in Nat /\ Copies(e) \in Nat
         /\ \/ StaysDropped(e) /\ Copies(e)' = Copies(e)
            \/ e \in dropped' /\ Copies(e)' <= Copies(e)
<1>1. IInv' /\ \A s \in Source : RingContents(s)
  BY StepKeeps
<1>2. UNCHANGED <<front, last, prod, listener>> /\ (~Raise => UNCHANGED dropped)
  BY ProgramLeaves
<1>3. \A s \in Source : Queued(s, e)' = Queued(s, e)
  BY <1>1, <1>2, QueuedSame
<1>4. /\ Copies(e)' - Copies(e) =
           (One(e, refused') - One(e, refused)) + (Queued(HTTP_EVENT, e)' - Queued(HTTP_EVENT, e))
             + (Copied(stack', data', handled', e) - Copied(stack, data, handled, e))
      /\ Copies(e) \in Nat /\ Copies(e)' \in Nat
  BY <1>1, <1>3, CopiesChange, EventNumbers
<1>5. /\ Queued(HTTP_EVENT, e) \in Nat /\ Copied(stack, data, handled, e) \in Nat
      /\ One(e, refused) \in Nat
  BY CopiesSum, EventNumbers DEF One, CopiesSummed
<1>6. /\ refused' = refused /\ made' = made
      /\ Queued(HTTP_EVENT, e)' = Queued(HTTP_EVENT, e)
  BY <1>2, <1>3, EventNumbers DEF listener
<1>7. \/ StaysDropped(e) /\ Copied(stack', data', handled', e) = Copied(stack, data, handled, e)
      \/ /\ e \in dropped' /\ Copied(stack', data', handled', e) <= Copied(stack, data, handled, e)
         /\ Copied(stack', data', handled', e) \in Nat
  <2>1. CASE Raise
    BY <2>1, RaiseStep DEF StaysDropped
  <2>2. CASE ~Raise
    BY <1>2, <2>2, ProgramProceeds DEF Proceeds, StaysDropped
  <2> QED
    BY <2>1, <2>2
<1> DEFINE q == Queued(HTTP_EVENT, e)
           c == Copied(stack, data, handled, e)
           cc == Copied(stack', data', handled', e)
           r == One(e, refused)
           n == Copies(e)
           nn == Copies(e)'
<1>8. /\ q \in Nat /\ c \in Nat /\ r \in Nat /\ n \in Nat /\ nn \in Nat
      /\ nn - n = (r - r) + (q - q) + (cc - c)
      /\ (StaysDropped(e) /\ cc = c) \/ (e \in dropped' /\ cc <= c /\ cc \in Nat)
  BY <1>4, <1>5, <1>6, <1>7
<1> HIDE DEF q, c, cc, r, n, nn
<1>9. (StaysDropped(e) /\ nn = n) \/ (e \in dropped' /\ nn <= n)
  <2>1. CASE StaysDropped(e) /\ cc = c
    <3>1. nn - n = (r - r) + (q - q) + (c - c)
      BY <1>8, <2>1
    <3>2. nn = n
      BY ONLY <1>8, <3>1
    <3> QED
      BY <2>1, <3>2
  <2>2. CASE e \in dropped' /\ cc <= c /\ cc \in Nat
    <3>1. nn <= n
      BY ONLY <1>8, <2>2
    <3> QED
      BY <2>2, <3>1
  <2> QED
    BY <1>8, <2>1, <2>2
<1> QED
  BY <1>6, <1>8, <1>9 DEF n, nn

(* A listener thread writes an event, or publishes it.                     *)
LEMMA ListenerCopies ==
  ASSUME IInv, [Next]_vars, NEW s \in Source, Write(s) \/ Publish(s), NEW e \in Event
  PROVE  made' = made /\ StaysDropped(e) /\ Copies(e)' = Copies(e)
<1>1. IInv' /\ \A r \in Source : RingContents(r)
  BY StepKeeps
<1>2. UNCHANGED <<listener, stack, script>> /\ prod[s].at # "idle"
  BY WriteStep, PublishStep
<1>3. \A r \in Source : r # s => Queued(r, e)' = Queued(r, e)
  <2>1. \A r \in Source : r # s => prod'[r] = prod[r] /\ UNCHANGED <<front[r], last[r]>>
    BY WriteStep, PublishStep
  <2> QED
    BY <1>1, <2>1, QueuedSame
<1>4. Queued(s, e)' = Queued(s, e)
  <2>1. CASE Write(s)
    <3>1. UNCHANGED <<front[s], last[s]>> /\ prod'[s].at # "idle" /\ prod'[s].ev = prod[s].ev
      BY <2>1, WriteStep
    <3>2. Held(s, e)' = Held(s, e)
      BY <1>2, <3>1 DEF Held
    <3> QED
      BY <1>1, <3>1, <3>2 DEF RingContents, Queued
  <2>2. CASE Publish(s)
    <3>1. prod'[s].at = "idle" /\ Ring(s)!EnqueuePublish
      BY <2>2, PublishStep
    <3>2. /\ Ring(s)!Contents \in Seq(Event \cup {NULL}) /\ prod[s].ev \in Event \cup {NULL}
          /\ Ring(s)!Contents' = Append(Ring(s)!Contents, prod[s].ev)
      BY <1>1, <3>1 DEF RingContents, IInv, TypeOK
    <3>3. Number(Ring(s)!Contents', {e}) = Number(Ring(s)!Contents, {e}) + One(prod[s].ev, {e})
      BY <3>2, NumberPut
    <3>4. Number(Ring(s)!Contents, {e}) \in Nat
      BY <3>2, PlacesFinite
    <3>5. Held(s, e)' = 0 /\ Held(s, e) = One(prod[s].ev, {e}) /\ One(prod[s].ev, {e}) \in Nat
      BY <1>2, <3>1 DEF Held, One
    <3> QED
      BY <3>3, <3>4, <3>5 DEF Queued
  <2> QED
    BY <2>1, <2>2
<1>5. Copied(stack', data', handled', e) = Copied(stack, data, handled, e)
  BY <1>2, ScriptStays
<1>6. refused' = refused /\ made' = made /\ StaysDropped(e)
  BY <1>2 DEF listener, script, raised, StaysDropped
<1> QED
  BY <1>1, <1>3, <1>4, <1>5, <1>6, CopiesKept

(* A listener thread has event x: it is with the listener, or refused.     *)
LEMMA ReceiveCopies ==
  ASSUME IInv, [Next]_vars, NEW s \in Source, NEW x \in Event \cup {NULL}, Receive(s, x),
         made' \in 0 .. MaxEvents, malformed' \in 0 .. MaxMalformed, NEW e \in Event
  PROVE  /\ StaysDropped(e)
         /\ e # x => Copies(e)' = Copies(e)
         /\ e = x /\ Copies(e) = 0 => Copies(e)' = 1
<1>1. IInv' /\ \A r \in Source : RingContents(r)
  BY StepKeeps
<1>2. /\ UNCHANGED <<front, last, stack, script>>
      /\ \/ UNCHANGED prod /\ refused' = refused \cup ({x} \ {NULL})
         \/ /\ prod[s].at = "idle" /\ prod' = [prod EXCEPT ![s] = [at |-> "write", ev |-> x]]
            /\ UNCHANGED refused
  BY ReceiveStep
<1>3. StaysDropped(e) /\ Copied(stack', data', handled', e) = Copied(stack, data, handled, e)
  BY <1>2, ScriptStays DEF script, raised, StaysDropped
<1>4. prod \in [Source -> [at : {"idle", "write", "publish"}, ev : Event \cup {NULL}]]
  BY DEF IInv, TypeOK
<1>5. \A r \in Source : r # s => Queued(r, e)' = Queued(r, e)
  <2>1. \A r \in Source : r # s => prod'[r] = prod[r]
    BY <1>2, <1>4
  <2> QED
    BY <1>1, <1>2, <2>1, QueuedSame
<1>6. /\ Copies(e)' - Copies(e) =
           (One(e, refused') - One(e, refused)) + (Queued(s, e)' - Queued(s, e))
             + (Copied(stack', data', handled', e) - Copied(stack, data, handled, e))
      /\ Copies(e) \in Nat /\ Copies(e)' \in Nat
  BY <1>1, <1>5, CopiesChange
<1>7. /\ Queued(s, e) \in Nat /\ Copied(stack, data, handled, e) \in Nat
      /\ One(e, refused) \in Nat /\ One(e, refused') \in Nat
  BY CopiesSum DEF One, CopiesSummed
<1> DEFINE q == Queued(s, e)
           qq == Queued(s, e)'
           c == Copied(stack, data, handled, e)
           r == One(e, refused)
           rr == One(e, refused')
           n == Copies(e)
           nn == Copies(e)'
<1>8. /\ q \in Nat /\ c \in Nat /\ r \in Nat /\ rr \in Nat /\ n \in Nat /\ nn \in Nat
      /\ nn - n = (rr - r) + (qq - q) + (c - c)
  BY <1>3, <1>6, <1>7
<1>9. \/ qq = q /\ (e # x => rr = r) /\ (e = x => rr = 1)
      \/ rr = r /\ (e # x => qq = q) /\ (e = x => qq = q + 1)
  <2>1. CASE UNCHANGED prod /\ refused' = refused \cup ({x} \ {NULL})
    <3>1. Queued(s, e)' = Queued(s, e)
      BY <1>1, <1>2, <2>1, QueuedSame
    <3>2. /\ e # x => One(e, refused') = One(e, refused)
          /\ e = x => One(e, refused') = 1
      BY <2>1, EventNumbers DEF One
    <3> QED
      BY <3>1, <3>2
  <2>2. CASE /\ prod[s].at = "idle" /\ prod' = [prod EXCEPT ![s] = [at |-> "write", ev |-> x]]
             /\ UNCHANGED refused
    <3>1. prod'[s].at = "write" /\ prod'[s].ev = x /\ prod[s].at = "idle"
      BY <1>4, <2>2
    <3>2. Held(s, e) = 0 /\ (e # x => Held(s, e)' = 0) /\ (e = x => Held(s, e)' = 1)
      BY <3>1 DEF Held
    <3>3. Ring(s)!Contents' = Ring(s)!Contents /\ Number(Ring(s)!Contents, {e}) \in Nat
      BY <1>1, <1>2, PlacesFinite DEF RingContents
    <3>4. (e # x => Queued(s, e)' = Queued(s, e)) /\ (e = x => Queued(s, e)' = Queued(s, e) + 1)
      BY <3>2, <3>3 DEF Queued
    <3> QED
      BY <2>2, <3>4
  <2> QED
    BY <1>2, <2>1, <2>2
<1>10. n = 0 => r = 0
  <2>1. Copies(e) = Sum(Queued(HTTP_EVENT, e), Queued(SIGNAL_EVENT, e), One(e, refused),
                        Copied(stack, data, handled, e))
        /\ Queued(HTTP_EVENT, e) \in Nat /\ Queued(SIGNAL_EVENT, e) \in Nat
    BY CopiesSum, EventNumbers DEF CopiesSummed
  <2> QED
    BY <1>7, <2>1 DEF Sum
<1> HIDE DEF q, qq, c, r, rr, n, nn
<1>11. (e # x => nn = n) /\ (e = x /\ n = 0 => nn = 1)
  BY <1>8, <1>9, <1>10
<1> QED
  BY <1>3, <1>11 DEF n, nn

(* All the steps: what is made and dropped, and the copies of an event.    *)
LEMMA CopiesStep ==
  ASSUME IInv, [Next]_vars, NEW e \in Event
  PROVE  \/ made' = made /\ StaysDropped(e) /\ Copies(e)' = Copies(e)
         \/ /\ made' = made /\ e \in dropped' /\ Copies(e)' <= Copies(e)
            /\ Copies(e)' \in Nat /\ Copies(e) \in Nat
         \/ /\ made' = made + 1 /\ StaysDropped(e)
            /\ e # made + 1 => Copies(e)' = Copies(e)
            /\ e = made + 1 /\ Copies(e) = 0 => Copies(e)' = 1
<1>1. CASE Program
  BY <1>1, ProgramCopies, ReleaseCopies
<1>2. ASSUME NEW s \in Source, Write(s) \/ Publish(s)
      PROVE  made' = made /\ StaysDropped(e) /\ Copies(e)' = Copies(e)
  BY <1>2, ListenerCopies
<1>3. CASE (\E s \in Source : ReceiveEvent(s)) \/ ReceiveMalformed
  <2>1. PICK s \in Source, x \in Event \cup {NULL} :
          /\ Receive(s, x) /\ made' \in 0 .. MaxEvents /\ malformed' \in 0 .. MaxMalformed
          /\ \/ x = NULL /\ made' = made
             \/ x = made + 1 /\ x \in Event /\ made' = made + 1
    BY <1>3, ReceiveIs
  <2>2. /\ StaysDropped(e)
        /\ e # x => Copies(e)' = Copies(e)
        /\ e = x /\ Copies(e) = 0 => Copies(e)' = 1
    BY <2>1, ReceiveCopies
  <2> QED
    BY <2>1, <2>2, EventNumbers
<1>4. ASSUME UNCHANGED <<ring, made, refused, stack, script>>
      PROVE  made' = made /\ StaysDropped(e) /\ Copies(e)' = Copies(e)
  <2>1. IInv' /\ \A s \in Source : RingContents(s)
    BY StepKeeps
  <2>2. UNCHANGED <<front, last, prod, refused, made, dropped, stack, script>>
    BY <1>4 DEF ring, script, raised
  <2>3. \A s \in Source : Queued(s, e)' = Queued(s, e)
    BY <2>1, <2>2, QueuedSame
  <2>4. Copied(stack', data', handled', e) = Copied(stack, data, handled, e)
    BY <2>2, ScriptStays
  <2> QED
    BY <2>1, <2>2, <2>3, <2>4, CopiesKept DEF StaysDropped
<1>5. ASSUME NEW s \in Source, Start(s)
      PROVE  made' = made /\ StaysDropped(e) /\ Copies(e)' = Copies(e)
  BY <1>4, <1>5, StartStep
<1>6. CASE UNCHANGED vars
  BY <1>4, <1>6 DEF vars, listener
<1> QED
  BY <1>1, <1>2, <1>3, <1>5, <1>6 DEF Next, Listener

LEMMA CopiesNext == IInv /\ CopiesInv /\ [Next]_vars => CopiesInv'
<1> SUFFICES ASSUME IInv, CopiesInv, [Next]_vars, NEW e \in Event
             PROVE  /\ e > made' => Copies(e)' = 0
                    /\ e <= made' => Copies(e)' <= 1 /\ (Copies(e)' >= 1 \/ e \in dropped')
  BY DEF CopiesInv
<1>1. made \in Nat /\ made' \in Nat /\ e \in Nat
  <2>1. made \in 0 .. MaxEvents
    BY DEF IInv, TypeOK
  <2>2. TypeOK'
    BY StepIs
  <2>3. made' \in 0 .. MaxEvents
    BY <2>2 DEF TypeOK
  <2> QED
    BY <2>1, <2>3, EventNumbers
<1>2. /\ e > made => Copies(e) = 0
      /\ e <= made => Copies(e) <= 1 /\ (Copies(e) >= 1 \/ e \in dropped)
  BY DEF CopiesInv
<1> DEFINE n == Copies(e)
           nn == Copies(e)'
<1>4. /\ \/ made' = made /\ StaysDropped(e) /\ nn = n
         \/ made' = made /\ e \in dropped' /\ nn <= n /\ nn \in Nat /\ n \in Nat
         \/ /\ made' = made + 1 /\ StaysDropped(e)
            /\ e # made + 1 => nn = n
            /\ e = made + 1 /\ n = 0 => nn = 1
      /\ e > made => n = 0
      /\ e <= made => n <= 1 /\ (n >= 1 \/ e \in dropped)
  BY <1>2, CopiesStep
<1> HIDE DEF n, nn
<1>5. /\ e > made' => nn = 0
      /\ e <= made' => nn <= 1 /\ (nn >= 1 \/ e \in dropped')
  BY <1>1, <1>4 DEF StaysDropped
<1> QED
  BY <1>5 DEF n, nn

----------------------------------------------------------------------------
(* What holds of every execution.                                          *)

LEMMA Invariance == Spec => [](IInv /\ CopiesInv)
<1>1. IInv /\ CopiesInv /\ [Next]_vars => (IInv /\ CopiesInv)'
  BY StepKeeps, CopiesNext
<1> QED
  BY <1>1, InitInv, PTL DEF Spec

(* KscheduleEvent and the script's methods, called from one another, keep  *)
(* their variables in range: the indices in their rings, only pointers to  *)
(* events or NULL in the slots, and on the EventQueue and in the calls of  *)
(* the handlers events only.                                               *)
THEOREM TypeCorrect == Spec => []TypeOK
<1>1. IInv => TypeOK
  BY DEF IInv
<1> QED
  BY <1>1, Invariance, PTL

(* Whatever the nesting of enqueueEvent, KscheduleEvent and invoke, when   *)
(* the program's thread is back in the program and no request is pending,  *)
(* nothing is left on the EventQueue but an event for each call of invoke  *)
(* that an exception cut off before the lock, although invoke takes one    *)
(* event a call and FLAG_EVENT holds one request.                          *)
THEOREM NothingIsLeftBehind == Spec => []NothingLeftBehind
<1>1. IInv => NothingLeftBehind
  <2> SUFFICES ASSUME IInv, stack = <<>>, ~flag PROVE Len(data) = stranded
    BY DEF NothingLeftBehind
  <2>1. Len(data) = 0 + Number(<<>>, Outside \cup Before) + stranded /\ stranded \in Nat
    BY DEF IInv, RequestInv, TypeOK
  <2>2. Number(<<>>, Outside \cup Before) = 0
    BY NumberNil
  <2> QED
    BY <2>1, <2>2
<1> QED
  BY <1>1, Invariance, PTL

(* From the listener thread through the ring, enqueueEvent's calls, the    *)
(* EventQueue and the dispatcher to the handler, no event is in two places *)
(* or handled twice.                                                       *)
THEOREM NoEventRepeated == Spec => []NoEventTwice
<1>1. IInv /\ CopiesInv => NoEventTwice
  <2> SUFFICES ASSUME IInv, CopiesInv, NEW e \in 1 .. made PROVE Copies(e) <= 1
    BY DEF NoEventTwice
  <2>1. made \in 0 .. MaxEvents /\ MaxEvents \in Nat
    BY EventNumbers DEF IInv, TypeOK
  <2>2. e \in Event /\ e <= made
    BY <2>1 DEF Event
  <2> QED
    BY <2>2 DEF CopiesInv
<1> QED
  BY <1>1, Invariance, PTL

(* An event that came in is somewhere on that way, refused or handled; the *)
(* only events an exception loses are those that a call of enqueueEvent    *)
(* has in hand when a handler further in raises it.                        *)
THEOREM NoEventIsLost == Spec => []NoEventLost
<1>1. IInv /\ CopiesInv => NoEventLost
  <2> SUFFICES ASSUME IInv, CopiesInv, NEW e \in 1 .. made
               PROVE  Copies(e) >= 1 \/ e \in dropped
    BY DEF NoEventLost
  <2>1. made \in 0 .. MaxEvents /\ MaxEvents \in Nat
    BY EventNumbers DEF IInv, TypeOK
  <2>2. e \in Event /\ e <= made
    BY <2>1 DEF Event
  <2> QED
    BY <2>2 DEF CopiesInv
<1> QED
  BY <1>1, Invariance, PTL

(* Each source's ring is a LocalQueue with one thread at each end: the     *)
(* listener thread enqueues, and of all the nested calls of KscheduleEvent *)
(* one at a time dequeues.                                                 *)
THEOREM QueuesAreLocal == Spec => QueueSpecs
<1>1. Init => HttpQueue!Init /\ SignalQueue!Init
  <2> SUFFICES ASSUME Init PROVE HttpQueue!Init /\ SignalQueue!Init
    OBVIOUS
  <2>1. /\ Dequeuing(HTTP_EVENT) = Idle /\ Dequeuing(SIGNAL_EVENT) = Idle
        /\ HTTP_EVENT \in Source /\ SIGNAL_EVENT \in Source
    BY EventNumbers DEF Init, Dequeuing
  <2>2. HttpQueue!Init
    BY <2>1 DEF Init, HttpQueue!Init, HttpQueue!Index, HttpQueue!Idle, Idle
  <2>3. SignalQueue!Init
    BY <2>1 DEF Init, SignalQueue!Init, SignalQueue!Index, SignalQueue!Idle, Idle
  <2> QED
    BY <2>2, <2>3
<1>2. IInv /\ [Next]_vars => [HttpQueue!Next]_(HttpQueue!vars) /\ [SignalQueue!Next]_(SignalQueue!vars)
  BY StepIs, HttpQueueIs, SignalQueueIs, EventNumbers DEF RingSteps
<1> QED
  BY <1>1, <1>2, Invariance, PTL DEF Spec, QueueSpecs, HttpQueue!Spec, SignalQueue!Spec
=============================================================================
