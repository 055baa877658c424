------------------------- MODULE PackageLoaderProofs -------------------------
(***************************************************************************)
(* What TLAPS proves of PackageLoader.tla and NameSpace.tla for every set  *)
(* of packages and name spaces, every nesting of imports, loads and tries, *)
(* and any number of statements.                                           *)
(***************************************************************************)
EXTENDS PackageLoader, SequenceTheorems, WellFoundedInduction, TLAPS

Kind  == {"script", "try", "import", "require", "load"}
Steps == {"first", "done", "broken", "export", "kick", "end"}
FrameType == [kind : Kind, ns : NameSpaces, pkg : NameSpaces,
              critical : BOOLEAN, step : Steps, saved : Nat]

(* A frame but for its step.                                               *)
SameCall(f, g) ==
  /\ g.kind = f.kind /\ g.ns = f.ns /\ g.pkg = f.pkg
  /\ g.critical = f.critical /\ g.saved = f.saved

(* A function on the numbers up to n is a sequence.                        *)
LEMMA FunctionIsSeq ==
  ASSUME NEW S, NEW n \in Nat, NEW g \in [1 .. n -> S]
  PROVE  g \in Seq(S) /\ Len(g) = n /\ DOMAIN g = 1 .. n
<1>1. g \in Seq(S)
  BY SeqDef
<1>2. DOMAIN g = 1 .. n
  OBVIOUS
<1>3. Len(g) \in Nat /\ DOMAIN g = 1 .. Len(g)
  BY <1>1, LenProperties
<1>4. Len(g) = n
  BY <1>2, <1>3
<1> QED
  BY <1>1, <1>2, <1>4

LEMMA StackType ==
  ASSUME NEW f \in Seq(FrameType)
  PROVE  /\ Len(f) \in Nat /\ DOMAIN f = 1 .. Len(f)
         /\ f \in [1 .. Len(f) -> FrameType]
         /\ f # <<>> <=> Len(f) > 0
         /\ \A j \in 1 .. Len(f) :
              /\ f[j].kind \in Kind /\ f[j].ns \in NameSpaces /\ f[j].pkg \in NameSpaces
              /\ f[j].saved \in Nat
<1>1. f \in [1 .. Len(f) -> FrameType] /\ Len(f) \in Nat /\ DOMAIN f = 1 .. Len(f)
  BY LenProperties
<1>2. f # <<>> <=> Len(f) > 0
  BY EmptySeq, <1>1
<1> QED
  BY <1>1, <1>2 DEF FrameType

(* The stack after a return, a call, or the next step of the top.          *)
LEMMA PopStack ==
  ASSUME NEW f \in Seq(FrameType), f # <<>>
  PROVE  /\ Front(f) \in Seq(FrameType) /\ Len(Front(f)) = Len(f) - 1
         /\ \A j \in 1 .. Len(f) - 1 : Front(f)[j] = f[j]
<1>1. Len(f) \in Nat /\ Len(f) > 0
  BY StackType
<1>2. /\ SubSeq(f, 1, Len(f) - 1) \in Seq(FrameType)
      /\ Len(SubSeq(f, 1, Len(f) - 1)) = Len(f) - 1
      /\ \A j \in 1 .. Len(f) - 1 : SubSeq(f, 1, Len(f) - 1)[j] = f[j]
  <2> DEFINE n == Len(f) - 1
  <2>1. n \in Int /\ 1 \in Int /\ \A j \in 1 .. n : f[j] \in FrameType
    BY <1>1, StackType
  <2>2. /\ SubSeq(f, 1, n) \in Seq(FrameType)
        /\ Len(SubSeq(f, 1, n)) = IF 1 <= n THEN n - 1 + 1 ELSE 0
        /\ \A j \in 1 .. n - 1 + 1 : SubSeq(f, 1, n)[j] = f[1 + j - 1]
    BY <2>1, SubSeqProperties
  <2>3. n \in Nat /\ (n = 0 \/ 1 <= n) /\ n - 1 + 1 = n
    BY <1>1
  <2>4. \A j \in 1 .. n : 1 + j - 1 = j
    BY <2>1
  <2> HIDE DEF n
  <2>5. Len(SubSeq(f, 1, n)) = n
    BY <2>2, <2>3
  <2>6. \A j \in 1 .. n : SubSeq(f, 1, n)[j] = f[j]
    BY <2>2, <2>3, <2>4
  <2> QED
    BY <2>2, <2>5, <2>6 DEF n
<1> QED
  BY <1>2 DEF Front

LEMMA StepStack ==
  ASSUME NEW f \in Seq(FrameType), f # <<>>, NEW step \in Steps,
         NEW g, g = [f EXCEPT ![Len(f)].step = step]
  PROVE  /\ g \in Seq(FrameType) /\ Len(g) = Len(f)
         /\ \A j \in 1 .. Len(f) : SameCall(f[j], g[j])
<1>1. Len(f) \in Nat /\ Len(f) > 0 /\ f \in [1 .. Len(f) -> FrameType]
  BY StackType
<1>2. [f[Len(f)] EXCEPT !.step = step] \in FrameType
  BY <1>1 DEF FrameType
<1>3. g \in [1 .. Len(f) -> FrameType]
  BY <1>1, <1>2
<1>4. g \in Seq(FrameType) /\ Len(g) = Len(f)
  BY <1>1, <1>3, SeqDef, LenProperties
<1>5. \A j \in 1 .. Len(f) : SameCall(f[j], g[j])
  BY <1>1 DEF SameCall, FrameType
<1> QED
  BY <1>4, <1>5

LEMMA PushStack ==
  ASSUME NEW f \in Seq(FrameType), NEW e \in FrameType
  PROVE  /\ Append(f, e) \in Seq(FrameType) /\ Len(Append(f, e)) = Len(f) + 1
         /\ \A j \in 1 .. Len(f) : Append(f, e)[j] = f[j]
         /\ Append(f, e)[Len(f) + 1] = e
BY AppendProperties

----------------------------------------------------------------------------
(* The stack and the jump buffer.                                          *)

(* A call is for a package, never an import into itself, and only a try    *)
(* saves the jump buffer.                                                  *)
Called(e) ==
  /\ e.kind # "try" => e.saved = 0
  /\ e.kind \in {"import", "require", "load"} => e.pkg \in Package
  /\ e.kind = "import" => e.ns # e.pkg

FramesOK ==
  /\ frames \in Seq(FrameType)
  /\ evaljmpbuf \in Int
  /\ halted \in {"no", "exit", "end", "wild"}
  /\ packageMap \in [Package -> {"none", "loading", "loaded"}]
  /\ stage \in {"options", "script", "shell"}
  /\ \A j \in DOMAIN frames : Called(frames[j])

(* What a try saves is the next one below it, or 0 when there is none.     *)
SavedInnermost ==
  \A j \in Tries :
    /\ frames[j].saved < j
    /\ frames[j].saved = 0 \/ frames[j].saved \in Tries
    /\ \A k \in Tries : k < j => k <= frames[j].saved

JumpInv ==
  /\ evaljmpbuf >= NoBuffer
  /\ SavedInnermost
  /\ JumpBufferInnermost

(* A step that calls or returns, but for the tries: the first m frames     *)
(* stay, those above return, and at most one call, of one of the kinds K,  *)
(* is made.                                                                *)
Others == {"script", "import", "require"}
Plain(m, K) ==
  /\ frames' \in Seq(FrameType)
  /\ m \in 0 .. Len(frames)
  /\ \A j \in m + 1 .. Len(frames) : frames[j].kind # "try"
  /\ \A j \in 1 .. m : SameCall(frames[j], frames'[j])
  /\ \/ Len(frames') = m
     \/ /\ Len(frames') = m + 1
        /\ frames'[m + 1].kind \in K /\ Called(frames'[m + 1])
  /\ UNCHANGED evaljmpbuf

LEMMA OneMore ==
  ASSUME NEW a \in Nat, NEW l \in Nat, l = a \/ l = a + 1
  PROVE  /\ \A j \in 1 .. a : j \in 1 .. l
         /\ \A j \in 1 .. l : j \in 1 .. a \/ (j = a + 1 /\ l = a + 1)
OBVIOUS

LEMMA PlainKeepsJump ==
  ASSUME FramesOK, JumpInv, NEW m, NEW K, Plain(m, K), "try" \notin K
  PROVE  JumpInv'
<1>1. Len(frames) \in Nat /\ DOMAIN frames = 1 .. Len(frames) /\ m \in Nat /\ m <= Len(frames)
  BY StackType DEF FramesOK, Plain
<1>2. /\ DOMAIN frames' = 1 .. Len(frames') /\ Len(frames') \in Nat
      /\ Len(frames') = m \/ Len(frames') = m + 1
  BY LenProperties DEF Plain
<1>3. /\ \A j \in 1 .. m : j \in 1 .. Len(frames')
      /\ \A j \in 1 .. Len(frames') : j \in 1 .. m \/ (j = m + 1 /\ Len(frames') = m + 1)
  <2> DEFINE l == Len(frames')
  <2>1. m \in Nat /\ l \in Nat /\ (l = m \/ l = m + 1)
    BY <1>1, <1>2
  <2> HIDE DEF l
  <2>2. /\ \A j \in 1 .. m : j \in 1 .. l
        /\ \A j \in 1 .. l : j \in 1 .. m \/ (j = m + 1 /\ l = m + 1)
    BY <2>1, OneMore
  <2> QED
    BY <2>2 DEF l
<1>4. Tries' = Tries
  <2>1. ASSUME NEW j \in Tries PROVE j \in Tries'
    <3>1. j \in 1 .. m
      <4>1. j \in 1 .. Len(frames) /\ frames[j].kind = "try"
        BY <1>1 DEF Tries
      <4>2. j \notin m + 1 .. Len(frames)
        BY <4>1 DEF Plain
      <4> QED
        BY <1>1, <4>1, <4>2
    <3>2. j \in DOMAIN frames'
      BY ONLY <1>2, <1>3, <3>1, Zenon
    <3> QED
      BY <3>1, <3>2 DEF Tries, Plain, SameCall
  <2>2. ASSUME NEW j \in Tries' PROVE j \in Tries
    <3>1. j \in 1 .. Len(frames') /\ frames'[j].kind = "try"
      BY <1>2 DEF Tries
    <3>2. j \in 1 .. m
      <4>1. j \in 1 .. m \/ (j = m + 1 /\ Len(frames') = m + 1)
        BY <1>3, <3>1
      <4>2. Len(frames') = m + 1 => frames'[m + 1].kind # "try"
        <5>1. m # m + 1
          BY <1>1
        <5> QED
          BY <5>1 DEF Plain
      <4>3. CASE j = m + 1 /\ Len(frames') = m + 1
        BY <3>1, <4>2, <4>3, Zenon
      <4> QED
        BY <4>1, <4>3, Zenon
    <3>3. j \in 1 .. Len(frames) /\ frames'[j].kind = frames[j].kind
      BY <1>1, <3>2 DEF Plain, SameCall
    <3> QED
      BY <1>1, <3>1, <3>3 DEF Tries
  <2> QED
    BY <2>1, <2>2
<1>5. \A j \in Tries : frames'[j].saved = frames[j].saved
  <2>1. ASSUME NEW j \in Tries PROVE j \in 1 .. m
    <3>1. j \in 1 .. Len(frames) /\ frames[j].kind = "try"
      BY <1>1 DEF Tries
    <3>2. j \notin m + 1 .. Len(frames)
      BY <3>1 DEF Plain
    <3> QED
      BY <1>1, <3>1, <3>2
  <2> QED
    BY <2>1 DEF Plain, SameCall
<1>6. evaljmpbuf' = evaljmpbuf
  BY DEF Plain
<1> QED
  BY <1>4, <1>5, <1>6 DEF JumpInv, SavedInnermost, JumpBufferInnermost, NoBuffer

(* A try begins, ends, or is left by a raise.                              *)
LEMMA TryKeepsJump ==
  ASSUME FramesOK, JumpInv, NEW n \in NameSpaces, Try(n)
  PROVE  JumpInv' /\ frames' \in Seq(FrameType)
<1>1. Len(frames) \in Nat /\ DOMAIN frames = 1 .. Len(frames)
  BY StackType DEF FramesOK
<1> DEFINE saved == IF evaljmpbuf = NoBuffer THEN 0 ELSE evaljmpbuf
           e == [Frame("try", n, n, FALSE) EXCEPT !.saved = saved]
<1>2. saved \in Nat
  BY DEF FramesOK, JumpInv, NoBuffer
<1>3. e \in FrameType /\ e.kind = "try" /\ e.saved = saved
  BY <1>2 DEF Frame, FrameType, Kind, Steps
<1>4. frames' = Append(frames, e) /\ evaljmpbuf' = Len(frames) + 1
  BY DEF Try
<1> HIDE DEF e, saved
<1>5. /\ frames' \in Seq(FrameType) /\ Len(frames') = Len(frames) + 1
      /\ \A j \in 1 .. Len(frames) : frames'[j] = frames[j]
      /\ frames'[Len(frames) + 1] = e
  BY <1>3, <1>4, PushStack DEF FramesOK
<1>6. DOMAIN frames' = 1 .. Len(frames) + 1
  BY <1>5, LenProperties
<1>7. Tries' = Tries \cup {Len(frames) + 1}
  BY <1>1, <1>3, <1>5, <1>6 DEF Tries
<1>8. \A j \in Tries : j \in 1 .. Len(frames) /\ frames'[j].saved = frames[j].saved
  BY <1>1, <1>5 DEF Tries
<1>9. /\ saved < Len(frames) + 1
      /\ saved = 0 \/ saved \in Tries
      /\ \A k \in Tries : k <= saved
  BY <1>1, <1>8 DEF saved, JumpInv, JumpBufferInnermost, NoBuffer, FramesOK
<1>10. SavedInnermost'
  <2>1. ASSUME NEW j \in Tries'
        PROVE  /\ frames'[j].saved < j
               /\ frames'[j].saved = 0 \/ frames'[j].saved \in Tries'
               /\ \A k \in Tries' : k < j => k <= frames'[j].saved
    <3>1. CASE j \in Tries
      <4>1. ~ (Len(frames) + 1 < j)
        BY <1>1, <1>8, <3>1
      <4> QED
        BY <1>7, <1>8, <3>1, <4>1 DEF JumpInv, SavedInnermost
    <3>2. CASE j = Len(frames) + 1
      <4>1. frames'[j].saved = saved
        BY <1>3, <1>5, <3>2
      <4>2. ~ (Len(frames) + 1 < j)
        BY <1>1, <3>2
      <4> QED
        BY <1>7, <1>9, <3>2, <4>1, <4>2
    <3> QED
      BY <1>7, <3>1, <3>2
  <2> QED
    BY <2>1 DEF SavedInnermost
<1>11. JumpBufferInnermost'
  BY <1>1, <1>4, <1>7, <1>8 DEF JumpBufferInnermost
<1>12. evaljmpbuf' >= NoBuffer
  BY <1>1, <1>4 DEF NoBuffer
<1> QED
  BY <1>5, <1>10, <1>11, <1>12 DEF JumpInv, NoBuffer

LEMMA ReturnKeepsJump ==
  ASSUME FramesOK, JumpInv, Return
  PROVE  JumpInv' /\ frames' \in Seq(FrameType)
<1>1. Len(frames) \in Nat /\ DOMAIN frames = 1 .. Len(frames) /\ frames # <<>>
  BY StackType DEF FramesOK, Return, At
<1>2. Len(frames) > 0 /\ frames[Len(frames)].kind = "try"
  BY <1>1, StackType DEF FramesOK, Return, At, Top
<1>3. frames' = Front(frames) /\ evaljmpbuf' = frames[Len(frames)].saved
  BY DEF Return, Pop, Top
<1>4. /\ frames' \in Seq(FrameType) /\ Len(frames') = Len(frames) - 1
      /\ \A j \in 1 .. Len(frames) - 1 : frames'[j] = frames[j]
  BY <1>1, <1>3, PopStack DEF FramesOK
<1>5. DOMAIN frames' = 1 .. Len(frames) - 1
  BY <1>4, LenProperties
<1>6. /\ Len(frames) \in Tries
      /\ \A j \in Tries : j \in 1 .. Len(frames)
      /\ \A j \in Tries : j \in Tries' <=> j < Len(frames)
      /\ Tries' \subseteq Tries
  BY <1>1, <1>2, <1>4, <1>5 DEF Tries
<1>7. \A j \in Tries' : frames'[j].saved = frames[j].saved
  BY <1>4, <1>5 DEF Tries
<1>8. \A j \in Tries : frames[j].saved \in Nat
  BY <1>6, StackType DEF FramesOK
<1>9. SavedInnermost'
  <2>1. ASSUME NEW j \in Tries'
        PROVE  /\ frames'[j].saved < j
               /\ frames'[j].saved = 0 \/ frames'[j].saved \in Tries'
               /\ \A k \in Tries' : k < j => k <= frames'[j].saved
    <3>1. j \in Tries /\ j < Len(frames) /\ frames'[j].saved = frames[j].saved
      BY <1>6, <1>7
    <3>2. /\ frames[j].saved < j
          /\ frames[j].saved = 0 \/ frames[j].saved \in Tries
          /\ \A k \in Tries : k < j => k <= frames[j].saved
      BY <3>1 DEF JumpInv, SavedInnermost
    <3>3. frames[j].saved < Len(frames)
      BY <1>1, <1>6, <1>8, <3>1, <3>2
    <3> QED
      BY <1>6, <3>1, <3>2, <3>3
  <2> QED
    BY <2>1 DEF SavedInnermost
<1>10. /\ evaljmpbuf' < Len(frames) /\ evaljmpbuf' \in Nat
       /\ evaljmpbuf' = 0 \/ evaljmpbuf' \in Tries
       /\ \A k \in Tries : k < Len(frames) => k <= evaljmpbuf'
  BY <1>3, <1>6, <1>8 DEF JumpInv, SavedInnermost
<1>11. JumpBufferInnermost'
  <2>1. CASE Tries' = {}
    <3>1. evaljmpbuf' \notin Tries
      BY <1>6, <1>10, <2>1
    <3> QED
      BY <1>10, <2>1, <3>1 DEF JumpBufferInnermost
  <2>2. CASE Tries' # {}
    <3>1. PICK k \in Tries' : TRUE
      BY <2>2
    <3>2. k \in 1 .. Len(frames) /\ k <= evaljmpbuf'
      BY <1>6, <1>10, <3>1
    <3>3. evaljmpbuf' \in Tries'
      BY <1>1, <1>6, <1>10, <3>2
    <3> QED
      BY <1>6, <1>10, <2>2, <3>3 DEF JumpBufferInnermost
  <2> QED
    BY <2>1, <2>2
<1> QED
  BY <1>4, <1>9, <1>10, <1>11 DEF JumpInv, NoBuffer

LEMMA RaiseKeepsJump ==
  ASSUME FramesOK, JumpInv, Raise
  PROVE  /\ JumpInv' /\ frames' \in Seq(FrameType)
         /\ Len(frames') <= Len(frames)
         /\ \A j \in 1 .. Len(frames') : SameCall(frames[j], frames'[j])
         /\ halted' \in {halted, "exit", "wild"}
<1>1. Len(frames) \in Nat /\ DOMAIN frames = 1 .. Len(frames)
      /\ frames \in [1 .. Len(frames) -> FrameType]
  BY StackType DEF FramesOK
<1>2. CASE evaljmpbuf <= 0
  <2>1. evaljmpbuf = NoBuffer \/ evaljmpbuf = 0
    BY <1>2 DEF FramesOK, JumpInv, NoBuffer
  <2>2. UNCHANGED <<frames, evaljmpbuf>> /\ halted' \in {"exit", "wild"}
    BY <2>1 DEF Raise
  <2>3. JumpInv'
    BY <2>2 DEF JumpInv, SavedInnermost, JumpBufferInnermost, Tries, NoBuffer
  <2> QED
    BY <1>1, <2>2, <2>3 DEF FramesOK, SameCall
<1>3. CASE evaljmpbuf > 0
  <2> DEFINE b == evaljmpbuf
             g == [j \in 1 .. b - 1 |->
                     IF j = b - 1 THEN [frames[j] EXCEPT !.step = "broken"] ELSE frames[j]]
  <2>1. b \in Int /\ b > 0 /\ b # NoBuffer /\ b # 0
    BY <1>3 DEF FramesOK, NoBuffer
  <2>2. frames' = g /\ evaljmpbuf' = frames[b].saved /\ halted' = halted
    BY <2>1 DEF Raise, Restored
  <2>3. b \in Tries /\ \A j \in Tries : j <= b
    BY <2>1 DEF JumpInv, JumpBufferInnermost
  <2>4. b \in 1 .. Len(frames) /\ b - 1 \in Nat
    BY <1>1, <2>3 DEF Tries
  <2>5. \A j \in 1 .. b - 1 : [frames[j] EXCEPT !.step = "broken"] \in FrameType
    BY <1>1, <2>4 DEF FrameType, Steps
  <2>6. g \in [1 .. b - 1 -> FrameType]
    BY <1>1, <2>4, <2>5
  <2>7. g \in Seq(FrameType) /\ Len(g) = b - 1 /\ DOMAIN g = 1 .. b - 1
    BY ONLY <2>4, <2>6, FunctionIsSeq
  <2>8. \A j \in 1 .. b - 1 : SameCall(frames[j], g[j])
    BY <1>1, <2>4 DEF SameCall, FrameType
  <2> HIDE DEF g, b
  <2>9. /\ \A j \in Tries : j \in 1 .. Len(frames)
        /\ \A j \in Tries : j \in Tries' <=> j < b
        /\ Tries' \subseteq Tries
    <3>1. ASSUME NEW j \in Tries'
          PROVE  j \in 1 .. b - 1 /\ j \in Tries /\ j < b
      <4>1. j \in 1 .. b - 1 /\ frames'[j].kind = "try"
        BY <2>2, <2>7 DEF Tries
      <4> QED
        BY <1>1, <2>2, <2>4, <2>8, <4>1 DEF Tries, SameCall
    <3>2. ASSUME NEW j \in Tries, j < b PROVE j \in Tries'
      <4>1. j \in 1 .. b - 1 /\ frames[j].kind = "try"
        BY <1>1, <2>4, <3>2 DEF Tries
      <4> QED
        BY <2>2, <2>7, <2>8, <4>1 DEF Tries, SameCall
    <3> QED
      BY <1>1, <3>1, <3>2 DEF Tries
  <2>10. \A j \in Tries' : frames'[j].saved = frames[j].saved
    BY <2>2, <2>7, <2>8 DEF Tries, SameCall
  <2>11. \A j \in Tries : frames[j].saved \in Nat
    BY <2>9, StackType DEF FramesOK
  <2>12. SavedInnermost'
    <3>1. ASSUME NEW j \in Tries'
          PROVE  /\ frames'[j].saved < j
                 /\ frames'[j].saved = 0 \/ frames'[j].saved \in Tries'
                 /\ \A k \in Tries' : k < j => k <= frames'[j].saved
      <4>1. j \in Tries /\ j < b /\ frames'[j].saved = frames[j].saved
        BY <2>9, <2>10
      <4>2. /\ frames[j].saved < j
            /\ frames[j].saved = 0 \/ frames[j].saved \in Tries
            /\ \A k \in Tries : k < j => k <= frames[j].saved
        BY <4>1 DEF JumpInv, SavedInnermost
      <4>3. frames[j].saved < b
        BY <1>1, <2>4, <2>9, <2>11, <4>1, <4>2
      <4> QED
        BY <2>9, <4>1, <4>2, <4>3
    <3> QED
      BY <3>1 DEF SavedInnermost
  <2>13. /\ evaljmpbuf' < b /\ evaljmpbuf' \in Nat
         /\ evaljmpbuf' = 0 \/ evaljmpbuf' \in Tries
         /\ \A k \in Tries : k < b => k <= evaljmpbuf'
    BY <2>2, <2>3, <2>11 DEF JumpInv, SavedInnermost, b
  <2>14. JumpBufferInnermost'
    <3>1. CASE Tries' = {}
      <4>1. evaljmpbuf' \notin Tries
        BY <2>9, <2>13, <3>1
      <4> QED
        BY <2>13, <3>1, <4>1 DEF JumpBufferInnermost
    <3>2. CASE Tries' # {}
      <4>1. PICK k \in Tries' : TRUE
        BY <3>2
      <4>2. k \in 1 .. Len(frames) /\ k <= evaljmpbuf'
        BY <2>9, <2>13, <4>1
      <4>3. evaljmpbuf' \in Tries'
        BY <1>1, <2>9, <2>13, <4>2
      <4> QED
        BY <2>9, <2>13, <3>2, <4>3 DEF JumpBufferInnermost
    <3> QED
      BY <3>1, <3>2
  <2>15. Len(frames') <= Len(frames)
    BY <1>1, <2>2, <2>4, <2>7
  <2> QED
    BY <2>2, <2>7, <2>8, <2>12, <2>13, <2>14, <2>15 DEF JumpInv, NoBuffer
<1> QED
  BY <1>2, <1>3 DEF FramesOK

(* The steps that are plain: nothing happens to the stack, the top call    *)
(* goes on, it returns, it calls, or it returns into a call.               *)
LEMMA PlainSteps ==
  ASSUME FramesOK, UNCHANGED evaljmpbuf, NEW K
  PROVE  /\ UNCHANGED frames => \E m : Plain(m, K)
         /\ \A step \in Steps :
              frames # <<>> /\ frames' = StepTo(step) => \E m : Plain(m, K)
         /\ frames # <<>> /\ Top.kind # "try" /\ frames' = Pop => \E m : Plain(m, K)
         /\ \A e \in FrameType : e.kind \in K /\ Called(e) =>
              /\ frames' = Append(frames, e) => \E m : Plain(m, K)
              /\ \A step \in Steps :
                   frames # <<>> /\ frames' = Append(StepTo(step), e) => \E m : Plain(m, K)
              /\ frames # <<>> /\ Top.kind # "try" /\ frames' = Append(Pop, e) =>
                   \E m : Plain(m, K)
              /\ frames = <<>> /\ frames' = <<e>> => \E m : Plain(m, K)
<1>1. /\ frames \in Seq(FrameType) /\ Len(frames) \in Nat
      /\ frames # <<>> <=> Len(frames) > 0
      /\ \A j \in Len(frames) + 1 .. Len(frames) : frames[j].kind # "try"
      /\ \A j \in 1 .. Len(frames) : SameCall(frames[j], frames[j])
      /\ Len(frames) \in 0 .. Len(frames)
  BY StackType DEF FramesOK, SameCall
<1>2. ASSUME UNCHANGED frames PROVE Plain(Len(frames), K)
  BY <1>1, <1>2 DEF Plain
<1>3. ASSUME NEW step \in Steps, frames # <<>>
      PROVE  /\ StepTo(step) \in Seq(FrameType) /\ Len(StepTo(step)) = Len(frames)
             /\ \A j \in 1 .. Len(frames) : SameCall(frames[j], StepTo(step)[j])
  BY <1>1, <1>3, StepStack DEF StepTo
<1>4. ASSUME NEW step \in Steps, frames # <<>>, frames' = StepTo(step)
      PROVE  Plain(Len(frames), K)
  BY <1>1, <1>3, <1>4 DEF Plain
<1>5. ASSUME frames # <<>>, Top.kind # "try"
      PROVE  /\ Pop \in Seq(FrameType) /\ Len(Pop) = Len(frames) - 1
             /\ Len(frames) - 1 \in 0 .. Len(frames)
             /\ \A j \in 1 .. Len(frames) - 1 : SameCall(frames[j], Pop[j])
             /\ \A j \in Len(frames) - 1 + 1 .. Len(frames) : frames[j].kind # "try"
  <2>1. /\ Pop \in Seq(FrameType) /\ Len(Pop) = Len(frames) - 1
        /\ \A j \in 1 .. Len(frames) - 1 : Pop[j] = frames[j]
    BY <1>1, <1>5, PopStack DEF Pop
  <2>2. Len(frames) - 1 \in 0 .. Len(frames)
    BY <1>1, <1>5
  <2>3. \A j \in Len(frames) - 1 + 1 .. Len(frames) : j = Len(frames)
    BY <1>1
  <2> QED
    BY <1>5, <2>1, <2>2, <2>3 DEF SameCall, Top
<1>6. ASSUME frames # <<>>, Top.kind # "try", frames' = Pop
      PROVE  Plain(Len(frames) - 1, K)
  BY <1>5, <1>6 DEF Plain
<1>7. ASSUME NEW e \in FrameType, e.kind \in K, Called(e), frames' = Append(frames, e)
      PROVE  Plain(Len(frames), K)
  <2>1. /\ frames' \in Seq(FrameType) /\ Len(frames') = Len(frames) + 1
        /\ \A j \in 1 .. Len(frames) : frames'[j] = frames[j]
        /\ frames'[Len(frames) + 1] = e
    BY <1>1, <1>7, PushStack
  <2> QED
    BY <1>1, <1>7, <2>1 DEF Plain
<1>8. ASSUME NEW e \in FrameType, e.kind \in K, Called(e), NEW step \in Steps,
             frames # <<>>, frames' = Append(StepTo(step), e)
      PROVE  Plain(Len(frames), K)
  <2> DEFINE g == StepTo(step)
  <2>1. /\ g \in Seq(FrameType) /\ Len(g) = Len(frames)
        /\ \A j \in 1 .. Len(frames) : SameCall(frames[j], g[j])
    BY <1>3, <1>8
  <2> HIDE DEF g
  <2>2. /\ Append(g, e) \in Seq(FrameType) /\ Len(Append(g, e)) = Len(frames) + 1
        /\ \A j \in 1 .. Len(frames) : Append(g, e)[j] = g[j]
        /\ Append(g, e)[Len(frames) + 1] = e
    BY <2>1, PushStack
  <2>3. frames' = Append(g, e)
    BY <1>8 DEF g
  <2> QED
    BY <1>1, <1>8, <2>1, <2>2, <2>3 DEF Plain
<1>9. ASSUME NEW e \in FrameType, e.kind \in K, Called(e),
             frames # <<>>, Top.kind # "try", frames' = Append(Pop, e)
      PROVE  Plain(Len(frames) - 1, K)
  <2> DEFINE g == Pop
             n == Len(frames) - 1
  <2>1. /\ g \in Seq(FrameType) /\ Len(g) = n /\ n \in 0 .. Len(frames)
        /\ \A j \in 1 .. n : SameCall(frames[j], g[j])
        /\ \A j \in n + 1 .. Len(frames) : frames[j].kind # "try"
    BY <1>5, <1>9
  <2>2. frames' = Append(g, e)
    BY <1>9 DEF g
  <2> HIDE DEF g, n
  <2>3. /\ Append(g, e) \in Seq(FrameType) /\ Len(Append(g, e)) = n + 1
        /\ \A j \in 1 .. n : Append(g, e)[j] = g[j]
        /\ Append(g, e)[n + 1] = e
    BY <2>1, PushStack
  <2>4. Plain(n, K)
    BY <1>9, <2>1, <2>2, <2>3 DEF Plain
  <2> QED
    BY <2>4 DEF n
<1>10. ASSUME NEW e, frames = <<>>, frames' = <<e>>
       PROVE  frames' = Append(frames, e)
  BY <1>10
<1> QED
  <2>1. UNCHANGED frames => \E m : Plain(m, K)
    BY <1>2
  <2>2. ASSUME NEW step \in Steps, frames # <<>>, frames' = StepTo(step)
        PROVE  \E m : Plain(m, K)
    BY <1>4, <2>2
  <2>3. frames # <<>> /\ Top.kind # "try" /\ frames' = Pop => \E m : Plain(m, K)
    BY <1>6
  <2>4. ASSUME NEW e \in FrameType, e.kind \in K, Called(e)
        PROVE  /\ frames' = Append(frames, e) => \E m : Plain(m, K)
               /\ \A step \in Steps :
                    frames # <<>> /\ frames' = Append(StepTo(step), e) => \E m : Plain(m, K)
               /\ frames # <<>> /\ Top.kind # "try" /\ frames' = Append(Pop, e) =>
                    \E m : Plain(m, K)
               /\ frames = <<>> /\ frames' = <<e>> => \E m : Plain(m, K)
    BY <1>7, <1>8, <1>9, <1>10, <2>4
  <2> QED
    BY <2>1, <2>2, <2>3, <2>4

LEMMA PlainKeepsCalls ==
  ASSUME FramesOK, NEW m, NEW K, Plain(m, K)
  PROVE  /\ \A j \in DOMAIN frames' : Called(frames'[j])
         /\ \A j \in DOMAIN frames' :
              \/ j \in DOMAIN frames /\ SameCall(frames[j], frames'[j])
              \/ frames'[j].kind \in K
<1>1. Len(frames) \in Nat /\ DOMAIN frames = 1 .. Len(frames) /\ m \in Nat /\ m <= Len(frames)
  BY StackType DEF FramesOK, Plain
<1>2. /\ DOMAIN frames' = 1 .. Len(frames') /\ Len(frames') \in Nat
      /\ Len(frames') = m \/ Len(frames') = m + 1
  BY LenProperties DEF Plain
<1>3. \A j \in 1 .. Len(frames') : j \in 1 .. m \/ (j = m + 1 /\ Len(frames') = m + 1)
  <2> DEFINE l == Len(frames')
  <2>1. m \in Nat /\ l \in Nat /\ (l = m \/ l = m + 1)
    BY <1>1, <1>2
  <2> HIDE DEF l
  <2>2. \A j \in 1 .. l : j \in 1 .. m \/ (j = m + 1 /\ l = m + 1)
    BY <2>1, OneMore
  <2> QED
    BY <2>2 DEF l
<1>4. ASSUME Len(frames') = m + 1
      PROVE  frames'[m + 1].kind \in K /\ Called(frames'[m + 1])
  <2>1. m # m + 1
    BY <1>1
  <2> QED
    BY <1>4, <2>1 DEF Plain
<1>5. ASSUME NEW j \in DOMAIN frames'
      PROVE  /\ Called(frames'[j])
             /\ \/ j \in DOMAIN frames /\ SameCall(frames[j], frames'[j])
                \/ frames'[j].kind \in K
  <2>1. CASE j \in 1 .. m
    <3>1. j \in DOMAIN frames
      BY <1>1, <2>1
    <3>2. SameCall(frames[j], frames'[j])
      BY <2>1 DEF Plain
    <3> QED
      BY <3>1, <3>2 DEF FramesOK, SameCall, Called
  <2>2. CASE j = m + 1 /\ Len(frames') = m + 1
    BY <1>4, <2>2
  <2> QED
    BY <1>2, <1>3, <2>1, <2>2
<1> QED
  BY <1>5

LEMMA LoadMade ==
  ASSUME NEW p \in Package
  PROVE  /\ Frame("load", p, p, TRUE) \in FrameType
         /\ Frame("load", p, p, TRUE).kind = "load"
         /\ Frame("load", p, p, TRUE).pkg = p
         /\ Called(Frame("load", p, p, TRUE))
BY LoaderAssumption DEF Frame, FrameType, Kind, Steps, Called

LEMMA ScriptMade ==
  ASSUME NEW n \in NameSpaces, NEW p \in NameSpaces
  PROVE  /\ Frame("script", n, p, FALSE) \in FrameType
         /\ Frame("script", n, p, FALSE).kind \in Others
         /\ Called(Frame("script", n, p, FALSE))
BY DEF Frame, FrameType, Kind, Steps, Called, Others

LEMMA ImportMade ==
  ASSUME NEW kind \in {"import", "require"}, NEW n \in NameSpaces, NEW p \in Package,
         NEW critical \in BOOLEAN, n # p
  PROVE  /\ Frame(kind, n, p, critical) \in FrameType
         /\ Frame(kind, n, p, critical).kind \in Others
         /\ Called(Frame(kind, n, p, critical))
BY LoaderAssumption DEF Frame, FrameType, Kind, Steps, Called, Others

LEMMA TopFrame ==
  ASSUME FramesOK, frames # <<>>
  PROVE  /\ Top.ns \in NameSpaces /\ Top.pkg \in NameSpaces
         /\ Top.kind \in {"import", "require", "load"} => Top.pkg \in Package
         /\ Top.kind = "import" => Top.ns # Top.pkg
<1>1. Len(frames) \in DOMAIN frames /\ Top = frames[Len(frames)]
  BY StackType DEF FramesOK, Top
<1>2. frames[Len(frames)] \in FrameType
  BY <1>1, StackType DEF FramesOK
<1> QED
  BY <1>1, <1>2 DEF FramesOK, Called, FrameType

(* What each action does to the stack: a plain step, a load that begins, a *)
(* try, a return from one, or a raise.                                     *)
ByKind ==
  \/ \E m : Plain(m, Others)
  \/ LoadPackage /\ \E m : Plain(m, {"load"})
  \/ \E n \in NameSpaces : Try(n)
  \/ Return
  \/ Raise

LEMMA ExistingSpaces == Existing \subseteq NameSpaces
BY LoaderAssumption DEF Existing

LEMMA ActionsByKind ==
  ASSUME FramesOK, [Next]_vars
  PROVE  ByKind
<1> USE LoaderAssumption
<1>1. CASE UNCHANGED vars
  BY <1>1, PlainSteps DEF ByKind, vars, loader
<1>2. CASE Parse
  BY <1>2, PlainSteps DEF ByKind, Parse, loader
<1>3. CASE Statement
  BY <1>3, TopFrame DEF ByKind, Statement, At
<1>4. CASE EndScript
  <2>1. frames # <<>> /\ Top.kind # "try" /\ frames' = Pop /\ UNCHANGED evaljmpbuf
    BY <1>4 DEF EndScript, At, loader
  <2> QED
    BY <2>1, PlainSteps DEF ByKind
<1>5. CASE Return
  BY <1>5 DEF ByKind
<1>6. CASE Fail
  BY <1>6 DEF ByKind, Fail
<1>7. CASE Call
  <2>1. frames # <<>> /\ frames' = StepTo("done") /\ UNCHANGED evaljmpbuf
    BY <1>7 DEF Call, At, loader
  <2> QED
    BY <2>1, PlainSteps DEF ByKind, Steps
<1>8. CASE Import
  <2>1. frames # <<>> /\ UNCHANGED evaljmpbuf
    BY <1>8 DEF Import, At, loader
  <2>2. PICK n \in NameSpaces, p \in Package :
          frames' = IF p = n THEN StepTo("done")
                    ELSE Append(StepTo("done"), Frame("import", n, p, FALSE))
    BY <1>8, ExistingSpaces DEF Import
  <2>3. CASE p = n
    BY <2>1, <2>2, <2>3, PlainSteps DEF ByKind, Steps
  <2>4. CASE p # n
    <3> DEFINE e == Frame("import", n, p, FALSE)
    <3>1. e \in FrameType /\ e.kind \in Others /\ Called(e)
      BY <2>1, <2>2, <2>4, ImportMade
    <3>2. frames' = Append(StepTo("done"), e)
      BY <2>2, <2>4
    <3> HIDE DEF e
    <3> QED
      BY <2>1, <3>1, <3>2, PlainSteps DEF ByKind, Steps
  <2> QED
    BY <2>3, <2>4
<1>27. CASE Include
  <2>1. frames # <<>> /\ UNCHANGED evaljmpbuf
    BY <1>27 DEF Include, At, loader
  <2>2. PICK n \in NameSpaces : frames' = Append(StepTo("done"), Frame("script", n, n, FALSE))
    BY <1>27, ExistingSpaces DEF Include
  <2> DEFINE e == Frame("script", n, n, FALSE)
  <2>3. e \in FrameType /\ e.kind \in Others /\ Called(e)
    BY <2>2, ScriptMade
  <2> HIDE DEF e
  <2>4. frames' = Append(StepTo("done"), e)
    BY <2>2 DEF e
  <2> QED
    BY <2>1, <2>3, <2>4, PlainSteps DEF ByKind, Steps
<1>9. CASE LoadPackage
  <2> DEFINE e == Frame("load", Top.pkg, Top.pkg, TRUE)
  <2>1. Top.pkg \in Package
    BY <1>9, TopFrame DEF LoadPackage, Getting, At
  <2>2. e \in FrameType /\ e.kind \in {"load"} /\ Called(e)
    BY <2>1, LoadMade
  <2>3. frames' = Append(frames, e) /\ UNCHANGED evaljmpbuf
    BY <1>9 DEF LoadPackage
  <2> HIDE DEF e
  <2> QED
    BY <1>9, <2>2, <2>3, PlainSteps DEF ByKind
<1>10. CASE NotFound
  BY <1>10 DEF ByKind, NotFound
<1>11. CASE RecursiveImporting
  <2>1. CASE Raise
    BY <2>1 DEF ByKind
  <2>2. CASE frames' = Pop /\ UNCHANGED loader
    <3>1. frames # <<>> /\ Top.kind # "try" /\ UNCHANGED evaljmpbuf
      BY <1>11, <2>2 DEF RecursiveImporting, Getting, At, loader
    <3> QED
      BY <2>2, <3>1, PlainSteps DEF ByKind
  <2> QED
    BY <1>11, <2>1, <2>2 DEF RecursiveImporting
<1>12. CASE Required
  <2>1. frames # <<>> /\ Top.kind # "try" /\ frames' = Pop /\ UNCHANGED evaljmpbuf
    BY <1>12 DEF Required, At, loader
  <2> QED
    BY <2>1, PlainSteps DEF ByKind
<1>13. CASE Imported
  <2>1. frames # <<>> /\ frames' = StepTo("export") /\ UNCHANGED evaljmpbuf
    BY <1>13 DEF Imported, At, loader
  <2> QED
    BY <2>1, PlainSteps DEF ByKind, Steps
<1>14. CASE Export
  <2>1. frames # <<>> /\ frames' = StepTo("kick") /\ UNCHANGED evaljmpbuf
    BY <1>14 DEF Export, At, loader
  <2> QED
    BY <2>1, PlainSteps DEF ByKind, Steps
<1>15. CASE Kick
  <2> DEFINE e == Frame("script", Top.ns, Top.pkg, FALSE)
  <2>1. frames # <<>> /\ Top.kind # "try" /\ UNCHANGED evaljmpbuf
    BY <1>15 DEF Kick, At, loader
  <2>2. e \in FrameType /\ e.kind \in Others /\ Called(e)
    BY <2>1, TopFrame, ScriptMade
  <2>3. frames' = Append(Pop, e) \/ frames' = Pop
    BY <1>15 DEF Kick
  <2> HIDE DEF e
  <2> QED
    BY <2>1, <2>2, <2>3, PlainSteps DEF ByKind
<1>16. CASE Packup
  BY <1>16, PlainSteps DEF ByKind, Packup, loader
<1>17. CASE PackupImport
  <2>1. frames # <<>> /\ UNCHANGED evaljmpbuf /\ Top.pkg \in Package
    BY <1>17, TopFrame DEF PackupImport, At, loader
  <2>2. PICK p \in Package \ {Top.pkg}, kind \in {"import", "require"} :
          frames' = Append(frames, Frame(kind, Top.pkg, p, TRUE))
    BY <1>17 DEF PackupImport
  <2> DEFINE e == Frame(kind, Top.pkg, p, TRUE)
  <2>3. e \in FrameType /\ e.kind \in Others /\ Called(e)
    BY <2>1, <2>2, ImportMade
  <2>4. frames' = Append(frames, e)
    BY <2>2
  <2> HIDE DEF e
  <2> QED
    BY <2>1, <2>3, <2>4, PlainSteps DEF ByKind
<1>18. CASE PackupFail
  BY <1>18 DEF ByKind, PackupFail
<1>19. CASE PackupEnd
  <2> DEFINE e == Frame("script", Top.pkg, Top.pkg, FALSE)
  <2>1. frames # <<>> /\ UNCHANGED evaljmpbuf
    BY <1>19 DEF PackupEnd, At, loader
  <2>2. e \in FrameType /\ e.kind \in Others /\ Called(e)
    BY <2>1, TopFrame, ScriptMade
  <2>3. frames' = Append(StepTo("end"), e) \/ frames' = StepTo("end")
    BY <1>19 DEF PackupEnd
  <2> HIDE DEF e
  <2> QED
    BY <2>1, <2>2, <2>3, PlainSteps DEF ByKind, Steps
<1>20. CASE LoadEnd
  <2>1. frames # <<>> /\ Top.kind # "try" /\ frames' = Pop /\ UNCHANGED evaljmpbuf
    BY <1>20 DEF LoadEnd, At
  <2> QED
    BY <2>1, PlainSteps DEF ByKind
<1>21. CASE OptionDefine
  BY <1>21, PlainSteps DEF ByKind, OptionDefine, loader
<1>22. CASE OptionImport \/ Shell
  <2>1. frames = <<>> /\ UNCHANGED evaljmpbuf
    BY <1>22 DEF OptionImport, Shell, AtBottom, loader
  <2>2. PICK p \in Package : frames' = <<Frame("import", Root, p, FALSE)>>
    BY <1>22 DEF OptionImport, Shell
  <2> DEFINE e == Frame("import", Root, p, FALSE)
  <2>3. e \in FrameType /\ e.kind \in Others /\ Called(e)
    BY <2>2, ImportMade
  <2>4. frames' = <<e>>
    BY <2>2
  <2> HIDE DEF e
  <2> QED
    BY <2>1, <2>3, <2>4, PlainSteps DEF ByKind
<1>23. CASE LoadScript
  <2> DEFINE e == Frame("script", Main, Main, FALSE)
  <2>1. frames = <<>> /\ UNCHANGED evaljmpbuf /\ frames' = <<e>>
    BY <1>23 DEF LoadScript, AtBottom
  <2>2. e \in FrameType /\ e.kind \in Others /\ Called(e)
    BY ScriptMade
  <2> HIDE DEF e
  <2> QED
    BY <2>1, <2>2, PlainSteps DEF ByKind
<1>24. CASE ShellStatement
  BY <1>24 DEF ByKind, ShellStatement
<1>25. CASE End
  BY <1>25, PlainSteps DEF ByKind, End
<1>26. CASE Halted
  BY <1>1, <1>26 DEF Halted
<1> QED
  BY <1>1, <1>2, <1>3, <1>4, <1>5, <1>6, <1>7, <1>8, <1>9, <1>10, <1>11, <1>12, <1>13,
     <1>14, <1>15, <1>16, <1>17, <1>18, <1>19, <1>20, <1>21, <1>22, <1>23, <1>24, <1>25,
     <1>26, <1>27 DEF Next

(* The other variables of the loader.                                      *)
LEMMA LoaderTypes ==
  ASSUME FramesOK, [Next]_vars
  PROVE  /\ halted' \in {"no", "exit", "end", "wild"}
         /\ packageMap' \in [Package -> {"none", "loading", "loaded"}]
         /\ stage' \in {"options", "script", "shell"}
         /\ packageMap' # packageMap => LoadPackage \/ LoadEnd
<1>1. CASE Raise
  BY <1>1 DEF Raise, FramesOK
<1>2. CASE UNCHANGED loader
  BY <1>2 DEF loader, FramesOK
<1>3. CASE Return \/ LoadPackage \/ LoadEnd
  BY <1>3 DEF Return, LoadPackage, LoadEnd, FramesOK
<1>4. CASE LoadScript \/ Shell \/ End
  BY <1>4 DEF LoadScript, Shell, End, FramesOK
<1>5. CASE Statement \/ ShellStatement
  <2>1. \E n : Try(n)
    BY <1>5 DEF Statement, ShellStatement
  <2> QED
    BY <2>1 DEF Try, FramesOK
<1> QED
  BY <1>1, <1>2, <1>3, <1>4, <1>5
  DEF Next, vars, Parse, EndScript, Fail, Call, Import, Include, NotFound, RecursiveImporting, Required,
      Imported, Export, Kick, Packup, PackupImport, PackupFail, PackupEnd, OptionDefine,
      OptionImport, Halted

LEMMA StackInit ==
  ASSUME Init
  PROVE  FramesOK /\ JumpInv
<1>1. frames = <<>> /\ evaljmpbuf = NoBuffer /\ DOMAIN frames = {}
  BY DEF Init
<1>2. Tries = {}
  BY <1>1 DEF Tries
<1> QED
  BY <1>1, <1>2 DEF Init, FramesOK, JumpInv, SavedInnermost, JumpBufferInnermost, NoBuffer

LEMMA StackNext ==
  ASSUME FramesOK, JumpInv, [Next]_vars
  PROVE  FramesOK' /\ JumpInv'
<1>1. ASSUME \A j \in DOMAIN frames' : Called(frames'[j]), frames' \in Seq(FrameType),
             evaljmpbuf' \in Int
      PROVE  FramesOK'
  BY <1>1, LoaderTypes DEF FramesOK
<1>2. ASSUME NEW m, NEW K, Plain(m, K), "try" \notin K
      PROVE  FramesOK' /\ JumpInv'
  <2>1. evaljmpbuf' \in Int /\ frames' \in Seq(FrameType)
    BY <1>2 DEF FramesOK, Plain
  <2> QED
    BY <1>1, <1>2, <2>1, PlainKeepsCalls, PlainKeepsJump
<1>3. ASSUME NEW n \in NameSpaces, Try(n)
      PROVE  FramesOK' /\ JumpInv'
  <2>1. Len(frames) \in Nat
    BY StackType DEF FramesOK
  <2>2. JumpInv' /\ frames' \in Seq(FrameType)
    BY <1>3, TryKeepsJump
  <2>3. evaljmpbuf' \in Int
    BY <1>3, <2>1 DEF Try
  <2> DEFINE saved == IF evaljmpbuf = NoBuffer THEN 0 ELSE evaljmpbuf
             e == [Frame("try", n, n, FALSE) EXCEPT !.saved = saved]
  <2>4. e.kind = "try" /\ e \in FrameType
    <3>1. saved \in Nat
      BY DEF FramesOK, JumpInv, NoBuffer
    <3> QED
      BY <3>1 DEF Frame, FrameType, Kind, Steps
  <2>5. frames' = Append(frames, e)
    BY <1>3 DEF Try
  <2> HIDE DEF e, saved
  <2>6. /\ DOMAIN frames' = 1 .. Len(frames) + 1
        /\ \A j \in 1 .. Len(frames) : frames'[j] = frames[j]
        /\ frames'[Len(frames) + 1] = e
    BY <2>4, <2>5, PushStack, StackType DEF FramesOK
  <2>7. \A j \in DOMAIN frames' : Called(frames'[j])
    BY <2>1, <2>4, <2>6, StackType DEF FramesOK, Called
  <2> QED
    BY <1>1, <2>2, <2>3, <2>7
<1>4. ASSUME Return
      PROVE  FramesOK' /\ JumpInv'
  <2>1. JumpInv' /\ frames' \in Seq(FrameType)
    BY <1>4, ReturnKeepsJump
  <2>2. frames # <<>> /\ frames' = Front(frames) /\ evaljmpbuf' = frames[Len(frames)].saved
    BY <1>4 DEF Return, At, Pop, Top
  <2>3. Len(frames) \in 1 .. Len(frames) /\ evaljmpbuf' \in Int
    BY <2>2, StackType DEF FramesOK
  <2>4. /\ DOMAIN frames' = 1 .. Len(frames) - 1
        /\ \A j \in 1 .. Len(frames) - 1 : frames'[j] = frames[j]
    BY <2>1, <2>2, PopStack, StackType DEF FramesOK
  <2>5. \A j \in DOMAIN frames' : Called(frames'[j])
    BY <2>3, <2>4, StackType DEF FramesOK
  <2> QED
    BY <1>1, <2>1, <2>3, <2>5
<1>5. ASSUME Raise
      PROVE  FramesOK' /\ JumpInv'
  <2>1. /\ JumpInv' /\ frames' \in Seq(FrameType)
        /\ Len(frames') <= Len(frames)
        /\ \A j \in 1 .. Len(frames') : SameCall(frames[j], frames'[j])
    BY <1>5, RaiseKeepsJump
  <2>2. evaljmpbuf' \in Int
    <3>1. CASE evaljmpbuf <= 0
      BY <1>5, <3>1 DEF Raise, FramesOK, JumpInv, NoBuffer
    <3>2. CASE evaljmpbuf > 0
      <4>1. evaljmpbuf # NoBuffer /\ evaljmpbuf # 0
        BY <3>2 DEF FramesOK, NoBuffer
      <4>2. evaljmpbuf \in Tries
        BY <3>2 DEF FramesOK, JumpInv, JumpBufferInnermost
      <4> QED
        BY <1>5, <4>1, <4>2, StackType DEF Raise, Restored, FramesOK, Tries
    <3> QED
      BY <3>1, <3>2 DEF FramesOK
  <2>3. \A j \in DOMAIN frames' : j \in DOMAIN frames /\ j \in 1 .. Len(frames')
    BY <2>1, StackType DEF FramesOK
  <2>4. \A j \in DOMAIN frames' : Called(frames'[j])
    BY <2>1, <2>3 DEF FramesOK, SameCall, Called
  <2> QED
    BY <1>1, <2>1, <2>2, <2>4
<1> QED
  BY <1>2, <1>3, <1>4, <1>5, ActionsByKind DEF ByKind, Others

(* The jump buffer always names the innermost try on the stack: no raise   *)
(* lands in a call that has returned, and none passes by a try             *)
(* (KRuntime_tryCallMethod, KRuntime_raise), however deep loads, imports   *)
(* and tries are nested.                                                   *)
THEOREM RaisesLandInnermost == Spec => []JumpBufferInnermost
<1>1. Init => FramesOK /\ JumpInv
  BY StackInit
<1>2. FramesOK /\ JumpInv /\ [Next]_vars => FramesOK' /\ JumpInv'
  BY StackNext
<1>3. JumpInv => JumpBufferInnermost
  BY DEF JumpInv
<1> QED
  BY <1>1, <1>2, <1>3, PTL DEF Spec

----------------------------------------------------------------------------
(* Loads and imports.                                                      *)

LoadsOK ==
  \A i, j \in DOMAIN frames :
    frames[i].kind = "load" /\ frames[j].kind = "load" =>
      /\ packageMap[frames[i].pkg] = "loading"
      /\ frames[i].pkg = frames[j].pkg => i = j
ListsLoaded ==
  \A n \in NameSpaces :
    /\ IsInjective(importedNameSpaceList[n])
    /\ \A p \in ToSet(importedNameSpaceList[n]) : packageMap[p] = "loaded" /\ p # n
ImportsInv ==
  /\ importedNameSpaceList \in [NameSpaces -> Seq(Package)]
  /\ LoadsOK
  /\ ListsLoaded

(* No load begins but in LoadPackage.                                      *)
LEMMA FewerLoads ==
  ASSUME FramesOK, JumpInv, [Next]_vars, ~ LoadPackage
  PROVE  \A j \in DOMAIN frames' : frames'[j].kind = "load" =>
           j \in DOMAIN frames /\ SameCall(frames[j], frames'[j])
<1>1. frames' \in Seq(FrameType) /\ DOMAIN frames = 1 .. Len(frames) /\ Len(frames) \in Nat
  BY StackNext, StackType DEF FramesOK
<1>2. CASE \E m : Plain(m, Others)
  BY <1>2, PlainKeepsCalls DEF Others
<1>3. ASSUME NEW n \in NameSpaces, Try(n)
      PROVE  \A j \in DOMAIN frames' : frames'[j].kind = "load" =>
               j \in DOMAIN frames /\ SameCall(frames[j], frames'[j])
  <2> DEFINE saved == IF evaljmpbuf = NoBuffer THEN 0 ELSE evaljmpbuf
             e == [Frame("try", n, n, FALSE) EXCEPT !.saved = saved]
  <2>1. e.kind = "try" /\ e \in FrameType
    <3>1. saved \in Nat
      BY DEF FramesOK, JumpInv, NoBuffer
    <3> QED
      BY <3>1 DEF Frame, FrameType, Kind, Steps
  <2>2. frames' = Append(frames, e)
    BY <1>3 DEF Try
  <2> HIDE DEF e, saved
  <2>3. /\ DOMAIN frames' = 1 .. Len(frames) + 1
        /\ \A j \in 1 .. Len(frames) : frames'[j] = frames[j]
        /\ frames'[Len(frames) + 1] = e
    BY <2>1, <2>2, PushStack, StackType DEF FramesOK
  <2> QED
    BY <1>1, <2>1, <2>3 DEF SameCall
<1>4. CASE Return
  <2>1. frames # <<>> /\ frames' = Front(frames)
    BY <1>4 DEF Return, At, Pop
  <2>2. /\ DOMAIN frames' = 1 .. Len(frames) - 1
        /\ \A j \in 1 .. Len(frames) - 1 : frames'[j] = frames[j]
    BY <1>1, <2>1, PopStack, StackType DEF FramesOK
  <2> QED
    BY <1>1, <2>2 DEF SameCall
<1>5. CASE Raise
  <2>1. /\ Len(frames') <= Len(frames)
        /\ \A j \in 1 .. Len(frames') : SameCall(frames[j], frames'[j])
    BY <1>5, RaiseKeepsJump
  <2>2. \A j \in DOMAIN frames' : j \in DOMAIN frames /\ j \in 1 .. Len(frames')
    BY <1>1, <2>1, StackType
  <2> QED
    BY <2>1, <2>2
<1> QED
  BY <1>2, <1>3, <1>4, <1>5, ActionsByKind DEF ByKind

LEMMA LoadsNext ==
  ASSUME FramesOK, JumpInv, LoadsOK, [Next]_vars
  PROVE  LoadsOK'
<1>1. frames' \in Seq(FrameType) /\ DOMAIN frames = 1 .. Len(frames) /\ Len(frames) \in Nat
  BY StackNext, StackType DEF FramesOK
<1>2. CASE ~ LoadPackage /\ ~ LoadEnd
  <2>1. packageMap' = packageMap
    BY <1>2, LoaderTypes
  <2>2. \A j \in DOMAIN frames' : frames'[j].kind = "load" =>
          j \in DOMAIN frames /\ SameCall(frames[j], frames'[j])
    BY <1>2, FewerLoads
  <2> QED
    BY <2>1, <2>2 DEF LoadsOK, SameCall
<1>3. CASE LoadEnd
  <2>1. /\ frames # <<>> /\ Top.kind = "load" /\ frames' = Pop
        /\ packageMap' = [packageMap EXCEPT ![Top.pkg] = "loaded"]
    BY <1>3 DEF LoadEnd, At
  <2>2. /\ DOMAIN frames' = 1 .. Len(frames) - 1
        /\ \A j \in 1 .. Len(frames) - 1 : frames'[j] = frames[j]
    BY <1>1, <2>1, PopStack, StackType DEF FramesOK, Pop
  <2>3. Len(frames) \in DOMAIN frames /\ frames[Len(frames)] = Top
    BY <2>1, StackType DEF FramesOK, Top
  <2>4. \A j \in DOMAIN frames' : frames'[j].kind = "load" =>
          /\ j \in DOMAIN frames /\ frames'[j] = frames[j] /\ frames[j].pkg # Top.pkg
          /\ frames[j].pkg \in Package
    <3>1. ASSUME NEW j \in DOMAIN frames', frames'[j].kind = "load"
          PROVE  /\ j \in DOMAIN frames /\ frames'[j] = frames[j]
                 /\ frames[j].pkg # Top.pkg /\ frames[j].pkg \in Package
      <4>1. j \in DOMAIN frames /\ frames'[j] = frames[j] /\ j # Len(frames)
        BY <1>1, <2>2, <3>1
      <4> QED
        BY <2>1, <2>3, <3>1, <4>1 DEF LoadsOK, FramesOK, Called
    <3> QED
      BY <3>1
  <2> QED
    BY <2>1, <2>4 DEF LoadsOK, FramesOK
<1>4. CASE LoadPackage
  <2> DEFINE e == Frame("load", Top.pkg, Top.pkg, TRUE)
  <2>1. /\ frames # <<>> /\ Top.kind \in {"import", "require"} /\ packageMap[Top.pkg] = "none"
        /\ packageMap' = [packageMap EXCEPT ![Top.pkg] = "loading"]
        /\ frames' = Append(frames, e)
    BY <1>4 DEF LoadPackage, Getting, At
  <2>2. Top.pkg \in Package /\ Top.pkg \in NameSpaces
    BY <2>1, TopFrame
  <2>3. e \in FrameType /\ e.kind = "load" /\ e.pkg = Top.pkg
    BY <2>2, LoadMade
  <2> HIDE DEF e
  <2>4. /\ DOMAIN frames' = 1 .. Len(frames) + 1
        /\ \A j \in 1 .. Len(frames) : frames'[j] = frames[j]
        /\ frames'[Len(frames) + 1] = e
    BY <2>1, <2>3, PushStack, StackType DEF FramesOK
  <2>5. \A j \in DOMAIN frames' : frames'[j].kind = "load" =>
          \/ /\ j \in DOMAIN frames /\ frames'[j] = frames[j] /\ frames[j].pkg # Top.pkg
             /\ frames[j].pkg \in Package
          \/ j = Len(frames) + 1 /\ frames'[j].pkg = Top.pkg
    <3>1. ASSUME NEW j \in DOMAIN frames', frames'[j].kind = "load", j # Len(frames) + 1
          PROVE  /\ j \in DOMAIN frames /\ frames'[j] = frames[j]
                 /\ frames[j].pkg # Top.pkg /\ frames[j].pkg \in Package
      <4>1. j \in DOMAIN frames /\ frames'[j] = frames[j]
        BY <1>1, <2>4, <3>1
      <4> QED
        BY <2>1, <3>1, <4>1 DEF LoadsOK, FramesOK, Called
    <3> QED
      BY <2>3, <2>4, <3>1
  <2> QED
    BY <2>1, <2>2, <2>5 DEF LoadsOK, FramesOK
<1> QED
  BY <1>2, <1>3, <1>4

(* Nothing but ImportAll changes the list of the name spaces imported.     *)
LEMMA ImportsStay ==
  ASSUME [Next]_vars, ~ Imported
  PROVE  UNCHANGED importedNameSpaceList
<1>1. ASSUME UNCHANGED spaces
      PROVE  UNCHANGED importedNameSpaceList
  BY <1>1 DEF spaces
<1>2. CASE Parse
  BY <1>1, <1>2 DEF Parse, GetSyntaxList
<1>3. CASE Call
  BY <1>1, <1>3 DEF Call, GetName, Hate, SetConst, NewSyntax, GetList, GetConst, RemoveSyntax,
                    DefineConst, GetSyntaxList, AddSyntax
<1>4. CASE Export \/ Packup \/ OptionDefine
  BY <1>1, <1>4 DEF Export, Packup, OptionDefine, LoadConstData, DefineSyntax, DefineConst
<1>5. CASE Raise \/ (\E n : Try(n))
  BY <1>1, <1>5 DEF Raise, Try
<1> QED
  BY <1>1, <1>2, <1>3, <1>4, <1>5
  DEF Next, vars, Statement, EndScript, Return, Fail, Import, Include, LoadPackage, NotFound,
      RecursiveImporting, Required, Kick, PackupImport, PackupFail, PackupEnd, LoadEnd,
      OptionImport, LoadScript, Shell, ShellStatement, End, Halted

LEMMA ListsNext ==
  ASSUME FramesOK, JumpInv, ImportsInv, [Next]_vars
  PROVE  ListsLoaded' /\ importedNameSpaceList' \in [NameSpaces -> Seq(Package)]
<1>1. \A p \in Package : packageMap[p] = "loaded" => packageMap'[p] = "loaded"
  <2>1. CASE LoadPackage
    BY <2>1 DEF LoadPackage, FramesOK
  <2>2. CASE LoadEnd
    BY <2>2 DEF LoadEnd, FramesOK
  <2> QED
    BY <2>1, <2>2, LoaderTypes
<1>2. \A n \in NameSpaces : ToSet(importedNameSpaceList[n]) \subseteq Package
  <2>1. ASSUME NEW n \in NameSpaces, NEW p \in ToSet(importedNameSpaceList[n])
        PROVE  p \in Package
    <3>1. importedNameSpaceList[n] \in Seq(Package)
      BY DEF ImportsInv
    <3> QED
      BY <2>1, <3>1, ElementOfSeq, LenProperties DEF ToSet
  <2> QED
    BY <2>1
<1>3. CASE UNCHANGED importedNameSpaceList
  BY <1>1, <1>2, <1>3 DEF ImportsInv, ListsLoaded
<1>4. CASE Imported /\ ~ UNCHANGED importedNameSpaceList
  <2> DEFINE n == Top.ns
             p == Top.pkg
             old == importedNameSpaceList[n]
             new == importedNameSpaceList'[n]
  <2>1. frames # <<>> /\ Top.kind = "import" /\ packageMap[p] = "loaded"
    BY <1>4 DEF Imported, At, Ready
  <2>2. n \in NameSpaces /\ p \in Package /\ n # p
    BY <2>1, TopFrame
  <2>3. /\ p \notin ToSet(old)
        /\ importedNameSpaceList' = [importedNameSpaceList EXCEPT ![n] = Append(@, p)]
    BY <1>4 DEF Imported, ImportAll, spaces
  <2>4. old \in Seq(Package) /\ IsInjective(old) /\ importedNameSpaceList' \in [NameSpaces -> Seq(Package)]
    BY <2>2, <2>3, AppendProperties DEF ImportsInv, ListsLoaded
  <2>5. new = Append(old, p)
    BY <2>2, <2>3 DEF ImportsInv
  <2> HIDE DEF old, new, n, p
  <2>6. /\ new \in Seq(Package) /\ Len(new) = Len(old) + 1 /\ new[Len(old) + 1] = p
        /\ \A i \in 1 .. Len(old) : new[i] = old[i]
        /\ Len(old) \in Nat /\ DOMAIN old = 1 .. Len(old) /\ DOMAIN new = 1 .. Len(old) + 1
    BY <2>2, <2>4, <2>5, AppendProperties, LenProperties
  <2>7. \A i \in DOMAIN new : (i \in DOMAIN old /\ new[i] = old[i]) \/ (i = Len(old) + 1 /\ new[i] = p)
    BY <2>6
  <2>8. \A i \in DOMAIN old : old[i] # p
    BY <2>3 DEF ToSet
  <2>9. IsInjective(new)
    BY <2>4, <2>7, <2>8 DEF IsInjective
  <2>10. \A q \in ToSet(new) : q \in ToSet(old) \/ q = p
    BY <2>7 DEF ToSet
  <2>11. ASSUME NEW s \in NameSpaces, s # n
         PROVE  importedNameSpaceList'[s] = importedNameSpaceList[s]
    BY <2>3, <2>11 DEF ImportsInv
  <2>12. \A q \in ToSet(new) : packageMap'[q] = "loaded" /\ q # n
    BY <1>1, <1>2, <2>1, <2>2, <2>10 DEF ImportsInv, ListsLoaded, old
  <2>13. ASSUME NEW s \in NameSpaces
         PROVE  /\ IsInjective(importedNameSpaceList'[s])
                /\ \A q \in ToSet(importedNameSpaceList'[s]) : packageMap'[q] = "loaded" /\ q # s
    <3>1. CASE s = n
      BY <2>9, <2>12, <3>1 DEF new
    <3>2. CASE s # n
      BY <1>1, <1>2, <2>11, <3>2 DEF ImportsInv, ListsLoaded
    <3> QED
      BY <3>1, <3>2
  <2> QED
    BY <2>4, <2>13 DEF ListsLoaded
<1> QED
  BY <1>3, <1>4, ImportsStay DEF ImportsInv

(* A name space is only ever given packages loaded to the end, each once   *)
(* and never itself, and no package is being loaded twice, in whatever     *)
(* circles packages import each other (GetPackageNULL, LoadPackageNULL,    *)
(* kNameSpace_ImportAll).                                                  *)
THEOREM ImportsAreLoaded == Spec => []ImportsLoaded
<1>1. Init => FramesOK /\ JumpInv /\ ImportsInv
  <2> SUFFICES ASSUME Init PROVE ImportsInv
    BY StackInit
  <2>1. importedNameSpaceList = [n \in NameSpaces |-> <<>>] /\ DOMAIN frames = {}
    BY DEF Init, InitSpaces
  <2> QED
    BY <2>1 DEF ImportsInv, LoadsOK, ListsLoaded, IsInjective, ToSet
<1>2. FramesOK /\ JumpInv /\ ImportsInv /\ [Next]_vars => FramesOK' /\ JumpInv' /\ ImportsInv'
  BY StackNext, LoadsNext, ListsNext DEF ImportsInv
<1>3. ImportsInv => ImportsLoaded
  BY DEF ImportsInv, LoadsOK, ListsLoaded, ImportsLoaded
<1> QED
  BY <1>1, <1>2, <1>3, PTL DEF Spec

----------------------------------------------------------------------------
(* Induction, and functions defined by recursion.                          *)

LEMMA LeastNat ==
  ASSUME NEW T \in SUBSET Nat, T # {}
  PROVE  \E m \in T : \A k \in T : m <= k
<1> DEFINE R == OpToRel(<, Nat)
<1>1. IsWellFoundedOn(R, Nat)
  BY NatLessThanWellFounded
<1>2. \A a, b \in Nat : <<a, b>> \notin R => ~ (a < b)
  BY DEF OpToRel
<1> HIDE DEF R
<1>3. PICK m \in T : \A k \in T : <<k, m>> \notin R
  BY <1>1, WFMin
<1>4. ASSUME NEW k \in T PROVE m <= k
  <2>1. m \in Nat /\ k \in Nat
    OBVIOUS
  <2>2. ~ (k < m)
    BY <1>2, <1>3, <2>1, Zenon
  <2> QED
    BY <2>1, <2>2
<1> QED
  BY <1>4

LEMMA Induct ==
  ASSUME NEW T \in SUBSET Nat, 0 \in T, \A n \in Nat : n # 0 /\ n - 1 \in T => n \in T
  PROVE  \A n \in Nat : n \in T
<1> SUFFICES ASSUME Nat \ T # {} PROVE FALSE
  OBVIOUS
<1>1. PICK m \in Nat \ T : \A k \in Nat \ T : m <= k
  BY LeastNat
<1>2. m \in Nat /\ m # 0 /\ m - 1 \in Nat /\ ~ (m <= m - 1)
  BY <1>1
<1>3. m - 1 \in T
  BY <1>1, <1>2
<1> QED
  BY <1>1, <1>2, <1>3

(* A function defined by recursion on 0 .. N.                              *)
Recurses(g, S, a, N, step) ==
  /\ g \in [0 .. N -> S]
  /\ \A i \in 0 .. N : g[i] = IF i = 0 THEN a ELSE step[i][g[i - 1]]
LEMMA Recursion ==
  ASSUME NEW S, NEW a \in S, NEW N \in Nat, NEW step \in [1 .. N -> [S -> S]]
  PROVE  \E g : Recurses(g, S, a, N, step)
<1> DEFINE Upto(n, g) == \A i \in 0 .. n : g[i] = IF i = 0 THEN a ELSE step[i][g[i - 1]]
           T == {n \in Nat : n <= N => \E g \in [0 .. n -> S] : Upto(n, g)}
<1>1. 0 \in T
  <2>1. [i \in 0 .. 0 |-> a] \in [0 .. 0 -> S] /\ Upto(0, [i \in 0 .. 0 |-> a])
    OBVIOUS
  <2> QED
    BY <2>1
<1>2. ASSUME NEW n \in Nat, n # 0, n - 1 \in T PROVE n \in T
  <2> SUFFICES ASSUME n <= N PROVE \E g \in [0 .. n -> S] : Upto(n, g)
    OBVIOUS
  <2>1. n \in Nat /\ n - 1 \in Nat /\ n - 1 <= N /\ n \in 1 .. N
    BY <1>2
  <2>2. PICK g \in [0 .. n - 1 -> S] : Upto(n - 1, g)
    BY <1>2, <2>1
  <2> DEFINE h == [i \in 0 .. n |-> IF i = n THEN step[n][g[n - 1]] ELSE g[i]]
  <2>3. g[n - 1] \in S /\ step[n] \in [S -> S]
    BY <2>1
  <2>4. h \in [0 .. n -> S]
    BY <2>1, <2>3
  <2>5. ASSUME NEW i \in 0 .. n PROVE h[i] = IF i = 0 THEN a ELSE step[i][h[i - 1]]
    <3>1. CASE i = n
      <4>1. i # 0 /\ n - 1 \in 0 .. n /\ n - 1 # n
        BY <1>2, <2>1, <3>1
      <4>2. h[n - 1] = g[n - 1]
        BY <4>1
      <4> QED
        BY <3>1, <4>1, <4>2
    <3>2. CASE i # n
      <4>1. i \in 0 .. n - 1 /\ h[i] = g[i]
        BY <2>1, <3>2
      <4>2. i # 0 => i - 1 \in 0 .. n /\ i - 1 # n /\ h[i - 1] = g[i - 1]
        BY <2>1, <4>1
      <4> HIDE DEF h
      <4> QED
        BY <2>2, <4>1, <4>2
    <3> QED
      BY <3>1, <3>2
  <2> HIDE DEF h
  <2> QED
    BY <2>4, <2>5
<1> HIDE DEF T
<1>3. T \subseteq Nat
  BY DEF T
<1>4. N \in T
  BY <1>1, <1>2, <1>3, Induct
<1> QED
  BY <1>4 DEF T, Recurses


(* FlattenSeq, part by part.                                               *)
LEMMA FlattenIs ==
  ASSUME NEW X, NEW seqs \in Seq(Seq(X))
  PROVE  \E g : /\ g \in [0 .. Len(seqs) -> Seq(X)] /\ g[0] = <<>>
                /\ \A i \in 1 .. Len(seqs) : g[i] = g[i - 1] \o seqs[i]
                /\ FlattenSeq(seqs) = g[Len(seqs)]
<1> DEFINE L == Len(seqs)
           step == [i \in 1 .. L |-> [s \in Seq(X) |-> s \o seqs[i]]]
<1>1. L \in Nat /\ \A i \in 1 .. L : seqs[i] \in Seq(X)
  BY LenProperties, ElementOfSeq
<1>2. step \in [1 .. L -> [Seq(X) -> Seq(X)]]
  BY <1>1, ConcatProperties
<1>3. <<>> \in Seq(X)
  OBVIOUS
<1>4. PICK g : Recurses(g, Seq(X), <<>>, L, step)
  <2> HIDE DEF L, step
  <2> QED
    BY <1>1, <1>2, <1>3, Recursion
<1>5. g \in [0 .. L -> Seq(X)] /\ g[0] = <<>>
  <2> HIDE DEF L, step
  <2>1. 0 \in 0 .. L
    BY <1>1
  <2> QED
    BY <1>4, <2>1 DEF Recurses
<1>6. ASSUME NEW i \in 1 .. L PROVE g[i] = g[i - 1] \o seqs[i]
  <2>1. i \in 0 .. L /\ i # 0 /\ i - 1 \in 0 .. L
    BY <1>1
  <2>2. g[i] = step[i][g[i - 1]] /\ g[i - 1] \in Seq(X)
    BY <1>4, <2>1 DEF Recurses
  <2> QED
    BY <2>2
<1>7. L = 0 => FlattenSeq(seqs) = <<>>
  BY <1>1, EmptySeq DEF FlattenSeq
<1>8. L # 0 => FlattenSeq(seqs) = g[L]
  <2> SUFFICES ASSUME L # 0 PROVE FlattenSeq(seqs) = g[L]
    OBVIOUS
  <2> DEFINE f0 == [i \in 1 .. L |-> g[i]]
             F(h) == h = [i \in 1 .. Len(seqs) |-> IF i = 1 THEN seqs[i] ELSE h[i - 1] \o seqs[i]]
             flatten == CHOOSE h : F(h)
             T == {i \in Nat : i \in 1 .. L => flatten[i] = g[i]}
  <2>1. g[1] = seqs[1]
    <3>1. 1 \in 1 .. L /\ 1 - 1 = 0
      BY <1>1
    <3>2. g[1] = g[1 - 1] \o seqs[1]
      BY <1>6, <3>1
    <3>3. g[1] = <<>> \o seqs[1] /\ seqs[1] \in Seq(X)
      BY <1>1, <1>5, <3>1, <3>2
    <3> QED
      BY <3>3, EmptySeq, ConcatProperties
  <2>2. F(f0)
    <3>1. ASSUME NEW i \in 1 .. L PROVE f0[i] = IF i = 1 THEN seqs[i] ELSE f0[i - 1] \o seqs[i]
      <4>1. i # 1 => i - 1 \in 1 .. L
        BY <1>1
      <4> QED
        BY <1>6, <2>1, <4>1
    <3> QED
      BY <3>1
  <2>3. F(flatten)
    <3> HIDE DEF f0, F
    <3> QED
      BY <2>2
  <2>4. FlattenSeq(seqs) = flatten[L]
    BY DEF FlattenSeq
  <2> HIDE DEF flatten
  <2>5. \A i \in 1 .. L : flatten[i] = IF i = 1 THEN seqs[i] ELSE flatten[i - 1] \o seqs[i]
    BY <2>3
  <2>6. 0 \in T
    OBVIOUS
  <2>7. ASSUME NEW n \in Nat, n # 0, n - 1 \in T PROVE n \in T
    <3> SUFFICES ASSUME n \in 1 .. L PROVE flatten[n] = g[n]
      OBVIOUS
    <3>1. flatten[n] = IF n = 1 THEN seqs[n] ELSE flatten[n - 1] \o seqs[n]
      BY <2>5
    <3>2. CASE n = 1
      BY <2>1, <3>1, <3>2
    <3>3. CASE n # 1
      <4>1. n - 1 \in 1 .. L
        BY <1>1, <3>3
      <4>2. flatten[n - 1] = g[n - 1]
        BY <2>7, <4>1
      <4> QED
        BY <1>6, <3>1, <3>3, <4>2
    <3> QED
      BY <3>2, <3>3
  <2>8. L \in T
    <3> HIDE DEF T, L
    <3> QED
      BY <1>1, <2>6, <2>7, Induct DEF T
  <2> QED
    BY <1>1, <2>4, <2>8
<1> QED
  BY <1>1, <1>5, <1>6, <1>7, <1>8

(* The search as a function of the lineage and of the lists of imports,    *)
(* and the syntaxes found as one of the search and of the tables.          *)
Chain(l, imports) == FlattenSeq([i \in DOMAIN l |-> <<l[i]>> \o imports[l[i]]])
SyntaxAt(t, s, k) == k \in DOMAIN t[s] /\ t[s][k].type = "Syntax"
Listing(at, t, k) ==
  LET list[i \in 0 .. Len(at)] ==
        IF i = 0 THEN <<>>
        ELSE IF SyntaxAt(t, at[i], k) THEN Append(list[i - 1], t[at[i]][k])
        ELSE list[i - 1]
  IN  list[Len(at)]

Found(at, t, k) == {t[at[i]][k] : i \in {j \in 1 .. Len(at) : SyntaxAt(t, at[j], k)}}

(* g[i] is the list of the first i of the search.                          *)
Lists(g, at, t, k) ==
  /\ g \in [0 .. Len(at) -> Seq(Found(at, t, k))] /\ g[0] = <<>>
  /\ \A i \in 1 .. Len(at) :
       g[i] = IF SyntaxAt(t, at[i], k) THEN Append(g[i - 1], t[at[i]][k]) ELSE g[i - 1]
  /\ Listing(at, t, k) = g[Len(at)]

LEMMA ListingIs ==
  ASSUME NEW X, NEW at \in Seq(X), NEW t, NEW k
  PROVE  \E g : Lists(g, at, t, k)
<1> DEFINE L == Len(at)
           S == Seq(Found(at, t, k))
           e(i) == t[at[i]][k]
           step == [i \in 1 .. L |->
                      [s \in S |-> IF SyntaxAt(t, at[i], k) THEN Append(s, e(i)) ELSE s]]
<1>1. L \in Nat
  BY LenProperties
<1>2. step \in [1 .. L -> [S -> S]]
  <2>1. ASSUME NEW i \in 1 .. L, NEW s \in S, SyntaxAt(t, at[i], k)
        PROVE  Append(s, e(i)) \in S
    <3>1. e(i) \in Found(at, t, k)
      BY <2>1 DEF Found
    <3> HIDE DEF e
    <3> QED
      BY <3>1, AppendProperties
  <2> HIDE DEF S, L, e
  <2> QED
    BY <2>1
<1>3. <<>> \in S
  OBVIOUS
<1>4. PICK g : Recurses(g, S, <<>>, L, step)
  <2> HIDE DEF L, step, S
  <2> QED
    BY <1>1, <1>2, <1>3, Recursion
<1>5. g \in [0 .. L -> S] /\ g[0] = <<>>
  <2> HIDE DEF L, step, S
  <2>1. 0 \in 0 .. L
    BY <1>1
  <2> QED
    BY <1>4, <2>1 DEF Recurses
<1>6. ASSUME NEW i \in 1 .. L
      PROVE  g[i] = IF SyntaxAt(t, at[i], k) THEN Append(g[i - 1], e(i)) ELSE g[i - 1]
  <2>1. i \in 0 .. L /\ i # 0 /\ i - 1 \in 0 .. L
    BY <1>1
  <2>2. g[i] = step[i][g[i - 1]] /\ g[i - 1] \in S
    <3> HIDE DEF step, S
    <3> QED
      BY <1>4, <2>1 DEF Recurses
  <2> HIDE DEF S, e, L
  <2> QED
    BY <2>2
<1>7. Listing(at, t, k) = g[L]
  <2> DEFINE F(h) == h = [i \in 0 .. Len(at) |->
                            IF i = 0 THEN <<>>
                            ELSE IF SyntaxAt(t, at[i], k) THEN Append(h[i - 1], t[at[i]][k])
                            ELSE h[i - 1]]
             list == CHOOSE h : F(h)
             T == {i \in Nat : i \in 0 .. L => list[i] = g[i]}
  <2>1. F(g)
    <3>1. ASSUME NEW i \in 0 .. L
          PROVE  g[i] = IF i = 0 THEN <<>>
                        ELSE IF SyntaxAt(t, at[i], k) THEN Append(g[i - 1], t[at[i]][k])
                        ELSE g[i - 1]
      <4>1. CASE i = 0
        BY <1>5, <4>1
      <4>2. CASE i # 0
        <5>1. i \in 1 .. L
          BY <1>1, <4>2
        <5> QED
          BY <1>6, <4>2, <5>1
      <4> QED
        BY <4>1, <4>2
    <3> HIDE DEF S
    <3> QED
      BY <1>5, <3>1
  <2>2. F(list)
    <3> HIDE DEF F
    <3> QED
      BY <2>1
  <2>3. Listing(at, t, k) = list[L]
    BY DEF Listing
  <2> HIDE DEF list
  <2>4. \A i \in 0 .. L : list[i] = IF i = 0 THEN <<>>
                          ELSE IF SyntaxAt(t, at[i], k) THEN Append(list[i - 1], t[at[i]][k])
                          ELSE list[i - 1]
    BY <2>2
  <2>5. 0 \in T
    BY <1>5, <2>4
  <2>6. ASSUME NEW n \in Nat, n # 0, n - 1 \in T PROVE n \in T
    <3> SUFFICES ASSUME n \in 0 .. L PROVE list[n] = g[n]
      OBVIOUS
    <3>1. n - 1 \in 0 .. L /\ n \in 1 .. L
      BY <1>1, <2>6
    <3>2. list[n - 1] = g[n - 1]
      BY <2>6, <3>1
    <3> QED
      BY <1>6, <2>4, <2>6, <3>1, <3>2
  <2>7. L \in T
    <3> HIDE DEF T, L
    <3> QED
      BY <1>1, <2>5, <2>6, Induct DEF T
  <2> QED
    BY <1>1, <2>3, <2>7
<1> QED
  BY <1>5, <1>6, <1>7 DEF Lists

(* Sequences within one another.                                           *)
LEMMA WithinSelf ==
  ASSUME NEW s
  PROVE  Within(s, s) /\ Within(<<>>, s)
<1>1. Within(s, s)
  <2> DEFINE f == [i \in DOMAIN s |-> i]
  <2>1. f \in [DOMAIN s -> DOMAIN s] /\ \A i \in DOMAIN s : f[i] = i
    OBVIOUS
  <2> HIDE DEF f
  <2> QED
    BY <2>1 DEF Within
<1>2. Within(<<>>, s)
  <2> DEFINE f == [i \in DOMAIN <<>> |-> i]
  <2>1. DOMAIN <<>> = {}
    OBVIOUS
  <2>2. f \in [DOMAIN <<>> -> DOMAIN s]
    BY <2>1
  <2> HIDE DEF f
  <2> QED
    BY <2>1, <2>2 DEF Within
<1> QED
  BY <1>1, <1>2

LEMMA WithinTransitive ==
  ASSUME NEW r, NEW s, NEW t, Within(r, s), Within(s, t)
  PROVE  Within(r, t)
<1>1. PICK f \in [DOMAIN r -> DOMAIN s] :
        /\ \A i \in DOMAIN r : s[f[i]] = r[i]
        /\ \A i, j \in DOMAIN r : i < j => f[i] < f[j]
  BY DEF Within
<1>2. PICK g \in [DOMAIN s -> DOMAIN t] :
        /\ \A i \in DOMAIN s : t[g[i]] = s[i]
        /\ \A i, j \in DOMAIN s : i < j => g[i] < g[j]
  BY DEF Within
<1> DEFINE h == [i \in DOMAIN r |-> g[f[i]]]
<1>3. h \in [DOMAIN r -> DOMAIN t] /\ \A i \in DOMAIN r : h[i] = g[f[i]] /\ f[i] \in DOMAIN s
  BY <1>1, <1>2
<1> HIDE DEF h
<1>4. \A i \in DOMAIN r : t[h[i]] = r[i]
  BY <1>1, <1>2, <1>3
<1>5. \A i, j \in DOMAIN r : i < j => h[i] < h[j]
  BY <1>1, <1>2, <1>3
<1> QED
  BY <1>3, <1>4, <1>5 DEF Within

LEMMA WithinLonger ==
  ASSUME NEW X, NEW s \in Seq(X), NEW t \in Seq(X), NEW e \in X, Within(s, t)
  PROVE  Within(s, Append(t, e)) /\ Within(Append(s, e), Append(t, e))
<1> DEFINE m == Len(s)
           n == Len(t)
           a == Append(s, e)
           b == Append(t, e)
<1>1. /\ m \in Nat /\ n \in Nat /\ DOMAIN s = 1 .. m /\ DOMAIN t = 1 .. n
      /\ DOMAIN a = 1 .. m + 1 /\ DOMAIN b = 1 .. n + 1
      /\ \A i \in 1 .. m : a[i] = s[i]
      /\ \A i \in 1 .. n : b[i] = t[i]
      /\ a[m + 1] = e /\ b[n + 1] = e
  BY AppendProperties, LenProperties
<1>2. PICK f \in [1 .. m -> 1 .. n] :
        /\ \A i \in 1 .. m : t[f[i]] = s[i]
        /\ \A i, j \in 1 .. m : i < j => f[i] < f[j]
  BY <1>1 DEF Within
<1> HIDE DEF m, n, a, b
<1>3. Within(s, b)
  <2>1. \A i \in 1 .. m : f[i] \in 1 .. n /\ f[i] \in 1 .. n + 1
    BY <1>1, <1>2
  <2>2. f \in [1 .. m -> 1 .. n + 1]
    BY <2>1
  <2>3. \A i \in 1 .. m : b[f[i]] = s[i]
    BY <1>1, <1>2, <2>1
  <2> QED
    BY <1>1, <1>2, <2>2, <2>3 DEF Within
<1>4. Within(a, b)
  <2> DEFINE g == [i \in 1 .. m + 1 |-> IF i = m + 1 THEN n + 1 ELSE f[i]]
  <2>1. \A i \in 1 .. m + 1 : i # m + 1 => i \in 1 .. m
    BY <1>1
  <2>2. g \in [1 .. m + 1 -> 1 .. n + 1]
    BY <1>1, <1>2, <2>1
  <2>3. ASSUME NEW i \in 1 .. m + 1 PROVE b[g[i]] = a[i]
    BY <1>1, <1>2, <2>1
  <2>4. ASSUME NEW i \in 1 .. m + 1, NEW j \in 1 .. m + 1, i < j PROVE g[i] < g[j]
    <3>1. i \in 1 .. m /\ f[i] \in 1 .. n /\ g[i] = f[i]
      BY <1>1, <1>2, <2>4
    <3>2. CASE j = m + 1
      BY <1>1, <3>1, <3>2
    <3>3. CASE j # m + 1
      BY <1>2, <2>1, <2>4, <3>1, <3>3
    <3> QED
      BY <3>2, <3>3
  <2> HIDE DEF g
  <2> QED
    BY <1>1, <2>2, <2>3, <2>4 DEF Within
<1> QED
  BY <1>3, <1>4 DEF a, b

LEMMA WithinConcat ==
  ASSUME NEW X, NEW s \in Seq(X), NEW t \in Seq(X), NEW u \in Seq(X), NEW v \in Seq(X),
         Within(s, t), Within(u, v)
  PROVE  Within(s \o u, t \o v)
<1> DEFINE m == Len(s)
           n == Len(t)
           k == Len(u)
           l == Len(v)
           a == s \o u
           b == t \o v
<1>1. /\ m \in Nat /\ n \in Nat /\ k \in Nat /\ l \in Nat
      /\ DOMAIN s = 1 .. m /\ DOMAIN t = 1 .. n /\ DOMAIN u = 1 .. k /\ DOMAIN v = 1 .. l
  BY LenProperties
<1>2. /\ DOMAIN a = 1 .. m + k /\ DOMAIN b = 1 .. n + l
      /\ \A i \in 1 .. m + k : a[i] = IF i <= m THEN s[i] ELSE u[i - m]
      /\ \A i \in 1 .. n + l : b[i] = IF i <= n THEN t[i] ELSE v[i - n]
  BY ConcatProperties, LenProperties
<1>3. PICK f \in [1 .. m -> 1 .. n] :
        /\ \A i \in 1 .. m : t[f[i]] = s[i]
        /\ \A i, j \in 1 .. m : i < j => f[i] < f[j]
  BY <1>1 DEF Within
<1>4. PICK g \in [1 .. k -> 1 .. l] :
        /\ \A i \in 1 .. k : v[g[i]] = u[i]
        /\ \A i, j \in 1 .. k : i < j => g[i] < g[j]
  BY <1>1 DEF Within
<1> HIDE DEF m, n, k, l, a, b
<1> DEFINE h == [i \in 1 .. m + k |-> IF i <= m THEN f[i] ELSE n + g[i - m]]
<1>5. \A i \in 1 .. m + k :
        \/ i <= m /\ i \in 1 .. m /\ f[i] \in 1 .. n
        \/ ~ (i <= m) /\ i - m \in 1 .. k /\ g[i - m] \in 1 .. l
  BY <1>1, <1>3, <1>4
<1>6. ASSUME NEW i \in 1 .. m + k
      PROVE  h[i] \in 1 .. n + l /\ b[h[i]] = a[i]
  <2>1. CASE i <= m
    <3>1. i \in 1 .. m /\ f[i] \in 1 .. n
      BY <1>5, <2>1
    <3>2. h[i] = f[i] /\ f[i] \in 1 .. n + l /\ f[i] <= n
      BY <1>1, <2>1, <3>1
    <3> QED
      BY <1>2, <1>3, <2>1, <3>1, <3>2
  <2>2. CASE ~ (i <= m)
    <3> DEFINE q == g[i - m]
    <3>1. i - m \in 1 .. k /\ q \in 1 .. l /\ h[i] = n + q /\ v[q] = u[i - m]
      BY <1>4, <1>5, <2>2
    <3> HIDE DEF q, h
    <3> DEFINE p == n + q
    <3>2. p \in 1 .. n + l /\ ~ (p <= n) /\ p - n = q
      BY <1>1, <3>1
    <3>3. h[i] = p /\ b[p] = v[q]
      <4>1. h[i] = p
        BY <3>1
      <4> HIDE DEF p
      <4> QED
        BY <1>2, <3>2, <4>1
    <3> HIDE DEF p
    <3>4. a[i] = u[i - m]
      BY <1>2, <2>2
    <3> QED
      BY <3>1, <3>2, <3>3, <3>4
  <2> QED
    BY <2>1, <2>2
<1>7. ASSUME NEW i \in 1 .. m + k, NEW j \in 1 .. m + k, i < j
      PROVE  h[i] < h[j]
  <2>1. CASE i <= m /\ j <= m
    BY <1>3, <1>5, <1>7, <2>1
  <2>2. CASE i <= m /\ ~ (j <= m)
    <3>1. h[i] = f[i] /\ f[i] \in 1 .. n
      BY <1>5, <2>2
    <3>2. h[j] = n + g[j - m] /\ g[j - m] \in 1 .. l
      BY <1>5, <2>2
    <3> QED
      BY <1>1, <3>1, <3>2
  <2>3. CASE ~ (i <= m) /\ ~ (j <= m)
    <3>1. h[i] = n + g[i - m] /\ g[i - m] \in 1 .. l /\ i - m \in 1 .. k
      BY <1>5, <2>3
    <3>2. h[j] = n + g[j - m] /\ g[j - m] \in 1 .. l /\ j - m \in 1 .. k
      BY <1>5, <2>3
    <3>3. i - m < j - m
      BY <1>1, <1>7
    <3>4. g[i - m] < g[j - m]
      BY <1>4, <3>1, <3>2, <3>3
    <3> QED
      BY <1>1, <3>1, <3>2, <3>4
  <2>4. ~ (~ (i <= m) /\ j <= m)
    BY <1>1, <1>7
  <2> QED
    BY <2>1, <2>2, <2>3, <2>4
<1>8. h \in [1 .. m + k -> 1 .. n + l]
  BY <1>6
<1> HIDE DEF h
<1>9. Within(a, b)
  <2>1. /\ \A i \in 1 .. m + k : b[h[i]] = a[i]
        /\ \A i, j \in 1 .. m + k : i < j => h[i] < h[j]
    BY <1>6, <1>7
  <2>2. DOMAIN a = 1 .. m + k /\ DOMAIN b = 1 .. n + l
    BY <1>2
  <2>3. h \in [DOMAIN a -> DOMAIN b]
    BY ONLY <1>8, <2>2
  <2>4. /\ \A i \in DOMAIN a : b[h[i]] = a[i]
        /\ \A i, j \in DOMAIN a : i < j => h[i] < h[j]
    BY ONLY <2>1, <2>2
  <2> QED
    BY ONLY <2>3, <2>4 DEF Within
<1> QED
  BY <1>9 DEF a, b

(* A search that has grown finds what it found before, in the same order.  *)
Link(l, imports, i) == <<l[i]>> \o imports[l[i]]

LEMMA LinkType ==
  ASSUME NEW X, NEW l \in Seq(X), NEW imports \in [X -> Seq(X)], NEW i \in 1 .. Len(l)
  PROVE  /\ Link(l, imports, i) \in Seq(X)
         /\ Link(l, imports, i) # <<>> /\ Link(l, imports, i)[1] = l[i]
<1>1. l[i] \in X
  BY ElementOfSeq
<1>2. imports[l[i]] \in Seq(X) /\ <<l[i]>> \in Seq(X) /\ Len(<<l[i]>>) = 1
  BY <1>1
<1> DEFINE b == imports[l[i]]
           c == <<l[i]>>
<1>3. c \in Seq(X) /\ b \in Seq(X) /\ Len(c) = 1 /\ c[1] = l[i] /\ Len(b) \in Nat
  BY <1>2, LenProperties
<1>4. Link(l, imports, i) = c \o b
  BY DEF Link
<1> HIDE DEF b, c
<1>5. c \o b \in Seq(X) /\ Len(c \o b) = Len(c) + Len(b) /\ (c \o b)[1] = c[1]
  <2>1. /\ c \o b \in Seq(X) /\ Len(c \o b) = Len(c) + Len(b)
        /\ \A j \in 1 .. Len(c) + Len(b) :
             (c \o b)[j] = IF j <= Len(c) THEN c[j] ELSE b[j - Len(c)]
    BY <1>3, ConcatProperties
  <2>2. 1 \in 1 .. Len(c) + Len(b) /\ 1 <= Len(c)
    BY <1>3
  <2> QED
    BY <2>1, <2>2
<1>6. c \o b # <<>>
  BY <1>3, <1>5, EmptySeq
<1> QED
  BY <1>3, <1>4, <1>5, <1>6

LEMMA ChainIs ==
  ASSUME NEW X, NEW l \in Seq(X), NEW imports \in [X -> Seq(X)]
  PROVE  \E g : /\ g \in [0 .. Len(l) -> Seq(X)] /\ g[0] = <<>>
                /\ \A i \in 1 .. Len(l) : g[i] = g[i - 1] \o Link(l, imports, i)
                /\ Chain(l, imports) = g[Len(l)]
<1> DEFINE seqs == [i \in DOMAIN l |-> Link(l, imports, i)]
<1>1. DOMAIN l = 1 .. Len(l) /\ Len(l) \in Nat
  BY LenProperties
<1>2. \A i \in 1 .. Len(l) : Link(l, imports, i) \in Seq(X)
  BY LinkType
<1>3. seqs \in [1 .. Len(l) -> Seq(X)] /\ \A i \in 1 .. Len(l) : seqs[i] = Link(l, imports, i)
  BY <1>1, <1>2
<1>4. Chain(l, imports) = FlattenSeq(seqs)
  BY DEF Chain, Link
<1> HIDE DEF seqs
<1>5. seqs \in Seq(Seq(X)) /\ Len(seqs) = Len(l)
  <2> DEFINE n == Len(l)
             S == Seq(X)
  <2>1. n \in Nat /\ seqs \in [1 .. n -> S]
    BY <1>1, <1>3
  <2> HIDE DEF n, S
  <2>2. seqs \in Seq(S) /\ Len(seqs) = n
    BY <2>1, FunctionIsSeq
  <2> QED
    BY <2>2 DEF n, S
<1>6. PICK g : /\ g \in [0 .. Len(seqs) -> Seq(X)] /\ g[0] = <<>>
               /\ \A i \in 1 .. Len(seqs) : g[i] = g[i - 1] \o seqs[i]
               /\ FlattenSeq(seqs) = g[Len(seqs)]
  BY <1>5, FlattenIs
<1>7. \A i \in 1 .. Len(l) : g[i] = g[i - 1] \o Link(l, imports, i)
  BY <1>3, <1>5, <1>6
<1> QED
  BY <1>4, <1>5, <1>6, <1>7

LEMMA ChainType ==
  ASSUME NEW X, NEW l \in Seq(X), l # <<>>, NEW imports \in [X -> Seq(X)]
  PROVE  /\ Chain(l, imports) \in Seq(X) /\ Chain(l, imports) # <<>>
         /\ Chain(l, imports)[1] = l[1]
<1> DEFINE L == Len(l)
<1>1. L \in Nat /\ L # 0
  BY LenProperties, EmptySeq
<1>2. PICK g : /\ g \in [0 .. L -> Seq(X)] /\ g[0] = <<>>
               /\ \A i \in 1 .. L : g[i] = g[i - 1] \o Link(l, imports, i)
               /\ Chain(l, imports) = g[L]
  BY ChainIs
<1>3. \A i \in 1 .. L : /\ Link(l, imports, i) \in Seq(X) /\ Link(l, imports, i) # <<>>
                        /\ Link(l, imports, i)[1] = l[i]
  BY LinkType
<1> HIDE DEF L
<1> DEFINE T == {i \in Nat : i \in 1 .. L => g[i] # <<>> /\ g[i][1] = l[1]}
<1>4. 0 \in T
  OBVIOUS
<1>5. ASSUME NEW n \in Nat, n # 0, n - 1 \in T PROVE n \in T
  <2> SUFFICES ASSUME n \in 1 .. L PROVE g[n] # <<>> /\ g[n][1] = l[1]
    OBVIOUS
  <2> DEFINE a == g[n - 1]
             b == Link(l, imports, n)
  <2>1. n - 1 \in 0 .. L
    BY <1>1, <1>5
  <2>2. a \in Seq(X) /\ b \in Seq(X) /\ b # <<>> /\ b[1] = l[n] /\ g[n] = a \o b
    BY <1>2, <1>3, <2>1
  <2>3. n = 1 => a = <<>>
    BY <1>2
  <2>4. n # 1 => a # <<>> /\ a[1] = l[1]
    <3>1. n # 1 => n - 1 \in 1 .. L
      BY <1>1, <2>1
    <3> QED
      BY <1>5, <3>1
  <2> HIDE DEF a, b
  <2>5. Len(a) \in Nat /\ Len(b) \in Nat /\ Len(b) # 0 /\ (a # <<>> => Len(a) # 0)
        /\ (a = <<>> => Len(a) = 0)
    <3>1. a \in Seq(X) /\ b \in Seq(X) /\ b # <<>>
      BY <2>2
    <3>2. Len(a) \in Nat /\ Len(b) \in Nat
      BY ONLY <3>1, LenProperties
    <3>3. Len(b) # 0
      BY ONLY <3>1, EmptySeq
    <3>4. a # <<>> => Len(a) # 0
      BY ONLY <3>1, EmptySeq
    <3>5. a = <<>> => Len(a) = 0
      BY ONLY EmptySeq
    <3> QED
      BY <3>2, <3>3, <3>4, <3>5
  <2>6. /\ Len(a \o b) = Len(a) + Len(b) /\ a \o b \in Seq(X)
        /\ (a \o b)[1] = IF 1 <= Len(a) THEN a[1] ELSE b[1 - Len(a)]
    BY <2>2, <2>5, ConcatProperties
  <2>7. a \o b # <<>>
    BY <2>5, <2>6, EmptySeq
  <2>8. CASE n = 1
    BY <2>2, <2>3, <2>5, <2>6, <2>7, <2>8
  <2>9. CASE n # 1
    BY <2>2, <2>4, <2>5, <2>6, <2>7, <2>9
  <2> QED
    BY <2>8, <2>9
<1>6. L \in T
  <2> HIDE DEF T
  <2> QED
    BY <1>1, <1>4, <1>5, Induct DEF T
<1>7. L \in 1 .. L
  BY <1>1
<1> QED
  BY <1>2, <1>6, <1>7

LEMMA ChainGrows ==
  ASSUME NEW X, NEW l \in Seq(X), NEW old \in [X -> Seq(X)], NEW new \in [X -> Seq(X)],
         \A x \in X : Within(old[x], new[x])
  PROVE  Within(Chain(l, old), Chain(l, new))
<1> DEFINE L == Len(l)
<1>1. L \in Nat
  BY LenProperties
<1>2. PICK g : /\ g \in [0 .. L -> Seq(X)] /\ g[0] = <<>>
               /\ \A i \in 1 .. L : g[i] = g[i - 1] \o Link(l, old, i)
               /\ Chain(l, old) = g[L]
  BY ChainIs
<1>3. PICK h : /\ h \in [0 .. L -> Seq(X)] /\ h[0] = <<>>
               /\ \A i \in 1 .. L : h[i] = h[i - 1] \o Link(l, new, i)
               /\ Chain(l, new) = h[L]
  BY ChainIs
<1>4. ASSUME NEW i \in 1 .. L
      PROVE  /\ Link(l, old, i) \in Seq(X) /\ Link(l, new, i) \in Seq(X)
             /\ Within(Link(l, old, i), Link(l, new, i))
  <2>1. l[i] \in X
    BY ElementOfSeq
  <2>2. /\ <<l[i]>> \in Seq(X) /\ old[l[i]] \in Seq(X) /\ new[l[i]] \in Seq(X)
        /\ Within(old[l[i]], new[l[i]]) /\ Within(<<l[i]>>, <<l[i]>>)
    BY <2>1, WithinSelf
  <2>3. Within(<<l[i]>> \o old[l[i]], <<l[i]>> \o new[l[i]])
    BY <2>2, WithinConcat
  <2> QED
    BY <2>3, LinkType DEF Link
<1> HIDE DEF L
<1> DEFINE T == {i \in Nat : i \in 0 .. L => Within(g[i], h[i])}
<1>5. 0 \in T
  BY <1>2, <1>3, WithinSelf
<1>6. ASSUME NEW n \in Nat, n # 0, n - 1 \in T PROVE n \in T
  <2> SUFFICES ASSUME n \in 0 .. L PROVE Within(g[n], h[n])
    OBVIOUS
  <2>1. n - 1 \in 0 .. L /\ n \in 1 .. L
    BY <1>1, <1>6
  <2> DEFINE a == g[n - 1]
             b == h[n - 1]
             c == Link(l, old, n)
             d == Link(l, new, n)
  <2>2. /\ a \in Seq(X) /\ b \in Seq(X) /\ Within(a, b)
        /\ c \in Seq(X) /\ d \in Seq(X) /\ Within(c, d)
        /\ g[n] = a \o c /\ h[n] = b \o d
    BY <1>2, <1>3, <1>4, <1>6, <2>1
  <2> HIDE DEF a, b, c, d
  <2> QED
    BY <2>2, WithinConcat
<1>7. L \in T
  <2> HIDE DEF T
  <2> QED
    BY <1>1, <1>5, <1>6, Induct DEF T
<1>8. L \in 0 .. L
  BY <1>1
<1> QED
  BY <1>2, <1>3, <1>7, <1>8

(* Nothing is lost of a list when the tables gain syntaxes and the search  *)
(* gains name spaces.                                                      *)
LEMMA ListingGrows ==
  ASSUME NEW X, NEW at1 \in Seq(X), NEW at2 \in Seq(X), NEW t1, NEW t2, NEW k,
         \A x \in X : SyntaxAt(t1, x, k) => SyntaxAt(t2, x, k) /\ t2[x][k] = t1[x][k],
         Within(at1, at2)
  PROVE  Within(Listing(at1, t1, k), Listing(at2, t2, k))
<1> DEFINE M == Len(at1)
           N == Len(at2)
           E == Found(at1, t1, k) \cup Found(at2, t2, k)
           S == Seq(E)
<1>1. /\ M \in Nat /\ N \in Nat /\ DOMAIN at1 = 1 .. M /\ DOMAIN at2 = 1 .. N
      /\ \A i \in 1 .. M : at1[i] \in X
  BY LenProperties, ElementOfSeq
<1>2. /\ \A i \in 1 .. M : SyntaxAt(t1, at1[i], k) => t1[at1[i]][k] \in E
      /\ \A i \in 1 .. N : SyntaxAt(t2, at2[i], k) => t2[at2[i]][k] \in E
  BY DEF Found
<1>3. PICK g : Lists(g, at1, t1, k)
  BY ListingIs
<1>4. PICK h : Lists(h, at2, t2, k)
  BY ListingIs
<1>5. /\ \A i \in 0 .. M : g[i] \in S
      /\ \A i \in 0 .. N : h[i] \in S
  <2>1. \A A, B : \A s \in Seq(A) : s \in Seq(A \cup B) /\ s \in Seq(B \cup A)
    <3> TAKE A, B
    <3> TAKE s \in Seq(A)
    <3>1. s \in [1 .. Len(s) -> A] /\ Len(s) \in Nat
      BY LenProperties
    <3>2. s \in [1 .. Len(s) -> A \cup B] /\ s \in [1 .. Len(s) -> B \cup A]
      BY <3>1
    <3> QED
      BY <3>1, <3>2, SeqDef
  <2> DEFINE A == Found(at1, t1, k)
             B == Found(at2, t2, k)
  <2>2. g \in [0 .. M -> Seq(A)] /\ h \in [0 .. N -> Seq(B)]
    BY <1>3, <1>4 DEF Lists
  <2> HIDE DEF A, B, M, N
  <2>3. /\ \A i \in 0 .. M : g[i] \in Seq(A \cup B)
        /\ \A i \in 0 .. N : h[i] \in Seq(A \cup B)
    BY <2>1, <2>2
  <2> QED
    BY <2>3 DEF A, B
<1> DEFINE Embeds(f, a, b) ==
             /\ f \in [1 .. a -> 1 .. b]
             /\ \A i \in 1 .. a : at2[f[i]] = at1[i]
             /\ \A i, j \in 1 .. a : i < j => f[i] < f[j]
           T == {b \in Nat : b <= N =>
                   \A a \in 0 .. M : \A f : Embeds(f, a, b) => Within(g[a], h[b])}
<1>6. /\ g[0] = <<>> /\ Listing(at1, t1, k) = g[M]
      /\ \A i \in 1 .. M :
           g[i] = IF SyntaxAt(t1, at1[i], k) THEN Append(g[i - 1], t1[at1[i]][k]) ELSE g[i - 1]
  BY <1>3 DEF Lists
<1>7. /\ h[0] = <<>> /\ Listing(at2, t2, k) = h[N]
      /\ \A i \in 1 .. N :
           h[i] = IF SyntaxAt(t2, at2[i], k) THEN Append(h[i - 1], t2[at2[i]][k]) ELSE h[i - 1]
  BY <1>4 DEF Lists
<1> HIDE DEF M, N, E, S
<1>8. 0 \in T
  <2> SUFFICES ASSUME NEW a \in 0 .. M, NEW f, Embeds(f, a, 0) PROVE Within(g[a], h[0])
    OBVIOUS
  <2>1. a = 0
    BY <1>1
  <2> QED
    BY <1>6, <2>1, WithinSelf
<1>9. ASSUME NEW b \in Nat, b # 0, b - 1 \in T PROVE b \in T
  <2> SUFFICES ASSUME b <= N, NEW a \in 0 .. M, NEW f, Embeds(f, a, b)
               PROVE  Within(g[a], h[b])
    OBVIOUS
  <2>1. b \in 1 .. N /\ b - 1 \in 0 .. N /\ b - 1 <= N /\ b - 1 \in Nat
    BY <1>1, <1>9
  <2>2. \A c \in 0 .. M : \A e : Embeds(e, c, b - 1) => Within(g[c], h[b - 1])
    BY <1>9, <2>1
  <2>3. h[b] = IF SyntaxAt(t2, at2[b], k) THEN Append(h[b - 1], t2[at2[b]][k]) ELSE h[b - 1]
    BY <1>7, <2>1
  <2>4. h[b - 1] \in S
    BY <1>5, <2>1
  <2>5. ASSUME NEW c \in 0 .. M, Within(g[c], h[b - 1]) PROVE Within(g[c], h[b])
    <3>1. g[c] \in S
      BY <1>5
    <3>2. CASE SyntaxAt(t2, at2[b], k)
      <4> DEFINE e == t2[at2[b]][k]
                 s == g[c]
                 u == h[b - 1]
      <4>1. e \in E /\ s \in Seq(E) /\ u \in Seq(E) /\ Within(s, u) /\ h[b] = Append(u, e)
        BY <1>2, <2>1, <2>3, <2>4, <2>5, <3>1, <3>2 DEF S
      <4> HIDE DEF e, s, u
      <4>2. Within(s, h[b])
        BY <4>1, WithinLonger
      <4> QED
        BY <4>2 DEF s
    <3>3. CASE ~ SyntaxAt(t2, at2[b], k)
      BY <2>3, <2>5, <3>3
    <3> QED
      BY <3>2, <3>3
  <2>6. CASE a = 0
    BY <1>6, <2>6, WithinSelf
  <2>7. CASE a # 0 /\ f[a] # b
    <3>1. \A i \in 1 .. a : f[i] \in 1 .. b - 1
      <4>1. a \in 1 .. a /\ f[a] \in 1 .. b - 1
        BY <1>1, <1>9, <2>7
      <4>2. ASSUME NEW i \in 1 .. a PROVE f[i] \in 1 .. b - 1
        <5>1. i = a \/ i < a
          BY <1>1
        <5>2. i < a => f[i] < f[a]
          BY <4>1
        <5> QED
          BY <4>1, <5>1, <5>2
      <4> QED
        BY <4>2
    <3>2. Embeds(f, a, b - 1)
      BY <3>1
    <3> HIDE DEF Embeds
    <3> QED
      BY <2>2, <2>5, <3>2
  <2>8. CASE a # 0 /\ f[a] = b
    <3> DEFINE e == [i \in 1 .. a - 1 |-> f[i]]
    <3>1. /\ a \in 1 .. M /\ a - 1 \in 0 .. M /\ a \in 1 .. a
          /\ \A i \in 1 .. a - 1 : i \in 1 .. a /\ i < a
      BY <1>1, <2>8
    <3>2. \A i \in 1 .. a - 1 : f[i] \in 1 .. b - 1
      <4>1. ASSUME NEW i \in 1 .. a - 1 PROVE f[i] \in 1 .. b - 1
        <5>1. f[i] < b /\ f[i] \in 1 .. b
          BY <2>8, <3>1
        <5> QED
          BY <1>9, <5>1
      <4> QED
        BY <4>1
    <3>3. Embeds(e, a - 1, b - 1)
      BY <3>1, <3>2
    <3>4. at2[b] = at1[a]
      BY <2>8, <3>1
    <3> HIDE DEF Embeds, e
    <3>5. Within(g[a - 1], h[b - 1])
      BY <2>2, <3>1, <3>3
    <3>6. g[a] = IF SyntaxAt(t1, at1[a], k) THEN Append(g[a - 1], t1[at1[a]][k]) ELSE g[a - 1]
      BY <1>6, <3>1
    <3>7. g[a - 1] \in S /\ at1[a] \in X
      BY <1>1, <1>5, <3>1
    <3>8. CASE SyntaxAt(t1, at1[a], k)
      <4> DEFINE v == t1[at1[a]][k]
                 s == g[a - 1]
                 u == h[b - 1]
      <4>1. SyntaxAt(t2, at2[b], k) /\ t2[at2[b]][k] = v
        BY <3>4, <3>7, <3>8
      <4>2. /\ v \in E /\ s \in Seq(E) /\ u \in Seq(E) /\ Within(s, u)
            /\ g[a] = Append(s, v) /\ h[b] = Append(u, v)
        BY <1>2, <2>3, <2>4, <3>1, <3>5, <3>6, <3>7, <3>8, <4>1 DEF S
      <4> HIDE DEF v, s, u
      <4> QED
        BY <4>2, WithinLonger
    <3>9. CASE ~ SyntaxAt(t1, at1[a], k)
      <4>1. Within(g[a - 1], h[b])
        BY <2>5, <3>1, <3>5
      <4> QED
        BY <3>6, <3>9, <4>1
    <3> QED
      BY <3>8, <3>9
  <2> QED
    BY <2>6, <2>7, <2>8
<1>10. PICK f : Embeds(f, M, N)
  BY <1>1 DEF Within
<1>11. N \in T
  <2> HIDE DEF T
  <2> QED
    BY <1>1, <1>8, <1>9, Induct DEF T
<1>12. M \in 0 .. M /\ N <= N
  BY <1>1
<1>13. Within(g[M], h[N])
  <2> HIDE DEF Embeds
  <2> QED
    BY <1>10, <1>11, <1>12
<1> QED
  BY <1>6, <1>7, <1>13

(* The list begins with the syntax that the first name space has.          *)
LEMMA ListingHead ==
  ASSUME NEW X, NEW at \in Seq(X), at # <<>>, NEW t, NEW k, SyntaxAt(t, at[1], k)
  PROVE  Listing(at, t, k) # <<>> /\ Listing(at, t, k)[1] = t[at[1]][k]
<1> DEFINE L == Len(at)
           E == Found(at, t, k)
           v == t[at[1]][k]
<1>1. L \in Nat /\ L # 0 /\ \A i \in 1 .. L : SyntaxAt(t, at[i], k) => t[at[i]][k] \in E
  BY LenProperties, EmptySeq DEF Found
<1>2. PICK g : /\ g \in [0 .. L -> Seq(E)] /\ g[0] = <<>>
               /\ \A i \in 1 .. L :
                    g[i] = IF SyntaxAt(t, at[i], k) THEN Append(g[i - 1], t[at[i]][k])
                           ELSE g[i - 1]
               /\ Listing(at, t, k) = g[L]
  BY ListingIs DEF Lists
<1> DEFINE T == {i \in Nat : i \in 1 .. L => Len(g[i]) # 0 /\ g[i][1] = v}
<1> HIDE DEF L, E
<1>3. 0 \in T
  OBVIOUS
<1>4. ASSUME NEW n \in Nat, n # 0, n - 1 \in T PROVE n \in T
  <2> SUFFICES ASSUME n \in 1 .. L PROVE Len(g[n]) # 0 /\ g[n][1] = v
    OBVIOUS
  <2> DEFINE s == g[n - 1]
             e == t[at[n]][k]
  <2>1. n - 1 \in 0 .. L
    BY <1>1, <1>4
  <2>2. /\ s \in Seq(E)
        /\ SyntaxAt(t, at[n], k) => e \in E /\ g[n] = Append(s, e)
        /\ ~ SyntaxAt(t, at[n], k) => g[n] = s
    BY <1>1, <1>2, <2>1
  <2>3. n # 1 => Len(s) # 0 /\ s[1] = v
    <3>1. n # 1 => n - 1 \in 1 .. L
      BY <1>1, <2>1
    <3> QED
      BY <1>4, <3>1
  <2>4. n = 1 => s = <<>> /\ e = v /\ SyntaxAt(t, at[n], k)
    BY <1>2
  <2> HIDE DEF s, e, v
  <2>5. Len(s) \in Nat /\ (s = <<>> => Len(s) = 0)
    BY <2>2, LenProperties
  <2>6. CASE SyntaxAt(t, at[n], k)
    <3>1. /\ Len(Append(s, e)) = Len(s) + 1
          /\ \A i \in 1 .. Len(s) : Append(s, e)[i] = s[i]
          /\ Append(s, e)[Len(s) + 1] = e
      BY <2>2, <2>6, AppendProperties
    <3>2. CASE n = 1
      BY <2>2, <2>4, <2>5, <2>6, <3>1, <3>2
    <3>3. CASE n # 1
      <4>1. 1 \in 1 .. Len(s)
        BY <2>3, <2>5, <3>3
      <4> QED
        BY <2>2, <2>3, <2>5, <2>6, <3>1, <3>3, <4>1
    <3> QED
      BY <3>2, <3>3
  <2>7. CASE ~ SyntaxAt(t, at[n], k)
    BY <2>2, <2>3, <2>4, <2>7
  <2> QED
    BY <2>6, <2>7
<1>5. L \in T
  <2> HIDE DEF T
  <2> QED
    BY <1>1, <1>3, <1>4, Induct DEF T
<1>6. L \in 1 .. L
  BY <1>1
<1>7. Len(g[L]) # 0 /\ g[L][1] = v
  BY <1>5, <1>6
<1>8. g[L] # <<>>
  BY <1>7
<1> QED
  BY <1>2, <1>7, <1>8

----------------------------------------------------------------------------
(* The tables and the lists of the name spaces.                            *)

Syntax == {v \in Value : v.type = "Syntax"}
Tables == UNION {[D -> Value] : D \in SUBSET Key}
ListTables == UNION {[D -> Seq(Syntax)] : D \in SUBSET Keyword}

SpacesType ==
  /\ constTable \in [NameSpaces -> Tables]
  /\ NameSpaceConstList \in [NameSpaces -> SUBSET Value]
  /\ importedNameSpaceList \in [NameSpaces -> Seq(NameSpaces)]
  /\ syntaxList \in [NameSpaces -> ListTables]

(* A syntax is nowhere before it is in the table of its own name space.    *)
OwnInv ==
  \A n \in NameSpaces : \A k \in DOMAIN constTable[n] :
    LET v == constTable[n][k]
    IN  v.type = "Syntax" => v.key \in DOMAIN constTable[v.ns] /\ constTable[v.ns][v.key] = v

LEMMA TableType ==
  ASSUME NEW t
  PROVE  t \in Tables <=> /\ DOMAIN t \subseteq Key /\ t \in [DOMAIN t -> Value]
BY DEF Tables

LEMMA AlsoBelow ==
  ASSUME NEW t \in Tables, NEW k \in Key, NEW v \in Value
  PROVE  /\ Also(Bind(k, v), t) \in Tables
         /\ DOMAIN Also(Bind(k, v), t) = DOMAIN t \cup {k}
         /\ Also(Bind(k, v), t)[k] = v
         /\ \A j \in DOMAIN t : j # k => Also(Bind(k, v), t)[j] = t[j]
<1> DEFINE u == Also(Bind(k, v), t)
<1>1. /\ DOMAIN u = DOMAIN t \cup {k}
      /\ u[k] = v
      /\ \A j \in DOMAIN t : j # k => u[j] = t[j]
      /\ u = [j \in DOMAIN u |-> u[j]]
  BY DEF Also, Bind
<1>2. DOMAIN t \subseteq Key /\ \A j \in DOMAIN t : t[j] \in Value
  BY TableType
<1> HIDE DEF u
<1>3. \A j \in DOMAIN u : u[j] \in Value
  BY ONLY <1>1, <1>2, v \in Value
<1>4. DOMAIN u \subseteq Key /\ u \in [DOMAIN u -> Value]
  BY ONLY <1>1, <1>2, <1>3, k \in Key
<1>5. u \in Tables
  BY ONLY <1>4, TableType
<1> QED
  BY <1>1, <1>5 DEF u

LEMMA TableExcept ==
  ASSUME NEW t \in Tables, NEW k \in DOMAIN t, NEW v \in Value
  PROVE  [t EXCEPT ![k] = v] \in Tables
<1>1. DOMAIN t \subseteq Key /\ t \in [DOMAIN t -> Value]
  BY TableType
<1>2. [t EXCEPT ![k] = v] \in [DOMAIN t -> Value]
  BY <1>1
<1> QED
  BY <1>1, <1>2, TableType

LEMMA AlsoAbove ==
  ASSUME NEW t \in Tables, NEW k \in Key, NEW v \in Value
  PROVE  /\ Also(t, Bind(k, v)) \in Tables
         /\ DOMAIN Also(t, Bind(k, v)) = DOMAIN t \cup {k}
         /\ \A j \in DOMAIN t : Also(t, Bind(k, v))[j] = t[j]
         /\ k \notin DOMAIN t => Also(t, Bind(k, v))[k] = v
<1> DEFINE u == Also(t, Bind(k, v))
<1>1. /\ DOMAIN u = DOMAIN t \cup {k}
      /\ \A j \in DOMAIN t : u[j] = t[j]
      /\ k \notin DOMAIN t => u[k] = v
      /\ u = [j \in DOMAIN u |-> u[j]]
  BY DEF Also, Bind
<1>2. DOMAIN t \subseteq Key /\ \A j \in DOMAIN t : t[j] \in Value
  BY TableType
<1> HIDE DEF u
<1>3. \A j \in DOMAIN u : u[j] \in Value
  BY ONLY <1>1, <1>2, v \in Value
<1>4. DOMAIN u \subseteq Key /\ u \in [DOMAIN u -> Value]
  BY ONLY <1>1, <1>2, <1>3, k \in Key
<1>5. u \in Tables
  BY ONLY <1>4, TableType
<1> QED
  BY <1>1, <1>5 DEF u

LEMMA MadeType ==
  ASSUME NEW t \in {"Text", "Symbol", "String", "Object", "Syntax", "Array"},
         NEW n \in NameSpaces, NEW k \in Key
  PROVE  /\ Made(t, n, k) \in Value
         /\ Made(t, n, k).type = t /\ Made(t, n, k).ns = n /\ Made(t, n, k).key = k
BY DEF Made, Value

(* What becomes of a table: a text becomes a string, and a new value is    *)
(* kept if it is an object, and is a syntax only if it is new or in use.   *)
Stored(n, k, v) ==
  /\ Boxed(v) => v \in NameSpaceConstList'[n]
  /\ v.type = "Syntax" => v = Made("Syntax", n, k) \/ \E s \in NameSpaces : v \in Syntaxes(s)
TablesStep ==
  /\ constTable' \in [NameSpaces -> Tables]
  /\ NameSpaceConstList' \in [NameSpaces -> SUBSET Value]
  /\ \A n \in NameSpaces :
       /\ NameSpaceConstList[n] \subseteq NameSpaceConstList'[n]
       /\ \A k \in DOMAIN constTable[n] :
            /\ k \in DOMAIN constTable'[n]
            /\ \/ constTable'[n][k] = constTable[n][k]
               \/ constTable[n][k].type = "Text" /\ constTable'[n][k].type = "String"
       /\ \A k \in DOMAIN constTable'[n] :
            \/ k \in DOMAIN constTable[n] /\ constTable'[n][k] = constTable[n][k]
            \/ Stored(n, k, constTable'[n][k])
NoNewKey == \A n \in NameSpaces : DOMAIN constTable'[n] = DOMAIN constTable[n]
OneKey(n, k, v) ==
  \A s \in NameSpaces : \A j \in DOMAIN constTable'[s] :
    \/ j \in DOMAIN constTable[s]
    \/ s = n /\ j = k /\ ~ Defined(n, k) /\ constTable'[s][j] = v

LEMMA AfterLookupStep ==
  ASSUME SpacesType, NEW N, NEW k \in Key, constTable' = AfterLookup(N, k),
         NameSpaceConstList' \in [NameSpaces -> SUBSET Value],
         \A s \in NameSpaces : KeptByLookup(N, k)[s] \subseteq NameSpaceConstList'[s]
  PROVE  TablesStep /\ NoNewKey
<1>1. ASSUME NEW n \in NameSpaces, n \in N, IsText(n, k)
      PROVE  /\ constTable'[n] \in Tables /\ DOMAIN constTable'[n] = DOMAIN constTable[n]
             /\ NameSpaceConstList[n] \subseteq NameSpaceConstList'[n]
             /\ \A j \in DOMAIN constTable[n] :
                  \/ constTable'[n][j] = constTable[n][j]
                  \/ /\ constTable[n][j].type = "Text" /\ constTable'[n][j].type = "String"
                     /\ constTable'[n][j] \in NameSpaceConstList'[n]
  <2> DEFINE t == constTable[n]
             v == Made("String", n, k)
  <2>1. v \in Value /\ v.type = "String"
    BY MadeType
  <2>2. constTable'[n] = [t EXCEPT ![k] = v]
    BY <1>1 DEF AfterLookup
  <2>3. t \in Tables /\ k \in DOMAIN t /\ t[k].type = "Text"
    BY <1>1 DEF IsText, Defined, SpacesType
  <2>4. NameSpaceConstList[n] \cup {v} \subseteq NameSpaceConstList'[n]
    BY <1>1 DEF KeptByLookup
  <2>5. constTable'[n] \in Tables
    <3> HIDE DEF t, v
    <3>1. [t EXCEPT ![k] = v] \in Tables
      BY ONLY <2>1, <2>3, k \in Key, TableExcept
    <3> QED
      BY <2>2, <3>1
  <2>6. t \in [DOMAIN t -> Value]
    BY <2>3, TableType
  <2> HIDE DEF v
  <2>7. DOMAIN constTable'[n] = DOMAIN t /\ constTable'[n][k] = v
    BY <2>2, <2>3, <2>6
  <2>8. \A j \in DOMAIN t : j # k => constTable'[n][j] = t[j]
    BY <2>2, <2>6
  <2> QED
    BY <2>1, <2>3, <2>4, <2>5, <2>7, <2>8
<1>2. ASSUME NEW n \in NameSpaces, ~ (n \in N /\ IsText(n, k))
      PROVE  /\ constTable'[n] = constTable[n]
             /\ NameSpaceConstList[n] \subseteq NameSpaceConstList'[n]
  BY <1>2 DEF AfterLookup, KeptByLookup
<1>3. constTable' \in [NameSpaces -> Tables]
  <2>1. constTable' = [n \in NameSpaces |-> constTable'[n]]
    BY DEF AfterLookup
  <2>2. \A n \in NameSpaces : constTable'[n] \in Tables
    BY <1>1, <1>2 DEF SpacesType
  <2> QED
    BY <2>1, <2>2
<1>4. NoNewKey
  BY <1>1, <1>2 DEF NoNewKey
<1>5. ASSUME NEW n \in NameSpaces
      PROVE  /\ NameSpaceConstList[n] \subseteq NameSpaceConstList'[n]
             /\ \A j \in DOMAIN constTable[n] :
                  \/ constTable'[n][j] = constTable[n][j]
                  \/ /\ constTable[n][j].type = "Text" /\ constTable'[n][j].type = "String"
                     /\ constTable'[n][j] \in NameSpaceConstList'[n]
  BY <1>1, <1>2
<1>6. ASSUME NEW n \in NameSpaces, NEW j \in DOMAIN constTable'[n]
      PROVE  \/ j \in DOMAIN constTable[n] /\ constTable'[n][j] = constTable[n][j]
             \/ Stored(n, j, constTable'[n][j])
  BY <1>4, <1>5 DEF NoNewKey, Stored
<1> QED
  BY <1>3, <1>4, <1>5, <1>6 DEF TablesStep, NoNewKey

LEMMA SetStep ==
  ASSUME SpacesType, NEW n \in NameSpaces, NEW k \in Key, NEW v \in Value,
         SetConstData(n, k, v),
         v.type = "Syntax" => v = Made("Syntax", n, k) \/ \E s \in NameSpaces : v \in Syntaxes(s)
  PROVE  TablesStep /\ OneKey(n, k, v)
<1>1. CASE Defined(n, k)
  <2>1. constTable' = AfterLookup({n}, k) /\ NameSpaceConstList' = KeptByLookup({n}, k)
    BY <1>1 DEF SetConstData, Lookup
  <2>2. NameSpaceConstList' \in [NameSpaces -> SUBSET Value]
    BY <2>1, MadeType DEF KeptByLookup, SpacesType
  <2>3. TablesStep /\ NoNewKey
    BY <2>1, <2>2, AfterLookupStep
  <2> QED
    BY <2>3 DEF NoNewKey, OneKey
<1>2. CASE ~ Defined(n, k)
  <2> DEFINE t == constTable[n]
             u == Also(Bind(k, v), t)
  <2>1. /\ constTable' = [constTable EXCEPT ![n] = u]
        /\ NameSpaceConstList' = [NameSpaceConstList EXCEPT ![n] = @ \cup Held(v)]
    BY <1>2 DEF SetConstData
  <2>2. t \in Tables /\ k \notin DOMAIN t
    BY <1>2 DEF SpacesType, Defined
  <2>3. /\ u \in Tables /\ DOMAIN u = DOMAIN t \cup {k} /\ u[k] = v
        /\ \A j \in DOMAIN t : u[j] = t[j]
    <3> HIDE DEF t
    <3>1. /\ Also(Bind(k, v), t) \in Tables /\ DOMAIN Also(Bind(k, v), t) = DOMAIN t \cup {k}
          /\ Also(Bind(k, v), t)[k] = v
          /\ \A j \in DOMAIN t : j # k => Also(Bind(k, v), t)[j] = t[j]
      BY <2>2, AlsoBelow
    <3> QED
      BY <2>2, <3>1
  <2> HIDE DEF u
  <2>4. /\ constTable' \in [NameSpaces -> Tables] /\ constTable'[n] = u
        /\ \A s \in NameSpaces : s # n => constTable'[s] = constTable[s]
    BY <2>1, <2>3 DEF SpacesType
  <2>5. /\ NameSpaceConstList' \in [NameSpaces -> SUBSET Value]
        /\ \A s \in NameSpaces : NameSpaceConstList[s] \subseteq NameSpaceConstList'[s]
        /\ Boxed(v) => v \in NameSpaceConstList'[n]
    BY <2>1 DEF SpacesType, Held
  <2>6. Stored(n, k, v)
    BY <2>5 DEF Stored
  <2>7. OneKey(n, k, v)
    BY <1>2, <2>3, <2>4 DEF OneKey
  <2>8. ASSUME NEW s \in NameSpaces
        PROVE  /\ \A j \in DOMAIN constTable[s] :
                    j \in DOMAIN constTable'[s] /\ constTable'[s][j] = constTable[s][j]
               /\ \A j \in DOMAIN constTable'[s] :
                    \/ j \in DOMAIN constTable[s] /\ constTable'[s][j] = constTable[s][j]
                    \/ Stored(s, j, constTable'[s][j])
    <3>1. CASE s = n
      BY <2>3, <2>4, <2>6, <3>1
    <3>2. CASE s # n
      BY <2>4, <3>2
    <3> QED
      BY <3>1, <3>2
  <2> QED
    BY <2>4, <2>5, <2>7, <2>8 DEF TablesStep
<1> QED
  BY <1>1, <1>2

LEMMA LoadStep ==
  ASSUME SpacesType, NEW n \in NameSpaces, NEW k \in Key, NEW v \in Value,
         LoadConstData(n, Bind(k, v)), v.type # "Syntax"
  PROVE  TablesStep /\ OneKey(n, k, v)
<1> DEFINE t == constTable[n]
           u == Also(t, Bind(k, v))
<1>1. /\ constTable' = [constTable EXCEPT ![n] = u]
      /\ NameSpaceConstList' = [NameSpaceConstList EXCEPT ![n] = @ \cup Held(v)]
  <2>1. {Held(Bind(k, v)[j]) : j \in DOMAIN Bind(k, v)} = {Held(v)}
    BY DEF Bind
  <2>2. UNION {Held(Bind(k, v)[j]) : j \in DOMAIN Bind(k, v)} = Held(v)
    BY <2>1
  <2> QED
    BY <2>2 DEF LoadConstData
<1>2. t \in Tables
  BY DEF SpacesType
<1>3. /\ u \in Tables /\ DOMAIN u = DOMAIN t \cup {k}
      /\ k \notin DOMAIN t => u[k] = v
      /\ \A j \in DOMAIN t : u[j] = t[j]
  <2> HIDE DEF t
  <2>1. Also(t, Bind(k, v)) \in Tables /\ DOMAIN Also(t, Bind(k, v)) = DOMAIN t \cup {k}
    BY ONLY <1>2, k \in Key, v \in Value, AlsoAbove
  <2>2. k \notin DOMAIN t => Also(t, Bind(k, v))[k] = v
    BY ONLY <1>2, k \in Key, v \in Value, AlsoAbove
  <2>3. \A j \in DOMAIN t : Also(t, Bind(k, v))[j] = t[j]
    BY ONLY <1>2, k \in Key, v \in Value, AlsoAbove
  <2> QED
    BY <2>1, <2>2, <2>3
<1> HIDE DEF u
<1>4. /\ constTable' \in [NameSpaces -> Tables] /\ constTable'[n] = u
      /\ \A s \in NameSpaces : s # n => constTable'[s] = constTable[s]
  BY <1>1, <1>3 DEF SpacesType
<1>5. /\ NameSpaceConstList' \in [NameSpaces -> SUBSET Value]
      /\ \A s \in NameSpaces : NameSpaceConstList[s] \subseteq NameSpaceConstList'[s]
      /\ Boxed(v) => v \in NameSpaceConstList'[n]
  BY <1>1 DEF SpacesType, Held
<1>6. Stored(n, k, v)
  BY <1>5 DEF Stored
<1>7. OneKey(n, k, v)
  BY <1>3, <1>4 DEF OneKey, Defined
<1>8. ASSUME NEW s \in NameSpaces
      PROVE  /\ \A j \in DOMAIN constTable[s] :
                  j \in DOMAIN constTable'[s] /\ constTable'[s][j] = constTable[s][j]
             /\ \A j \in DOMAIN constTable'[s] :
                  \/ j \in DOMAIN constTable[s] /\ constTable'[s][j] = constTable[s][j]
                  \/ Stored(s, j, constTable'[s][j])
  <2>1. CASE s = n
    BY <1>3, <1>4, <1>6, <2>1
  <2>2. CASE s # n
    BY <1>4, <2>2
  <2> QED
    BY <2>1, <2>2
<1> QED
  BY <1>4, <1>5, <1>7, <1>8 DEF TablesStep

(* What becomes of a list: it is emptied, or stays, and then its name      *)
(* space does not gain a syntax of the keyword of its own, or is filled    *)
(* and kept.                                                               *)
GainsOwn(n, k) ==
  /\ k \notin DOMAIN constTable[n] /\ k \in DOMAIN constTable'[n]
  /\ constTable'[n][k] = Made("Syntax", n, k)
Filled(n, k) ==
  /\ syntaxList'[n][k] = ListSyntax(n, k)
  /\ Made("Array", n, k) \in NameSpaceConstList'[n]
  /\ DOMAIN constTable'[n] = DOMAIN constTable[n]
ListsStep ==
  /\ syntaxList' \in [NameSpaces -> ListTables]
  /\ \A n \in NameSpaces : \A k \in DOMAIN syntaxList'[n] :
       \/ k \in DOMAIN syntaxList[n] /\ syntaxList'[n][k] = <<>>
       \/ /\ k \in DOMAIN syntaxList[n] /\ syntaxList'[n][k] = syntaxList[n][k]
          /\ ~ GainsOwn(n, k)
       \/ Filled(n, k)
SpacesStep ==
  /\ TablesStep
  /\ ListsStep
  /\ UNCHANGED importedNameSpaceList

LEMMA ListTableType ==
  ASSUME NEW t
  PROVE  t \in ListTables <=> DOMAIN t \subseteq Keyword /\ t \in [DOMAIN t -> Seq(Syntax)]
BY DEF ListTables

LEMMA ResetStep ==
  ASSUME SpacesType, NEW n \in NameSpaces, NEW K, ResetSyntaxList(n, K)
  PROVE  /\ syntaxList' \in [NameSpaces -> ListTables]
         /\ \A s \in NameSpaces : \A j \in DOMAIN syntaxList'[s] :
              /\ j \in DOMAIN syntaxList[s]
              /\ \/ syntaxList'[s][j] = <<>>
                 \/ syntaxList'[s][j] = syntaxList[s][j] /\ ~ (s = n /\ j \in K)
<1> DEFINE t == syntaxList[n]
           u == [k \in DOMAIN t |-> IF k \in K THEN <<>> ELSE t[k]]
<1>1. syntaxList' = [syntaxList EXCEPT ![n] = u]
  BY DEF ResetSyntaxList
<1>2. t \in ListTables /\ <<>> \in Seq(Syntax)
  BY DEF SpacesType
<1>3. DOMAIN t \subseteq Keyword /\ t \in [DOMAIN t -> Seq(Syntax)]
  BY <1>2, ListTableType
<1>4. u \in [DOMAIN t -> Seq(Syntax)] /\ DOMAIN u = DOMAIN t
  BY <1>2, <1>3
<1>5. \A j \in DOMAIN t : u[j] = IF j \in K THEN <<>> ELSE t[j]
  OBVIOUS
<1> HIDE DEF u
<1>6. u \in ListTables
  BY <1>3, <1>4, ListTableType
<1>7. syntaxList' \in [NameSpaces -> ListTables]
  BY <1>1, <1>6 DEF SpacesType
<1>8. \A s \in NameSpaces : syntaxList'[s] = IF s = n THEN u ELSE syntaxList[s]
  BY <1>1 DEF SpacesType
<1> QED
  BY <1>4, <1>5, <1>7, <1>8

(* A search stays within the name spaces, and begins with its own.         *)
LEMMA SearchedType ==
  ASSUME SpacesType, NEW n \in NameSpaces
  PROVE  /\ Searched(n) = Chain(Lineage[n], importedNameSpaceList)
         /\ Searched(n) \in Seq(NameSpaces) /\ Searched(n) # <<>> /\ Searched(n)[1] = n
<1>1. Searched(n) = Chain(Lineage[n], importedNameSpaceList)
  BY DEF Searched, Chain
<1>2. Lineage[n] \in Seq(NameSpaces) /\ Lineage[n] # <<>> /\ Lineage[n][1] = n
  BY LineageAssumption
<1> DEFINE l == Lineage[n]
<1>3. importedNameSpaceList \in [NameSpaces -> Seq(NameSpaces)]
  BY DEF SpacesType
<1>4. l \in Seq(NameSpaces) /\ l # <<>> /\ l[1] = n
  BY <1>2
<1> HIDE DEF l
<1>5. /\ Chain(l, importedNameSpaceList) \in Seq(NameSpaces)
      /\ Chain(l, importedNameSpaceList) # <<>> /\ Chain(l, importedNameSpaceList)[1] = l[1]
  BY <1>3, <1>4, ChainType
<1> QED
  BY <1>1, <1>4, <1>5 DEF l

LEMMA ListSyntaxIs ==
  ASSUME NEW n, NEW k
  PROVE  ListSyntax(n, k) = Listing(Searched(n), constTable, k)
BY DEF ListSyntax, Listing, IsSyntax, SyntaxAt, Defined

LEMMA SequenceInto ==
  ASSUME NEW A, NEW B, A \subseteq B, NEW s \in Seq(A)
  PROVE  s \in Seq(B)
<1>1. s \in [1 .. Len(s) -> A] /\ Len(s) \in Nat
  BY LenProperties
<1>2. s \in [1 .. Len(s) -> B]
  BY <1>1
<1> QED
  BY <1>1, <1>2, SeqDef

LEMMA ListSyntaxType ==
  ASSUME SpacesType, NEW n \in NameSpaces, NEW k
  PROVE  ListSyntax(n, k) \in Seq(Syntax)
<1> DEFINE at == Searched(n)
           E == Found(at, constTable, k)
<1>1. at \in Seq(NameSpaces) /\ Len(at) \in Nat /\ \A i \in 1 .. Len(at) : at[i] \in NameSpaces
  BY SearchedType, LenProperties, ElementOfSeq
<1>2. ASSUME NEW v \in E PROVE v \in Syntax
  <2>1. PICK i \in 1 .. Len(at) : SyntaxAt(constTable, at[i], k) /\ v = constTable[at[i]][k]
    BY <1>2 DEF Found
  <2>2. constTable[at[i]] \in Tables
    BY <1>1, <2>1 DEF SpacesType
  <2>3. constTable[at[i]][k] \in Value /\ constTable[at[i]][k].type = "Syntax"
    BY <2>1, <2>2, TableType DEF SyntaxAt
  <2> QED
    BY <2>1, <2>3 DEF Syntax
<1>3. PICK g : Lists(g, at, constTable, k)
  BY <1>1, ListingIs
<1> HIDE DEF at, E
<1>4. Listing(at, constTable, k) \in Seq(E)
  <2>1. Len(at) \in 0 .. Len(at)
    BY <1>1
  <2> QED
    BY <1>3, <2>1 DEF Lists, E
<1>5. Listing(at, constTable, k) \in Seq(Syntax)
  BY <1>2, <1>4, SequenceInto
<1> QED
  BY <1>5, ListSyntaxIs DEF at

(* A syntax that is stored anew under a key of a name space is its own     *)
(* only if no table had it.                                                *)
LEMMA OwnIsNew ==
  ASSUME OwnInv, NEW n \in NameSpaces, NEW k \in Key, ~ Defined(n, k),
         NEW s \in NameSpaces
  PROVE  Made("Syntax", n, k) \notin Syntaxes(s)
<1> SUFFICES ASSUME Made("Syntax", n, k) \in Syntaxes(s) PROVE FALSE
  OBVIOUS
<1>1. PICK j \in DOMAIN constTable[s] : constTable[s][j] = Made("Syntax", n, k)
  BY DEF Syntaxes
<1>2. /\ Made("Syntax", n, k).type = "Syntax" /\ Made("Syntax", n, k).ns = n
      /\ Made("Syntax", n, k).key = k
  BY DEF Made
<1> QED
  BY <1>1, <1>2 DEF OwnInv, Defined

LEMMA ListsStay ==
  ASSUME SpacesType, UNCHANGED syntaxList,
         \A n \in NameSpaces : \A k \in DOMAIN syntaxList[n] : ~ GainsOwn(n, k)
  PROVE  ListsStep
<1>1. syntaxList' \in [NameSpaces -> ListTables]
  BY DEF SpacesType
<1> QED
  BY <1>1 DEF ListsStep

LEMMA NoGain ==
  ASSUME NoNewKey, NEW n \in NameSpaces, NEW k
  PROVE  ~ GainsOwn(n, k)
BY DEF NoNewKey, GainsOwn

LEMMA StaySpaces ==
  ASSUME SpacesType, UNCHANGED spaces
  PROVE  SpacesStep
<1>1. TablesStep
  BY DEF spaces, SpacesType, TablesStep
<1>2. NoNewKey
  BY DEF spaces, NoNewKey
<1>3. ListsStep
  BY <1>2, NoGain, ListsStay DEF spaces
<1> QED
  BY <1>1, <1>3 DEF SpacesStep, spaces

LEMMA GetConstStep ==
  ASSUME SpacesType, NEW n \in NameSpaces, NEW k \in Key, GetConst(n, k)
  PROVE  SpacesStep
<1> DEFINE N == Holder(n, k)
<1>1. /\ constTable' = AfterLookup(N, k) /\ NameSpaceConstList' = KeptByLookup(N, k)
      /\ UNCHANGED <<importedNameSpaceList, syntaxList>>
  BY DEF GetConst, Lookup
<1> HIDE DEF N
<1>2. NameSpaceConstList' \in [NameSpaces -> SUBSET Value]
  BY <1>1, MadeType DEF KeptByLookup, SpacesType
<1>3. TablesStep /\ NoNewKey
  BY <1>1, <1>2, AfterLookupStep
<1>4. ListsStep
  BY <1>1, <1>3, NoGain, ListsStay
<1> QED
  BY <1>1, <1>3, <1>4 DEF SpacesStep

LEMMA DefineConstStep ==
  ASSUME SpacesType, OwnInv, NEW n \in NameSpaces, NEW k \in Key, NEW v \in Value,
         DefineConst(n, k, v), v.type = "Syntax" => \E s \in NameSpaces : v \in Syntaxes(s)
  PROVE  SpacesStep
<1>1. SetConstData(n, k, v) /\ UNCHANGED <<importedNameSpaceList, syntaxList>>
  BY DEF DefineConst
<1>2. TablesStep /\ OneKey(n, k, v)
  BY <1>1, SetStep
<1>3. ASSUME NEW s \in NameSpaces, NEW j, GainsOwn(s, j) PROVE FALSE
  <2>1. s = n /\ j = k /\ ~ Defined(n, k) /\ v = Made("Syntax", n, k)
    BY <1>2, <1>3 DEF GainsOwn, OneKey
  <2>2. v.type = "Syntax"
    BY <2>1, MadeType
  <2> QED
    BY <2>1, <2>2, OwnIsNew
<1>4. ListsStep
  BY <1>1, <1>3, ListsStay
<1> QED
  BY <1>1, <1>2, <1>4 DEF SpacesStep

LEMMA LoadConstStep ==
  ASSUME SpacesType, NEW n \in NameSpaces, NEW k \in Key, NEW v \in Value,
         LoadConstData(n, Bind(k, v)), v.type # "Syntax"
  PROVE  SpacesStep
<1>1. UNCHANGED <<importedNameSpaceList, syntaxList>>
  BY DEF LoadConstData
<1>2. TablesStep /\ OneKey(n, k, v)
  BY LoadStep
<1>3. ASSUME NEW s \in NameSpaces, NEW j, GainsOwn(s, j) PROVE FALSE
  <2>1. v = Made("Syntax", s, j)
    BY <1>2, <1>3 DEF GainsOwn, OneKey
  <2> QED
    BY <2>1 DEF Made
<1>4. ListsStep
  BY <1>1, <1>3, ListsStay
<1> QED
  BY <1>1, <1>2, <1>4 DEF SpacesStep

(* The lists of K are emptied with what is stored under k.                 *)
LEMMA ResetLists ==
  ASSUME SpacesType, NEW n \in NameSpaces, NEW k, NEW v, OneKey(n, k, v),
         ResetSyntaxList(n, IF Defined(n, k) THEN {} ELSE {k})
  PROVE  ListsStep
<1> DEFINE K == IF Defined(n, k) THEN {} ELSE {k}
<1>1. ResetSyntaxList(n, K)
  OBVIOUS
<1>2. ~ Defined(n, k) => k \in K
  OBVIOUS
<1> HIDE DEF K
<1>3. /\ syntaxList' \in [NameSpaces -> ListTables]
      /\ \A s \in NameSpaces : \A j \in DOMAIN syntaxList'[s] :
           /\ j \in DOMAIN syntaxList[s]
           /\ \/ syntaxList'[s][j] = <<>>
              \/ syntaxList'[s][j] = syntaxList[s][j] /\ ~ (s = n /\ j \in K)
  BY <1>1, ResetStep
<1>4. \A s \in NameSpaces : \A j : GainsOwn(s, j) => s = n /\ j \in K
  BY <1>2 DEF GainsOwn, OneKey
<1> QED
  BY <1>3, <1>4 DEF ListsStep

LEMMA AddSyntaxStep ==
  ASSUME SpacesType, NEW n \in NameSpaces, NEW s \in NameSpaces, NEW syn \in Syntaxes(s),
         AddSyntax(n, syn)
  PROVE  SpacesStep
<1>1. PICK j \in DOMAIN constTable[s] : syn = constTable[s][j]
  BY DEF Syntaxes
<1>2. syn \in Value
  <2>1. constTable[s] \in Tables
    BY DEF SpacesType
  <2> QED
    BY <1>1, <2>1, TableType
<1>3. syn.key \in Key
  BY <1>2 DEF Value
<1>4. /\ SetConstData(n, syn.key, syn) /\ UNCHANGED importedNameSpaceList
      /\ ResetSyntaxList(n, IF Defined(n, syn.key) THEN {} ELSE {syn.key})
  BY DEF AddSyntax
<1>5. TablesStep /\ OneKey(n, syn.key, syn)
  BY <1>2, <1>3, <1>4, SetStep
<1>6. ListsStep
  BY <1>4, <1>5, ResetLists
<1> QED
  BY <1>4, <1>5, <1>6 DEF SpacesStep

LEMMA NewSyntaxStep ==
  ASSUME SpacesType, NEW n \in NameSpaces, NEW k \in Keyword,
         AddSyntax(n, Made("Syntax", n, k))
  PROVE  SpacesStep
<1> DEFINE v == Made("Syntax", n, k)
<1>1. k \in Key /\ v \in Value /\ v.key = k
  BY MadeType DEF Key, Made
<1>2. /\ SetConstData(n, v.key, v) /\ UNCHANGED importedNameSpaceList
      /\ ResetSyntaxList(n, IF Defined(n, v.key) THEN {} ELSE {v.key})
  BY DEF AddSyntax
<1>3. TablesStep /\ OneKey(n, k, v)
  BY <1>1, <1>2, SetStep
<1>4. ListsStep
  BY <1>1, <1>2, <1>3, ResetLists
<1> QED
  BY <1>2, <1>3, <1>4 DEF SpacesStep

LEMMA DefineSyntaxStep ==
  ASSUME SpacesType, NEW n \in NameSpaces, NEW k \in Keyword, DefineSyntax(n, k)
  PROVE  SpacesStep
<1> DEFINE v == Made("Syntax", n, k)
<1>1. k \in Key /\ v \in Value
  BY MadeType DEF Key
<1>2. TablesStep /\ OneKey(n, k, v)
  <2>1. CASE Defined(n, k)
    <3>1. /\ constTable' = AfterLookup({n}, k)
          /\ NameSpaceConstList' = [KeptByLookup({n}, k) EXCEPT ![n] = @ \cup {v}]
      BY <2>1 DEF DefineSyntax
    <3>2. KeptByLookup({n}, k) \in [NameSpaces -> SUBSET Value]
      BY <1>1, MadeType DEF KeptByLookup, SpacesType
    <3> HIDE DEF v
    <3>3. /\ NameSpaceConstList' \in [NameSpaces -> SUBSET Value]
          /\ \A s \in NameSpaces : KeptByLookup({n}, k)[s] \subseteq NameSpaceConstList'[s]
      BY <1>1, <3>1, <3>2
    <3>4. TablesStep /\ NoNewKey
      BY <1>1, <3>1, <3>3, AfterLookupStep
    <3> QED
      BY <3>4 DEF NoNewKey, OneKey
  <2>2. CASE ~ Defined(n, k)
    <3>1. SetConstData(n, k, v)
      BY <2>2 DEF DefineSyntax
    <3> QED
      BY <1>1, <3>1, SetStep
  <2> QED
    BY <2>1, <2>2
<1>3. /\ ResetSyntaxList(n, IF Defined(n, k) THEN {} ELSE {k})
      /\ UNCHANGED importedNameSpaceList
  BY DEF DefineSyntax
<1>4. ListsStep
  BY <1>2, <1>3, ResetLists
<1> QED
  BY <1>2, <1>3, <1>4 DEF SpacesStep

LEMMA RemoveSyntaxStep ==
  ASSUME SpacesType, NEW n \in NameSpaces, NEW k \in Keyword, RemoveSyntax(n, k)
  PROVE  SpacesStep
<1>1. CASE k \notin DOMAIN syntaxList[n]
  BY <1>1, StaySpaces DEF RemoveSyntax
<1>2. CASE k \in DOMAIN syntaxList[n]
  <2> DEFINE v == Made("Symbol", n, k)
  <2>1. k \in Key /\ v \in Value /\ v.type = "Symbol"
    BY MadeType DEF Key
  <2>2. SetConstData(n, k, v) /\ ResetSyntaxList(n, {k}) /\ UNCHANGED importedNameSpaceList
    BY <1>2 DEF RemoveSyntax
  <2> HIDE DEF v
  <2>3. TablesStep /\ OneKey(n, k, v)
    BY <2>1, <2>2, SetStep
  <2>4. \A s \in NameSpaces : \A j : ~ GainsOwn(s, j)
    BY <2>1, <2>3 DEF GainsOwn, OneKey, Made
  <2>5. ListsStep
    BY <2>2, <2>4, ResetStep DEF ListsStep
  <2> QED
    BY <2>2, <2>3, <2>5 DEF SpacesStep
<1> QED
  BY <1>1, <1>2

LEMMA GetSyntaxListStep ==
  ASSUME SpacesType, NEW n \in NameSpaces, NEW k \in Keyword, GetSyntaxList(n, k)
  PROVE  SpacesStep
<1>1. CASE Cached(n, k)
  BY <1>1, StaySpaces DEF GetSyntaxList
<1>2. CASE ~ Cached(n, k)
  <2> DEFINE N == ToSet(Searched(n))
             t == syntaxList[n]
             v == Made("Array", n, k)
             list == ListSyntax(n, k)
  <2>1. k \in Key /\ v \in Value /\ list \in Seq(Syntax)
    BY MadeType, ListSyntaxType DEF Key
  <2>2. Listed(n, k) = <<>>
    BY <1>2 DEF Cached
  <2>3. <<>> \o list = list
    BY <2>1, EmptySeq, ConcatEmptySeq
  <2>4. /\ syntaxList' = [syntaxList EXCEPT ![n] = Also(Bind(k, list), @)]
        /\ constTable' = AfterLookup(N, k)
        /\ NameSpaceConstList' = [KeptByLookup(N, k) EXCEPT ![n] = @ \cup {v}]
        /\ UNCHANGED importedNameSpaceList
    BY <1>2, <2>2, <2>3 DEF GetSyntaxList
  <2>5. KeptByLookup(N, k) \in [NameSpaces -> SUBSET Value]
    BY <2>1, MadeType DEF KeptByLookup, SpacesType
  <2> HIDE DEF N, v, list
  <2>6. /\ NameSpaceConstList' \in [NameSpaces -> SUBSET Value] /\ v \in NameSpaceConstList'[n]
        /\ \A s \in NameSpaces : KeptByLookup(N, k)[s] \subseteq NameSpaceConstList'[s]
    BY <2>1, <2>4, <2>5
  <2>7. TablesStep /\ NoNewKey
    BY <2>1, <2>4, <2>6, AfterLookupStep
  <2>8. DOMAIN t \subseteq Keyword /\ t \in [DOMAIN t -> Seq(Syntax)]
    BY ListTableType DEF SpacesType
  <2> DEFINE u == Also(Bind(k, list), t)
  <2>9. /\ u \in [DOMAIN t \cup {k} -> Seq(Syntax)] /\ u[k] = list
        /\ \A j \in DOMAIN t : j # k => u[j] = t[j]
    BY <2>1, <2>8 DEF Also, Bind
  <2>10. u \in ListTables
    BY <2>8, <2>9, ListTableType
  <2> HIDE DEF u
  <2>11. /\ syntaxList' \in [NameSpaces -> ListTables]
         /\ \A s \in NameSpaces : syntaxList'[s] = IF s = n THEN u ELSE syntaxList[s]
    BY <2>4, <2>10 DEF SpacesType, u
  <2>12. Filled(n, k)
    BY <2>6, <2>7, <2>9, <2>11 DEF Filled, NoNewKey, list, v
  <2>13. ASSUME NEW s \in NameSpaces, NEW j \in DOMAIN syntaxList'[s]
         PROVE  \/ /\ j \in DOMAIN syntaxList[s] /\ syntaxList'[s][j] = syntaxList[s][j]
                   /\ ~ GainsOwn(s, j)
                \/ Filled(s, j)
    <3>1. CASE s = n /\ j = k
      BY <2>12, <3>1
    <3>2. CASE ~ (s = n /\ j = k)
      BY <2>7, <2>8, <2>9, <2>11, <2>13, <3>2, NoGain
    <3> QED
      BY <3>1, <3>2
  <2>14. ListsStep
    BY <2>11, <2>13 DEF ListsStep
  <2> QED
    BY <2>4, <2>7, <2>14 DEF SpacesStep
<1> QED
  BY <1>1, <1>2

(* An import empties lists and lengthens one list of imports.              *)
ImportStep ==
  \E n \in NameSpaces, p \in Package :
    /\ importedNameSpaceList' = [importedNameSpaceList EXCEPT ![n] = Append(@, p)]
    /\ UNCHANGED <<constTable, NameSpaceConstList>>
    /\ ListsStep

LEMMA ImportAllStep ==
  ASSUME SpacesType, NEW n \in NameSpaces, NEW p \in Package, ImportAll(n, p)
  PROVE  SpacesStep \/ ImportStep
<1>1. CASE UNCHANGED spaces
  BY <1>1, StaySpaces
<1>2. CASE ~ UNCHANGED spaces
  <2> DEFINE K == {syn.key : syn \in Syntaxes(p)}
  <2>1. /\ importedNameSpaceList' = [importedNameSpaceList EXCEPT ![n] = Append(@, p)]
        /\ ResetSyntaxList(n, K) /\ UNCHANGED <<constTable, NameSpaceConstList>>
    BY <1>2 DEF ImportAll
  <2> HIDE DEF K
  <2>2. \A s \in NameSpaces : \A j : ~ GainsOwn(s, j)
    BY <2>1 DEF GainsOwn
  <2>3. ListsStep
    BY <2>1, <2>2, ResetStep DEF ListsStep
  <2> QED
    BY <2>1, <2>3 DEF ImportStep
<1> QED
  BY <1>1, <1>2

(* Every action does one of these to the name spaces.                      *)
LEMMA ActionsOnSpaces ==
  ASSUME FramesOK, SpacesType, OwnInv, [Next]_vars
  PROVE  SpacesStep \/ ImportStep
<1> USE LoaderAssumption
<1>1. CASE UNCHANGED spaces
  BY <1>1, StaySpaces
<1>2. Existing \subseteq NameSpaces
  BY ExistingSpaces
<1>3. CASE Parse
  <2>1. PICK k \in Keyword : GetSyntaxList(Top.ns, k)
    BY <1>3 DEF Parse
  <2>2. Top.ns \in NameSpaces
    BY <1>3, TopFrame DEF Parse, At
  <2> QED
    BY <2>1, <2>2, GetSyntaxListStep
<1>4. CASE Call
  <2>1. PICK n \in Existing :
          \/ \E k \in Key : GetConst(n, k)
          \/ \E k \in Keyword : RemoveSyntax(n, k)
          \/ \E k \in Key : \E v \in ConstValue(n, k) : DefineConst(n, k, v)
          \/ \E k \in Keyword : GetSyntaxList(n, k)
          \/ \E k \in Keyword : AddSyntax(n, Made("Syntax", n, k))
          \/ \E s \in Existing : \E syn \in Syntaxes(s) : AddSyntax(n, syn)
    BY <1>4 DEF Call, GetName, Hate, SetConst, NewSyntax, GetList
  <2>2. n \in NameSpaces
    BY <1>2, <2>1
  <2>3. ASSUME NEW k \in Key, NEW v \in ConstValue(n, k)
        PROVE  v \in Value /\ (v.type = "Syntax" => \E s \in NameSpaces : v \in Syntaxes(s))
    <3>1. CASE v = Made("Object", n, k)
      <4>1. v \in Value /\ v.type = "Object"
        BY <2>2, <3>1, MadeType
      <4> QED
        BY <4>1
    <3>2. CASE v # Made("Object", n, k)
      <4>1. PICK s \in Existing : v \in Syntaxes(s)
        BY <2>3, <3>2 DEF ConstValue
      <4>2. PICK j \in DOMAIN constTable[s] : v = constTable[s][j]
        BY <4>1 DEF Syntaxes
      <4>3. s \in NameSpaces /\ constTable[s] \in Tables
        BY <1>2, <4>1 DEF SpacesType
      <4> QED
        BY <4>1, <4>2, <4>3, TableType
    <3> QED
      BY <3>1, <3>2
  <2> QED
    BY <1>2, <2>1, <2>2, <2>3, GetConstStep, RemoveSyntaxStep, DefineConstStep,
       GetSyntaxListStep, AddSyntaxStep, NewSyntaxStep
<1>5. CASE Imported
  <2>1. Top.ns \in NameSpaces /\ Top.pkg \in Package /\ ImportAll(Top.ns, Top.pkg)
    BY <1>5, TopFrame DEF Imported, At
  <2> QED
    BY <2>1, ImportAllStep
<1>6. CASE Export /\ ~ UNCHANGED spaces
  <2>1. PICK k \in ConstName : LoadConstData(Top.ns, Bind(k, Made("Object", Top.pkg, k)))
    BY <1>6 DEF Export
  <2>2. Top.ns \in NameSpaces /\ Top.pkg \in NameSpaces
    BY <1>6, TopFrame DEF Export, At
  <2> DEFINE v == Made("Object", Top.pkg, k)
  <2>3. k \in Key /\ v \in Value /\ v.type # "Syntax"
    BY <2>2, MadeType DEF Key
  <2> HIDE DEF v
  <2>4. LoadConstData(Top.ns, Bind(k, v))
    BY <2>1 DEF v
  <2> QED
    BY <2>2, <2>3, <2>4, LoadConstStep
<1>7. CASE Packup
  <2>1. Top.pkg \in NameSpaces
    BY <1>7, TopFrame DEF Packup, At
  <2>2. CASE \E k \in Keyword : DefineSyntax(Top.pkg, k)
    BY <2>1, <2>2, DefineSyntaxStep
  <2>3. CASE \E k \in ConstName : LoadConstData(Top.pkg, Bind(k, Made("Text", Top.pkg, k)))
    <3>1. PICK k \in ConstName : LoadConstData(Top.pkg, Bind(k, Made("Text", Top.pkg, k)))
      BY <2>3
    <3> DEFINE v == Made("Text", Top.pkg, k)
    <3>2. k \in Key /\ v \in Value /\ v.type # "Syntax"
      BY <2>1, MadeType DEF Key
    <3> HIDE DEF v
    <3>3. LoadConstData(Top.pkg, Bind(k, v))
      BY <3>1 DEF v
    <3> QED
      BY <2>1, <3>2, <3>3, LoadConstStep
  <2> QED
    BY <1>7, <2>2, <2>3 DEF Packup
<1>8. CASE OptionDefine
  <2>1. PICK k \in ConstName : DefineConst(Root, k, Made("Text", Root, k))
    BY <1>8 DEF OptionDefine
  <2> DEFINE v == Made("Text", Root, k)
  <2>2. k \in Key /\ Root \in NameSpaces /\ v \in Value /\ v.type # "Syntax"
    BY MadeType DEF Key
  <2> HIDE DEF v
  <2>3. DefineConst(Root, k, v)
    BY <2>1 DEF v
  <2> QED
    BY <2>2, <2>3, DefineConstStep
<1>9. CASE Raise \/ (\E n : Try(n))
  BY <1>1, <1>9 DEF Raise, Try
<1> QED
  BY <1>1, <1>3, <1>4, <1>5, <1>6, <1>7, <1>8, <1>9
  DEF Next, vars, Statement, EndScript, Return, Fail, Import, Include, LoadPackage, NotFound,
      RecursiveImporting, Required, Kick, PackupImport, PackupFail, PackupEnd, LoadEnd,
      OptionImport, LoadScript, Shell, ShellStatement, End, Halted

LEMMA SpacesTypeNext ==
  ASSUME SpacesType, SpacesStep \/ ImportStep
  PROVE  SpacesType'
<1>1. CASE SpacesStep
  BY <1>1 DEF SpacesStep, SpacesType, TablesStep, ListsStep
<1>2. CASE ImportStep
  <2>1. PICK n \in NameSpaces, p \in Package :
          /\ importedNameSpaceList' = [importedNameSpaceList EXCEPT ![n] = Append(@, p)]
          /\ UNCHANGED <<constTable, NameSpaceConstList>>
          /\ ListsStep
    BY <1>2 DEF ImportStep
  <2>2. Append(importedNameSpaceList[n], p) \in Seq(NameSpaces)
    BY LoaderAssumption, AppendProperties DEF SpacesType
  <2>3. importedNameSpaceList' \in [NameSpaces -> Seq(NameSpaces)]
    BY <2>1, <2>2 DEF SpacesType
  <2> QED
    BY <2>1, <2>3 DEF SpacesType, ListsStep
<1> QED
  BY <1>1, <1>2

LEMMA OwnNext ==
  ASSUME SpacesType, OwnInv, SpacesStep \/ ImportStep
  PROVE  OwnInv'
<1>1. CASE ImportStep
  BY <1>1 DEF ImportStep, OwnInv
<1>2. CASE SpacesStep
  <2> SUFFICES ASSUME NEW n \in NameSpaces, NEW k \in DOMAIN constTable'[n],
                      NEW v, v = constTable'[n][k], v.type = "Syntax"
               PROVE  v.key \in DOMAIN constTable'[v.ns] /\ constTable'[v.ns][v.key] = v
    BY DEF OwnInv
  <2>1. TablesStep
    BY <1>2 DEF SpacesStep
  <2>2. ASSUME NEW s \in NameSpaces, v \in Syntaxes(s)
        PROVE  v.key \in DOMAIN constTable'[v.ns] /\ constTable'[v.ns][v.key] = v
    <3>1. PICK j \in DOMAIN constTable[s] : v = constTable[s][j]
      BY <2>2 DEF Syntaxes
    <3>2. v.key \in DOMAIN constTable[v.ns] /\ constTable[v.ns][v.key] = v
      BY <3>1 DEF OwnInv
    <3>3. v.ns \in NameSpaces
      <4>1. constTable[s] \in Tables
        BY DEF SpacesType
      <4>2. v \in Value
        BY <3>1, <4>1, TableType
      <4> QED
        BY <4>2 DEF Value
    <3> QED
      BY <2>1, <3>2, <3>3 DEF TablesStep
  <2>3. CASE k \in DOMAIN constTable[n] /\ v = constTable[n][k]
    <3>1. v \in Syntaxes(n)
      BY <2>3 DEF Syntaxes, IsSyntax, Defined
    <3> QED
      BY <2>2, <3>1
  <2>4. CASE Stored(n, k, v)
    <3>1. CASE v = Made("Syntax", n, k)
      <4>1. v.ns = n /\ v.key = k
        BY <3>1 DEF Made
      <4> QED
        BY <4>1
    <3>2. CASE \E s \in NameSpaces : v \in Syntaxes(s)
      BY <2>2, <3>2
    <3> QED
      BY <2>4, <3>1, <3>2 DEF Stored
  <2> QED
    BY <2>1, <2>3, <2>4 DEF TablesStep
<1> QED
  BY <1>1, <1>2

LEMMA KeptNext ==
  ASSUME SpacesType, ConstsKept, SpacesStep \/ ImportStep
  PROVE  ConstsKept'
<1> SUFFICES ASSUME NEW n \in NameSpaces
             PROVE  /\ \A k \in DOMAIN constTable'[n] : Boxed(constTable'[n][k]) =>
                         constTable'[n][k] \in NameSpaceConstList'[n]
                    /\ \A k \in DOMAIN syntaxList'[n] :
                         Made("Array", n, k) \in NameSpaceConstList'[n]
  BY DEF ConstsKept
<1>1. NameSpaceConstList[n] \subseteq NameSpaceConstList'[n]
  BY DEF SpacesStep, ImportStep, TablesStep
<1>2. ASSUME NEW k \in DOMAIN constTable'[n], Boxed(constTable'[n][k])
      PROVE  constTable'[n][k] \in NameSpaceConstList'[n]
  <2>1. \/ k \in DOMAIN constTable[n] /\ constTable'[n][k] = constTable[n][k]
        \/ Stored(n, k, constTable'[n][k])
    BY DEF SpacesStep, ImportStep, TablesStep
  <2>2. CASE Stored(n, k, constTable'[n][k])
    BY <1>2, <2>2 DEF Stored
  <2>3. CASE k \in DOMAIN constTable[n] /\ constTable'[n][k] = constTable[n][k]
    BY <1>1, <1>2, <2>3 DEF ConstsKept
  <2> QED
    BY <2>1, <2>2, <2>3
<1>3. ASSUME NEW k \in DOMAIN syntaxList'[n]
      PROVE  Made("Array", n, k) \in NameSpaceConstList'[n]
  <2>1. k \in DOMAIN syntaxList[n] \/ Filled(n, k)
    BY DEF SpacesStep, ImportStep, ListsStep
  <2> QED
    BY <1>1, <2>1 DEF ConstsKept, Filled
<1> QED
  BY <1>2, <1>3

(* What a search finds is found by the next one, in the same order.        *)
LEMMA SearchGrows ==
  ASSUME SpacesType, SpacesStep \/ ImportStep, NEW n \in NameSpaces, NEW k
  PROVE  Within(ListSyntax(n, k), ListSyntax(n, k)')
<1> DEFINE l == Lineage[n]
           imports == importedNameSpaceList
           at1 == Searched(n)
           at2 == Searched(n)'
<1>1. SpacesType'
  BY SpacesTypeNext
<1>2. at1 = Chain(l, imports) /\ at1 \in Seq(NameSpaces)
  BY SearchedType
<1>3. at2 = Chain(l, imports')
  BY DEF Searched, Chain
<1>4. l \in Seq(NameSpaces) /\ l # <<>>
  BY LineageAssumption
<1>5. imports \in [NameSpaces -> Seq(NameSpaces)] /\ imports' \in [NameSpaces -> Seq(NameSpaces)]
  BY <1>1 DEF SpacesType
<1>6. \A x \in NameSpaces : Within(imports[x], imports'[x])
  <2>1. CASE SpacesStep
    BY <2>1, WithinSelf DEF SpacesStep
  <2>2. CASE ImportStep
    <3>1. PICK s \in NameSpaces, p \in Package : imports' = [imports EXCEPT ![s] = Append(@, p)]
      BY <2>2 DEF ImportStep
    <3>2. p \in NameSpaces /\ imports[s] \in Seq(NameSpaces) /\ Within(imports[s], imports[s])
      BY <1>5, LoaderAssumption, WithinSelf
    <3>3. Within(imports[s], Append(imports[s], p))
      BY <3>2, WithinLonger
    <3> QED
      BY <1>5, <3>1, <3>3, WithinSelf
  <2> QED
    BY <2>1, <2>2
<1>7. Within(at1, at2) /\ at2 \in Seq(NameSpaces)
  <2> DEFINE new == imports'
  <2>1. new \in [NameSpaces -> Seq(NameSpaces)] /\ \A x \in NameSpaces : Within(imports[x], new[x])
    BY <1>5, <1>6
  <2> HIDE DEF new, l
  <2>2. Within(Chain(l, imports), Chain(l, new))
    BY <1>4, <1>5, <2>1, ChainGrows
  <2>3. Chain(l, new) \in Seq(NameSpaces)
    BY <1>4, <2>1, ChainType
  <2> QED
    BY <1>2, <1>3, <2>2, <2>3 DEF new
<1>8. \A x \in NameSpaces : SyntaxAt(constTable, x, k) =>
        SyntaxAt(constTable', x, k) /\ constTable'[x][k] = constTable[x][k]
  BY DEF SpacesStep, ImportStep, TablesStep, SyntaxAt
<1> DEFINE t1 == constTable
           t2 == constTable'
<1>9. ListSyntax(n, k) = Listing(at1, t1, k)
  BY ListSyntaxIs
<1>10. ListSyntax(n, k)' = Listing(at2, t2, k)
  BY DEF ListSyntax, Listing, IsSyntax, SyntaxAt, Defined
<1>11. \A x \in NameSpaces : SyntaxAt(t1, x, k) => SyntaxAt(t2, x, k) /\ t2[x][k] = t1[x][k]
  BY <1>8
<1> HIDE DEF at1, at2, t1, t2
<1>12. Within(Listing(at1, t1, k), Listing(at2, t2, k))
  BY <1>2, <1>7, <1>11, ListingGrows
<1> QED
  BY <1>9, <1>10, <1>12

LEMMA OrderNext ==
  ASSUME SpacesType, ListsInOrder, SpacesStep \/ ImportStep
  PROVE  ListsInOrder'
<1> SUFFICES ASSUME NEW n \in NameSpaces, NEW k \in DOMAIN syntaxList'[n]
             PROVE  LET list == syntaxList'[n][k]
                        own  == Made("Syntax", n, k)
                    IN  /\ Within(list, ListSyntax(n, k)')
                        /\ list # <<>> /\ IsSyntax(n, k)' /\ constTable'[n][k] = own =>
                             Head(list) = own
  BY DEF ListsInOrder
<1> DEFINE list == syntaxList'[n][k]
           own  == Made("Syntax", n, k)
<1>1. /\ Within(ListSyntax(n, k), ListSyntax(n, k)') 
      /\ ListSyntax(n, k) \in Seq(Syntax)
  BY SearchGrows, ListSyntaxType
<1>2. \A j \in DOMAIN constTable[n] :
        constTable'[n][j] # constTable[n][j] => constTable'[n][j].type = "String"
  BY DEF SpacesStep, ImportStep, TablesStep
<1>3. own.type = "Syntax"
  BY DEF Made
<1>4. \/ k \in DOMAIN syntaxList[n] /\ list = <<>>
      \/ k \in DOMAIN syntaxList[n] /\ list = syntaxList[n][k] /\ ~ GainsOwn(n, k)
      \/ Filled(n, k)
  BY DEF SpacesStep, ImportStep, ListsStep
<1>5. CASE list = <<>>
  BY <1>5, WithinSelf
<1>6. CASE k \in DOMAIN syntaxList[n] /\ list = syntaxList[n][k] /\ ~ GainsOwn(n, k)
  <2>1. /\ Within(list, ListSyntax(n, k))
        /\ list # <<>> /\ IsSyntax(n, k) /\ constTable[n][k] = own => Head(list) = own
    BY <1>6 DEF ListsInOrder
  <2> HIDE DEF list, own
  <2>2. Within(list, ListSyntax(n, k)')
    BY <1>1, <2>1, WithinTransitive
  <2>3. ASSUME IsSyntax(n, k)', constTable'[n][k] = own
        PROVE  IsSyntax(n, k) /\ constTable[n][k] = own
    <3>1. k \in DOMAIN constTable'[n]
      BY <2>3 DEF IsSyntax, Defined
    <3>2. k \in DOMAIN constTable[n]
      BY <1>6, <2>3, <3>1 DEF GainsOwn, own
    <3>3. constTable[n][k] = own
      BY <1>2, <1>3, <2>3, <3>2
    <3> QED
      BY <1>3, <3>2, <3>3 DEF IsSyntax, Defined
  <2> QED
    BY <2>1, <2>2, <2>3 DEF list, own
<1>7. CASE Filled(n, k)
  <2>1. list = ListSyntax(n, k) /\ DOMAIN constTable'[n] = DOMAIN constTable[n]
    BY <1>7 DEF Filled
  <2>2. ASSUME IsSyntax(n, k)', constTable'[n][k] = own
        PROVE  Head(list) = own
    <3>1. k \in DOMAIN constTable[n]
      BY <2>1, <2>2 DEF IsSyntax, Defined
    <3>2. constTable[n][k] = own
      <4> HIDE DEF own
      <4> QED
        BY <1>2, <1>3, <2>2, <3>1
    <3>3. SyntaxAt(constTable, n, k)
      BY <1>3, <3>1, <3>2 DEF SyntaxAt
    <3> DEFINE at == Searched(n)
    <3>4. at \in Seq(NameSpaces) /\ at # <<>> /\ at[1] = n
      BY SearchedType
    <3> HIDE DEF at
    <3>5. Listing(at, constTable, k) # <<>> /\ Listing(at, constTable, k)[1] = constTable[at[1]][k]
      BY <3>3, <3>4, ListingHead
    <3>6. list = Listing(at, constTable, k)
      BY <2>1, ListSyntaxIs DEF at
    <3> HIDE DEF own, list
    <3>7. list[1] = own
      BY <3>2, <3>4, <3>5, <3>6
    <3> QED
      BY <3>7, SMT
  <2> QED
    BY <1>1, <2>1, <2>2
<1> QED
  BY <1>4, <1>5, <1>6, <1>7

----------------------------------------------------------------------------
(* The invariant of the name spaces, and its theorems.                     *)

SpacesInv ==
  /\ SpacesType
  /\ OwnInv
  /\ ConstsKept
  /\ ListsInOrder

LEMMA SpacesInit ==
  ASSUME Init
  PROVE  SpacesInv
<1>1. /\ constTable = [n \in NameSpaces |->
           IF n = Root THEN [k \in Keyword |-> Made("Syntax", n, k)] ELSE Nothing]
      /\ NameSpaceConstList = [n \in NameSpaces |->
           IF n = Root THEN {Made("Syntax", n, k) : k \in Keyword} ELSE {}]
      /\ importedNameSpaceList = [n \in NameSpaces |-> <<>>]
      /\ syntaxList = [n \in NameSpaces |-> Nothing]
  BY DEF Init, InitSpaces
<1>2. ASSUME NEW n \in NameSpaces, NEW k \in Keyword
      PROVE  k \in Key /\ Made("Syntax", n, k) \in Value
  BY MadeType DEF Key
<1>3. Nothing \in Tables /\ Nothing \in ListTables /\ DOMAIN Nothing = {}
  BY TableType, ListTableType DEF Nothing
<1>4. ASSUME NEW n \in NameSpaces
      PROVE  [k \in Keyword |-> Made("Syntax", n, k)] \in Tables
  BY <1>2, TableType DEF Key
<1>5. SpacesType
  <2>1. constTable \in [NameSpaces -> Tables]
    BY <1>1, <1>3, <1>4
  <2>2. NameSpaceConstList \in [NameSpaces -> SUBSET Value]
    BY <1>1, <1>2
  <2>3. <<>> \in Seq(NameSpaces)
    OBVIOUS
  <2> QED
    BY <1>1, <1>3, <2>1, <2>2, <2>3 DEF SpacesType
<1>6. ASSUME NEW n \in NameSpaces, NEW k \in DOMAIN constTable[n]
      PROVE  n = Root /\ k \in Keyword /\ constTable[n][k] = Made("Syntax", n, k)
  BY <1>1, <1>3, <1>6
<1>7. OwnInv
  <2> SUFFICES ASSUME NEW n \in NameSpaces, NEW k \in DOMAIN constTable[n],
                      NEW v, v = constTable[n][k]
               PROVE  v.key \in DOMAIN constTable[v.ns] /\ constTable[v.ns][v.key] = v
    BY DEF OwnInv
  <2>1. v = Made("Syntax", n, k)
    BY <1>6
  <2>2. v.ns = n /\ v.key = k
    BY <2>1 DEF Made
  <2> QED
    BY <2>2
<1>8. ConstsKept
  <2>1. ASSUME NEW n \in NameSpaces, NEW k \in DOMAIN constTable[n]
        PROVE  constTable[n][k] \in NameSpaceConstList[n]
    BY <1>1, <1>6, <2>1
  <2> QED
    BY <1>1, <1>3, <2>1 DEF ConstsKept
<1>9. ListsInOrder
  BY <1>1, <1>3 DEF ListsInOrder
<1> QED
  BY <1>5, <1>7, <1>8, <1>9 DEF SpacesInv

LEMMA SpacesNext ==
  ASSUME FramesOK, SpacesInv, [Next]_vars
  PROVE  SpacesInv'
<1>1. SpacesStep \/ ImportStep
  BY ActionsOnSpaces DEF SpacesInv
<1> QED
  BY <1>1, SpacesTypeNext, OwnNext, KeptNext, OrderNext DEF SpacesInv

LEMMA TypesFollow ==
  ASSUME FramesOK, JumpInv, SpacesType
  PROVE  TypeOK
<1>1. ASSUME NEW i \in DOMAIN frames
      PROVE  /\ frames[i].kind \in {"script", "try", "import", "require", "load"}
             /\ frames[i].ns \in NameSpaces /\ frames[i].pkg \in NameSpaces
             /\ frames[i].saved \in 0 .. i - 1
  <2>1. /\ frames[i].kind \in Kind /\ frames[i].ns \in NameSpaces /\ frames[i].pkg \in NameSpaces
        /\ frames[i].saved \in Nat /\ i \in Nat /\ i >= 1
    BY StackType DEF FramesOK
  <2>2. frames[i].kind = "try" => frames[i].saved < i
    BY DEF JumpInv, SavedInnermost, Tries
  <2>3. frames[i].kind # "try" => frames[i].saved = 0
    BY DEF FramesOK, Called
  <2> QED
    BY <2>1, <2>2, <2>3 DEF Kind
<1>2. evaljmpbuf \in NoBuffer .. Len(frames)
  <2>1. Len(frames) \in Nat /\ DOMAIN frames = 1 .. Len(frames)
    BY StackType DEF FramesOK
  <2>2. evaljmpbuf <= 0 \/ evaljmpbuf \in 1 .. Len(frames)
    BY <2>1 DEF JumpInv, JumpBufferInnermost, Tries
  <2> QED
    BY <2>1, <2>2 DEF JumpInv, FramesOK, NoBuffer
<1>3. ASSUME NEW n \in NameSpaces
      PROVE  /\ \A k \in DOMAIN constTable[n] : k \in Key /\ constTable[n][k] \in Value
             /\ \A k \in DOMAIN syntaxList[n] : \A i \in DOMAIN syntaxList[n][k] :
                  syntaxList[n][k][i].type = "Syntax"
  <2>1. constTable[n] \in Tables /\ syntaxList[n] \in ListTables
    BY DEF SpacesType
  <2>2. ASSUME NEW k \in DOMAIN syntaxList[n], NEW i \in DOMAIN syntaxList[n][k]
        PROVE  syntaxList[n][k][i].type = "Syntax"
    <3>1. syntaxList[n][k] \in Seq(Syntax)
      BY <2>1, ListTableType
    <3>2. syntaxList[n][k][i] \in Syntax
      BY <2>2, <3>1, LenProperties
    <3> QED
      BY <3>2 DEF Syntax
  <2> QED
    BY <2>1, <2>2, TableType
<1> QED
  BY <1>1, <1>2, <1>3 DEF TypeOK, FramesOK

LoaderInv == FramesOK /\ JumpInv /\ SpacesInv

LEMMA LoaderInit == Init => LoaderInv
BY StackInit, SpacesInit DEF LoaderInv

LEMMA LoaderNext == LoaderInv /\ [Next]_vars => LoaderInv'
BY StackNext, SpacesNext DEF LoaderInv

(* The types of the loader's state: every frame saves a jump buffer of a   *)
(* frame below it, and the list of a keyword holds nothing but syntaxes.   *)
THEOREM TypeCorrect == Spec => []TypeOK
<1>1. LoaderInv => TypeOK
  BY TypesFollow DEF LoaderInv, SpacesInv
<1> QED
  BY <1>1, LoaderInit, LoaderNext, PTL DEF Spec

(* Every object in a table, and every list of syntaxes, is in the list     *)
(* that the collector visits of the name space (kNameSpace_Reftrace),      *)
(* however it came to be there.                                            *)
THEOREM ConstsAreKept == Spec => []ConstsKept
<1>1. LoaderInv => ConstsKept
  BY DEF LoaderInv, SpacesInv
<1> QED
  BY <1>1, LoaderInit, LoaderNext, PTL DEF Spec

(* The list of a keyword is always part of what a search finds now, in the *)
(* order of the search, with the name space's own syntax first             *)
(* (GetSyntaxList, ResetSyntaxList), for every lineage of name spaces and  *)
(* every nesting of imports.                                               *)
THEOREM ListsAreInOrder == Spec => []ListsInOrder
<1>1. LoaderInv => ListsInOrder
  BY DEF LoaderInv, SpacesInv
<1> QED
  BY <1>1, LoaderInit, LoaderNext, PTL DEF Spec
=============================================================================
