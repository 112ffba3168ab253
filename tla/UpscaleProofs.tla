----------------------------- MODULE UpscaleProofs -----------------------------
(***************************************************************************)
(* The two modules whose runs find a comment of the code violated: under    *)
(* which condition does the comment hold after all?  For the ring of stage  *)
(* textures it is enough that a reset finds a count that all lengths of the *)
(* ring divide; for the sizes of a layer, that the game's setter does not   *)
(* land on a layer that was upscaled after it looked.  Both hold for any    *)
(* number of frames, resets, sizes and changes, so nothing else is wrong.   *)
(***************************************************************************)
EXTENDS StageRing, UpscaleSize, SequenceTheorems, TLAPS

(* The textures of the ring are the last that were made, and a frame is     *)
(* written to the one its number says.                                      *)
Base == made - Len(ring)
TextureOf(f) == Base + ((f - 1) % Stages) + 1

(* The frames of a list are the last that were shown, in order.             *)
Frame(list, i) == shown - Len(list) + i

RingTypes ==
  /\ shown \in Nat /\ made \in Nat /\ onScreen \in Nat /\ target \in BOOLEAN
  /\ ring \in Seq(Nat) /\ reads \in Seq(Nat \X Nat) /\ writes \in Seq(Nat \X Nat)
  /\ Len(ring) <= made /\ Len(reads) <= shown /\ Len(writes) <= shown

(* While it grows the ring has as many textures as the count says.          *)
RingOf ==
  /\ ringNext = shown
  /\ Len(ring) <= Stages
  /\ \A i \in 1..Len(ring) : ring[i] = Base + i
  /\ Len(ring) < Stages => shown % 12 = Len(ring)

(* Every present in flight has a real drawable.                             *)
Bounded == Len(reads) + onScreen + (IF target THEN 1 ELSE 0) <= RealDrawables

(* A present may still read a texture from before a reset; a copy is of the *)
(* ring as it is.                                                           *)
ReadsOf ==
  \A r \in 1..Len(reads) :
    /\ reads[r][1] = Frame(reads, r)
    /\ reads[r][2] <= made
    /\ reads[r][2] = TextureOf(Frame(reads, r)) \/ reads[r][2] <= Base

WritesOf ==
  \A w \in 1..Len(writes) :
    writes[w][1] = Frame(writes, w) /\ writes[w][2] = TextureOf(Frame(writes, w))

(* The inductive invariant of the ring.                                     *)
RingInv == RingTypes /\ RingOf /\ Bounded /\ ReadsOf /\ WritesOf

-----------------------------------------------------------------------------
(* The numbers there are.                                                   *)
LEMMA Numbers ==
  ASSUME RingTypes
  PROVE  /\ Len(reads) \in Nat /\ Len(writes) \in Nat /\ Len(ring) \in Nat
         /\ shown \in Nat /\ made \in Nat /\ onScreen \in Nat /\ Base \in Nat
         /\ Len(ring) <= made /\ Len(reads) <= shown /\ Len(writes) <= shown
  <1>1. /\ ring \in Seq(Nat) /\ reads \in Seq(Nat \X Nat) /\ writes \in Seq(Nat \X Nat)
        /\ shown \in Nat /\ made \in Nat /\ onScreen \in Nat
        /\ Len(ring) <= made /\ Len(reads) <= shown /\ Len(writes) <= shown
    BY DEF RingTypes
  <1>2. Len(reads) \in Nat /\ Len(writes) \in Nat /\ Len(ring) \in Nat
    BY <1>1, LenProperties
  <1>3. Base \in Nat
    BY <1>1, <1>2, SMT DEF Base
  <1> QED
    BY <1>1, <1>2, <1>3

(* Frames less than four apart are written to different textures.           *)
LEMMA ApartInRing ==
  ASSUME NEW e \in Nat, NEW f \in Nat, 0 < e, e < f, f < e + Stages
  PROVE  /\ (e - 1) % Stages # (f - 1) % Stages
         /\ (e - 1) % Stages \in Nat /\ (f - 1) % Stages \in Nat
  BY SMT DEF Stages

(* So no present in flight reads what a later frame is written to.          *)
LEMMA RingApart ==
  ASSUME RealDrawables \in 1..Stages, RingInv
  PROVE  NeverStillRead
  <1> SUFFICES ASSUME NEW w \in 1..Len(writes), NEW r \in 1..Len(reads),
                      reads[r][1] < writes[w][1]
               PROVE  reads[r][2] # writes[w][2]
    BY DEF NeverStillRead
  <1> DEFINE e == reads[r][1]
             f == writes[w][1]
             texture == reads[r][2]
             c == Len(reads)
             n == Len(writes)
             spare == IF target THEN 1 ELSE 0
  <1>1. /\ c \in Nat /\ n \in Nat /\ shown \in Nat /\ onScreen \in Nat /\ Base \in Nat
        /\ c <= shown /\ n <= shown /\ r \in 1..c /\ w \in 1..n
    BY Numbers DEF RingInv
  <1>2. e = shown - c + r /\ f = shown - n + w /\ e < f
    BY DEF RingInv, ReadsOf, WritesOf, Frame
  <1>3. /\ writes[w][2] = Base + ((f - 1) % Stages) + 1
        /\ texture = Base + ((e - 1) % Stages) + 1 \/ texture <= Base
    BY DEF RingInv, ReadsOf, WritesOf, TextureOf
  <1>4. texture \in Nat
    <2>1. reads \in Seq(Nat \X Nat)
      BY DEF RingInv, RingTypes
    <2>2. reads[r] \in Nat \X Nat
      BY <2>1, ElementOfSeq
    <2> QED
      BY <2>2
  <1>5. c + onScreen + spare <= RealDrawables /\ spare \in Nat
    BY DEF RingInv, Bounded
  <1> HIDE DEF e, f, texture, c, n, spare
  <1>6. c <= 4
    BY <1>1, <1>5, SMT DEF Stages
  <1>7. e \in Nat /\ f \in Nat /\ 0 < e /\ e < f /\ f < e + Stages
    BY <1>1, <1>2, <1>6, SMT DEF Stages
  <1>8. /\ (e - 1) % Stages # (f - 1) % Stages
        /\ (e - 1) % Stages \in Nat /\ (f - 1) % Stages \in Nat
    BY <1>7, ApartInRing
  <1>9. texture # Base + ((f - 1) % Stages) + 1
    BY <1>1, <1>3, <1>4, <1>8, SMT
  <1> QED
    BY <1>3, <1>9 DEF texture

(* The invariant holds at the start,                                        *)
LEMMA InitRing == RealDrawables \in 1..Stages /\ Init => RingInv
  <1> SUFFICES ASSUME RealDrawables \in 1..Stages, Init
               PROVE  RingInv
    OBVIOUS
  <1>1. /\ ring = <<>> /\ reads = <<>> /\ writes = <<>> /\ ringNext = 0 /\ made = 0
        /\ target = FALSE /\ shown = 0 /\ onScreen = 0
    BY DEF Init
  <1>2. Len(ring) = 0 /\ Len(reads) = 0 /\ Len(writes) = 0
    BY <1>1
  <1>3. RingTypes
    <2>1. ring \in Seq(Nat) /\ reads \in Seq(Nat \X Nat) /\ writes \in Seq(Nat \X Nat)
      BY <1>1, EmptySeq
    <2>2. shown \in Nat /\ made \in Nat /\ onScreen \in Nat /\ target \in BOOLEAN
      BY <1>1
    <2>3. Len(ring) <= made /\ Len(reads) <= shown /\ Len(writes) <= shown
      <3>1. made = 0 /\ shown = 0
        BY <1>1
      <3> QED
        BY <1>2, <3>1, SMT
    <2> QED
      BY <2>1, <2>2, <2>3 DEF RingTypes
  <1>4. Bounded
    BY <1>1, <1>2, SMT DEF Bounded, Stages
  <1>5. RingOf
    BY <1>1, <1>2, SMT DEF RingOf, Stages
  <1>6. ReadsOf /\ WritesOf
    BY <1>2 DEF ReadsOf, WritesOf
  <1> QED
    BY <1>3, <1>4, <1>5, <1>6 DEF RingInv

(* The ring after stage(): it may have grown, and starts where it started.  *)
LEMMA GrownIs ==
  ASSUME RingTypes, RingOf
  PROVE  /\ Grown \in Seq(Nat)
         /\ Len(Grown) = IF Len(ring) < Stages THEN Len(ring) + 1 ELSE Stages
         /\ \A i \in 1..Len(Grown) : Grown[i] = Base + i
  <1> DEFINE n == Len(ring)
  <1>1. ring \in Seq(Nat) /\ made \in Nat /\ n \in Nat /\ n <= made /\ Base = made - n
    BY Numbers DEF RingTypes, Base
  <1>2. n <= Stages /\ \A i \in 1..n : ring[i] = Base + i
    BY DEF RingOf
  <1>3. CASE n < Stages
    <2>1. Grown = Append(ring, made + 1) /\ made + 1 \in Nat
      BY <1>1, <1>3 DEF Grown
    <2>2. /\ Grown \in Seq(Nat) /\ Len(Grown) = n + 1
          /\ \A i \in 1..n : Grown[i] = ring[i]
          /\ Grown[n + 1] = made + 1
      BY <1>1, <2>1, AppendProperties
    <2> HIDE DEF n
    <2>3. \A i \in 1..(n + 1) : i \in 1..n \/ i = n + 1
      BY <1>1, SMT
    <2>4. Base + (n + 1) = made + 1
      BY <1>1, SMT
    <2>5. \A i \in 1..(n + 1) : Grown[i] = Base + i
      BY <1>2, <2>2, <2>3, <2>4
    <2> QED
      BY <1>3, <2>2, <2>5 DEF n
  <1>4. CASE ~(n < Stages)
    <2>1. Grown = ring
      BY <1>4 DEF Grown
    <2> HIDE DEF n
    <2>2. n = Stages
      BY <1>1, <1>2, <1>4, SMT DEF Stages
    <2> QED
      BY <1>1, <1>2, <2>1, <2>2, SMT DEF n, Stages
  <1> QED
    BY <1>3, <1>4

(* A count that fits the ring picks its next texture, whichever length it   *)
(* has by now.                                                              *)
LEMMA PickIs ==
  ASSUME NEW k \in Nat, NEW n \in 0..Stages, n < Stages => k % 12 = n,
         NEW m, m = IF n < Stages THEN n + 1 ELSE Stages
  PROVE  /\ m \in 1..Stages /\ k % m = k % Stages /\ k % m \in 0..(m - 1)
         /\ n < Stages => k % m = n
         /\ m < Stages => (k + 1) % 12 = m
  <1>1. CASE n = 0
    BY <1>1, SMT DEF Stages
  <1>2. CASE n = 1
    BY <1>2, SMT DEF Stages
  <1>3. CASE n = 2
    BY <1>3, SMT DEF Stages
  <1>4. CASE n = 3
    BY <1>4, SMT DEF Stages
  <1>5. CASE n = 4
    BY <1>5, SMT DEF Stages
  <1> QED
    BY <1>1, <1>2, <1>3, <1>4, <1>5, SMT DEF Stages

(* A frame that is shown is written to the texture its number says.         *)
LEMMA ShowKeeps ==
  ASSUME RealDrawables \in 1..Stages, RingInv, Show
  PROVE  RingInv'
  <1> DEFINE k == Len(ring)
             m == Len(Grown)
             c == Len(reads)
             n == Len(writes)
             f == shown + 1
             texture == Grown[(ringNext % m) + 1]
  <1>1. /\ RingTypes /\ RingOf /\ Bounded /\ ReadsOf /\ WritesOf
        /\ k \in Nat /\ c \in Nat /\ n \in Nat /\ shown \in Nat /\ made \in Nat
        /\ onScreen \in Nat /\ Base \in Nat /\ Base = made - k
        /\ k <= made /\ c <= shown /\ n <= shown
    BY Numbers DEF RingInv, Base
  <1>2. /\ target /\ target' = FALSE /\ shown' = f /\ ringNext' = ringNext + 1
        /\ ring' = Grown /\ made' = made + (m - k) /\ onScreen' = onScreen
        /\ writes' = Append(writes, <<f, texture>>) /\ reads' = Append(reads, <<f, texture>>)
    BY DEF Show
  <1>3. /\ ringNext = shown /\ k \in 0..Stages
        /\ k < Stages => shown % 12 = k
    <2>1. ringNext = shown /\ k <= Stages /\ (k < Stages => shown % 12 = k)
      BY <1>1 DEF RingOf
    <2> HIDE DEF k
    <2> QED
      BY <1>1, <2>1, SMT DEF Stages
  <1>4. /\ Grown \in Seq(Nat) /\ m = IF k < Stages THEN k + 1 ELSE Stages
        /\ \A i \in 1..m : Grown[i] = Base + i
    BY <1>1, GrownIs
  <1>5. reads \in Seq(Nat \X Nat) /\ writes \in Seq(Nat \X Nat)
    BY <1>1 DEF RingTypes
  <1> HIDE DEF k, m, c, n
  <1>6. /\ m \in 1..Stages /\ shown % m = shown % Stages /\ shown % m \in 0..(m - 1)
        /\ k < Stages => shown % m = k
        /\ m < Stages => (shown + 1) % 12 = m
    BY <1>1, <1>3, <1>4, PickIs
  <1>7. m \in Nat /\ k <= m /\ f \in Nat /\ f - 1 = shown
    BY <1>1, <1>3, <1>4, <1>6, SMT DEF Stages
  <1>8. /\ made' \in Nat /\ Base' = Base /\ made' = Base + m /\ made <= made'
    BY <1>1, <1>2, <1>7, SMT DEF Base, m, k
  <1>9. texture = Base + (shown % Stages) + 1
    <2>1. (shown % m) + 1 \in 1..m
      BY <1>6, <1>7, SMT
    <2>2. Grown[(shown % m) + 1] = Base + ((shown % m) + 1)
      BY <1>4, <2>1
    <2>3. shown % Stages \in Nat
      BY <1>6, <1>7, SMT
    <2> QED
      BY <1>1, <1>3, <1>6, <2>2, <2>3, SMT
  <1> HIDE DEF texture
  <1>10. texture \in Nat /\ texture <= made' /\ texture = TextureOf(f)
    <2>1. shown % Stages \in 0..(m - 1)
      BY <1>6
    <2>2. texture \in Nat /\ texture <= made'
      BY <1>1, <1>7, <1>8, <1>9, <2>1, SMT
    <2> QED
      BY <1>7, <1>9, <2>2 DEF TextureOf
  <1>11. <<f, texture>> \in Nat \X Nat
    BY <1>7, <1>10
  <1>12. /\ reads' \in Seq(Nat \X Nat) /\ Len(reads') = c + 1
         /\ \A r \in 1..c : reads'[r] = reads[r]
         /\ reads'[c + 1] = <<f, texture>>
    BY <1>2, <1>5, <1>11, AppendProperties DEF c
  <1>13. /\ writes' \in Seq(Nat \X Nat) /\ Len(writes') = n + 1
         /\ \A w \in 1..n : writes'[w] = writes[w]
         /\ writes'[n + 1] = <<f, texture>>
    BY <1>2, <1>5, <1>11, AppendProperties DEF n
  <1>14. RingTypes'
    <2>1. Len(ring') <= made' /\ Len(reads') <= shown' /\ Len(writes') <= shown'
      <3>1. Len(ring') = m /\ shown' = f
        BY <1>2 DEF m
      <3>2. c + 1 <= f /\ n + 1 <= f /\ m <= Base + m
        BY <1>1, <1>7, SMT
      <3> QED
        BY <1>8, <1>12, <1>13, <3>1, <3>2
    <2>2. shown' \in Nat /\ onScreen' \in Nat /\ target' \in BOOLEAN /\ ring' \in Seq(Nat)
      BY <1>1, <1>2, <1>4, <1>7
    <2> QED
      BY <1>8, <1>12, <1>13, <2>1, <2>2 DEF RingTypes
  <1>15. RingOf'
    <2>1. Len(ring') = m
      BY <1>2 DEF m
    <2>2. ringNext' = shown' /\ m <= Stages
      BY <1>2, <1>3, <1>6, SMT DEF Stages
    <2>3. \A i \in 1..m : ring'[i] = Base' + i
      BY <1>2, <1>4, <1>8
    <2> QED
      BY <1>2, <1>6, <2>1, <2>2, <2>3 DEF RingOf
  <1>16. Bounded'
    <2>1. c + onScreen + 1 <= RealDrawables
      BY <1>1, <1>2 DEF Bounded, c
    <2>2. Len(reads') + onScreen' + 0 <= RealDrawables
      BY <1>1, <1>2, <1>12, <2>1, SMT DEF Stages
    <2> QED
      BY <1>2, <2>2 DEF Bounded
  <1>17. ReadsOf'
    <2>1. ASSUME NEW r \in 1..(c + 1)
          PROVE  /\ reads'[r][1] = shown' - (c + 1) + r
                 /\ reads'[r][2] <= made'
                 /\ \/ reads'[r][2] = Base' + (((shown' - (c + 1) + r) - 1) % Stages) + 1
                    \/ reads'[r][2] <= Base'
      <3>1. CASE r \in 1..c
        <4>1. /\ reads[r][1] = shown - c + r /\ reads[r][2] <= made
              /\ \/ reads[r][2] = Base + (((shown - c + r) - 1) % Stages) + 1
                 \/ reads[r][2] <= Base
          BY <1>1, <3>1 DEF ReadsOf, Frame, TextureOf, c
        <4>2. reads[r][2] \in Nat
          <5>1. reads[r] \in Nat \X Nat
            BY <1>5, <3>1, ElementOfSeq DEF c
          <5> QED
            BY <5>1
        <4>3. shown' - (c + 1) + r = shown - c + r
          BY <1>1, <1>2, <3>1, SMT
        <4>4. reads[r][2] <= made'
          BY <1>1, <1>8, <4>1, <4>2, SMT
        <4> QED
          BY <1>8, <1>12, <3>1, <4>1, <4>3, <4>4
      <3>2. CASE r = c + 1
        <4>1. shown' - (c + 1) + r = f
          BY <1>1, <1>2, <1>7, <3>2, SMT
        <4> QED
          BY <1>7, <1>8, <1>9, <1>10, <1>12, <3>2, <4>1
      <3>3. r \in 1..c \/ r = c + 1
        BY <1>1, SMT
      <3> QED
        BY <3>1, <3>2, <3>3
    <2> QED
      BY <1>12, <2>1 DEF ReadsOf, Frame, TextureOf
  <1>18. WritesOf'
    <2>1. ASSUME NEW w \in 1..(n + 1)
          PROVE  /\ writes'[w][1] = shown' - (n + 1) + w
                 /\ writes'[w][2] = Base' + (((shown' - (n + 1) + w) - 1) % Stages) + 1
      <3>1. CASE w \in 1..n
        <4>1. /\ writes[w][1] = shown - n + w
              /\ writes[w][2] = Base + (((shown - n + w) - 1) % Stages) + 1
          BY <1>1, <3>1 DEF WritesOf, Frame, TextureOf, n
        <4>2. shown' - (n + 1) + w = shown - n + w
          BY <1>1, <1>2, <3>1, SMT
        <4> QED
          BY <1>8, <1>13, <3>1, <4>1, <4>2
      <3>2. CASE w = n + 1
        <4>1. shown' - (n + 1) + w = f
          BY <1>1, <1>2, <1>7, <3>2, SMT
        <4> QED
          BY <1>7, <1>8, <1>9, <1>13, <3>2, <4>1
      <3>3. w \in 1..n \/ w = n + 1
        BY <1>1, SMT
      <3> QED
        BY <3>1, <3>2, <3>3
    <2> QED
      BY <1>13, <2>1 DEF WritesOf, Frame, TextureOf
  <1> QED
    BY <1>14, <1>15, <1>16, <1>17, <1>18 DEF RingInv

(* A step that leaves the ring and the lists as they are.                   *)
LEMMA RestKeeps ==
  ASSUME RingInv, UNCHANGED <<ring, ringNext, made, shown, reads, writes>>,
         onScreen' \in Nat, target' \in BOOLEAN, Bounded'
  PROVE  RingInv'
  <1>1. RingTypes /\ RingOf /\ ReadsOf /\ WritesOf
    BY DEF RingInv
  <1>2. RingTypes'
    BY <1>1 DEF RingTypes
  <1>3. RingOf'
    BY <1>1 DEF RingOf, Base
  <1>4. ReadsOf' /\ WritesOf'
    BY <1>1 DEF ReadsOf, WritesOf, Frame, TextureOf, Base
  <1> QED
    BY <1>2, <1>3, <1>4 DEF RingInv

(* A reset leaves the presents that still read the old ring, and starts     *)
(* anew where the count says.                                               *)
LEMMA ResetKeeps ==
  ASSUME RealDrawables \in 1..Stages, RingInv, Reset, ringNext % 12 = 0
  PROVE  RingInv'
  <1>1. /\ RingTypes /\ RingOf /\ Bounded /\ ReadsOf
        /\ Len(reads) \in Nat /\ Len(writes) \in Nat /\ Len(ring) \in Nat
        /\ shown \in Nat /\ made \in Nat /\ onScreen \in Nat
    BY Numbers DEF RingInv
  <1>2. /\ writes = <<>> /\ ring' = <<>> /\ target' = FALSE
        /\ UNCHANGED <<ringNext, made, shown, writes, reads, onScreen>>
    BY DEF Reset
  <1>3. Len(ring') = 0 /\ Len(writes') = 0 /\ ring' \in Seq(Nat)
    BY <1>2, EmptySeq
  <1>4. Base' = made
    <2>1. made - 0 = made
      BY <1>1, SMT
    <2> QED
      BY <1>2, <1>3, <2>1 DEF Base
  <1>5. RingTypes'
    <2>1. 0 <= made
      BY <1>1, SMT
    <2> QED
      BY <1>1, <1>2, <1>3, <2>1 DEF RingTypes
  <1>6. RingOf'
    <2>1. 0 <= Stages /\ 0 < Stages
      BY SMT DEF Stages
    <2>2. ringNext' = shown' /\ shown' % 12 = 0
      BY <1>1, <1>2 DEF RingOf
    <2>3. 1..0 = {}
      BY SMT
    <2> QED
      BY <1>3, <2>1, <2>2, <2>3 DEF RingOf
  <1>7. Bounded'
    <2> DEFINE spare == IF target THEN 1 ELSE 0
    <2>1. Len(reads) + onScreen + spare <= RealDrawables /\ spare \in Nat
      BY <1>1 DEF Bounded
    <2> HIDE DEF spare
    <2>2. Len(reads) + onScreen + 0 <= RealDrawables
      BY <1>1, <2>1, SMT DEF Stages
    <2> QED
      BY <1>2, <2>2 DEF Bounded
  <1>8. ReadsOf'
    BY <1>1, <1>2, <1>4 DEF ReadsOf, Frame
  <1>9. WritesOf'
    BY <1>3, SMT DEF WritesOf
  <1> QED
    BY <1>5, <1>6, <1>7, <1>8, <1>9 DEF RingInv

(* A copy or a present that is done leaves the rest of its list in order.   *)
LEMMA TailIs ==
  ASSUME NEW list \in Seq(Nat \X Nat), list # <<>>, Len(list) <= shown, shown \in Nat
  PROVE  /\ Tail(list) \in Seq(Nat \X Nat) /\ Len(Tail(list)) = Len(list) - 1
         /\ Len(list) \in Nat /\ Len(list) >= 1 /\ Len(Tail(list)) <= shown
         /\ \A i \in 1..Len(Tail(list)) :
              /\ i + 1 \in 1..Len(list) /\ Tail(list)[i] = list[i + 1]
              /\ Frame(Tail(list), i) = Frame(list, i + 1)
  <1> DEFINE n == Len(list)
  <1>1. n \in Nat \ {0}
    BY EmptySeq
  <1>2. /\ Tail(list) \in Seq(Nat \X Nat) /\ Len(Tail(list)) = n - 1
        /\ \A i \in 1..(n - 1) : Tail(list)[i] = list[i + 1]
    BY HeadTailProperties
  <1> HIDE DEF n
  <1>3. n >= 1 /\ \A i \in 1..(n - 1) : i + 1 \in 1..n
    BY <1>1, SMT
  <1>4. n - 1 <= shown
    <2>1. n <= shown
      BY DEF n
    <2> QED
      BY <1>1, <2>1, SMT
  <1>5. \A i \in 1..(n - 1) : shown - (n - 1) + i = shown - n + (i + 1)
    BY <1>1, SMT
  <1>6. \A i \in 1..(n - 1) : Frame(Tail(list), i) = Frame(list, i + 1)
    BY <1>2, <1>5 DEF Frame, n
  <1> QED
    BY <1>1, <1>2, <1>3, <1>4, <1>6 DEF n

LEMMA CompletesKeep ==
  ASSUME RingInv, WriteCompletes \/ ReadCompletes
  PROVE  RingInv'
  <1>1. /\ RingTypes /\ RingOf /\ Bounded /\ ReadsOf /\ WritesOf
        /\ Len(reads) \in Nat /\ Len(writes) \in Nat
        /\ shown \in Nat /\ made \in Nat /\ onScreen \in Nat
        /\ Len(reads) <= shown /\ Len(writes) <= shown
    BY Numbers DEF RingInv
  <1>2. UNCHANGED <<ring, ringNext, made, target, shown>>
    BY DEF WriteCompletes, ReadCompletes
  <1>3. RingOf' /\ Base' = Base
    BY <1>1, <1>2 DEF RingOf, Base
  <1>4. reads \in Seq(Nat \X Nat) /\ writes \in Seq(Nat \X Nat)
    BY <1>1 DEF RingTypes
  <1>5. CASE WriteCompletes
    <2>1. writes # <<>> /\ writes' = Tail(writes) /\ UNCHANGED <<reads, onScreen>>
      BY <1>5 DEF WriteCompletes
    <2>2. /\ writes' \in Seq(Nat \X Nat) /\ Len(writes') <= shown
          /\ \A i \in 1..Len(writes') :
               /\ i + 1 \in 1..Len(writes) /\ writes'[i] = writes[i + 1]
               /\ shown - Len(writes') + i = Frame(writes, i + 1)
      BY <1>1, <1>4, <2>1, TailIs DEF Frame
    <2>3. RingTypes'
      BY <1>1, <1>2, <2>1, <2>2 DEF RingTypes
    <2>4. Bounded' /\ ReadsOf'
      BY <1>1, <1>2, <1>3, <2>1 DEF Bounded, ReadsOf, Frame, TextureOf
    <2>5. WritesOf'
      BY <1>1, <1>2, <1>3, <2>2 DEF WritesOf, Frame, TextureOf
    <2> QED
      BY <1>3, <2>3, <2>4, <2>5 DEF RingInv
  <1>6. CASE ReadCompletes
    <2>1. reads # <<>> /\ reads' = Tail(reads) /\ writes' = writes /\ onScreen' = onScreen + 1
      BY <1>6 DEF ReadCompletes
    <2>2. /\ reads' \in Seq(Nat \X Nat) /\ Len(reads') <= shown
          /\ Len(reads') = Len(reads) - 1 /\ Len(reads) >= 1
          /\ \A i \in 1..Len(reads') :
               /\ i + 1 \in 1..Len(reads) /\ reads'[i] = reads[i + 1]
               /\ shown - Len(reads') + i = Frame(reads, i + 1)
      BY <1>1, <1>4, <2>1, TailIs DEF Frame
    <2>3. RingTypes'
      <3>1. onScreen' \in Nat
        BY <1>1, <2>1, SMT
      <3> QED
        BY <1>1, <1>2, <2>1, <2>2, <3>1 DEF RingTypes
    <2>4. Bounded'
      <3>1. Len(reads') + onScreen' = Len(reads) + onScreen
        BY <1>1, <2>1, <2>2, SMT
      <3> QED
        BY <1>1, <1>2, <3>1 DEF Bounded
    <2>5. WritesOf'
      BY <1>1, <1>2, <1>3, <2>1 DEF WritesOf, Frame, TextureOf
    <2>6. ReadsOf'
      BY <1>1, <1>2, <1>3, <2>2 DEF ReadsOf, Frame, TextureOf
    <2> QED
      BY <1>3, <2>3, <2>4, <2>5, <2>6 DEF RingInv
  <1> QED
    BY <1>5, <1>6

(* and every step keeps it that resets at such counts only.                 *)
LEMMA NextRing ==
  ASSUME RealDrawables \in 1..Stages, RingInv, [Next]_vars, [Reset => ringNext % 12 = 0]_vars
  PROVE  RingInv'
  <1>1. /\ RingTypes /\ Bounded /\ Len(reads) \in Nat /\ onScreen \in Nat /\ target \in BOOLEAN
    BY Numbers DEF RingInv, RingTypes
  <1>2. CASE UNCHANGED vars
    <2>1. UNCHANGED <<ring, ringNext, made, shown, reads, writes, onScreen, target>>
      BY <1>2 DEF vars
    <2>2. Bounded'
      BY <1>1, <2>1 DEF Bounded
    <2> QED
      BY <1>1, <2>1, <2>2, RestKeeps
  <1>3. CASE NextReal
    <2>1. /\ ~target /\ target' = TRUE /\ Len(reads) + onScreen < RealDrawables
          /\ UNCHANGED <<ring, ringNext, made, shown, reads, writes, onScreen>>
      BY <1>3 DEF NextReal
    <2>2. Bounded'
      <3>1. Len(reads) + onScreen + 1 <= RealDrawables
        BY <1>1, <2>1, SMT DEF Stages
      <3> QED
        BY <2>1, <3>1 DEF Bounded
    <2> QED
      BY <1>1, <2>1, <2>2, RestKeeps
  <1>4. CASE Show
    BY <1>4, ShowKeeps
  <1>5. CASE Reset /\ ~UNCHANGED vars
    BY <1>5, ResetKeeps
  <1>6. CASE WriteCompletes \/ ReadCompletes
    BY <1>6, CompletesKeep
  <1>7. CASE LeaveScreen
    <2>1. /\ onScreen > 1 /\ onScreen' = onScreen - 1
          /\ UNCHANGED <<ring, ringNext, made, target, shown, reads, writes>>
      BY <1>7 DEF LeaveScreen
    <2> DEFINE spare == IF target THEN 1 ELSE 0
    <2>2. onScreen' \in Nat /\ spare \in Nat
      BY <1>1, <2>1, SMT
    <2>3. Len(reads) + onScreen + spare <= RealDrawables
      BY <1>1 DEF Bounded
    <2> HIDE DEF spare
    <2>4. Len(reads) + onScreen' + spare <= RealDrawables
      BY <1>1, <2>1, <2>2, <2>3, SMT DEF Stages
    <2>5. Bounded'
      BY <2>1, <2>4 DEF Bounded, spare
    <2> QED
      BY <1>1, <2>1, <2>2, <2>5, RestKeeps
  <1> QED
    BY <1>2, <1>3, <1>4, <1>5, <1>6, <1>7 DEF Next, Done

(* While the ring is reset at counts that 12 divides, as before the first   *)
(* frame, no copy is ever made into a texture that an earlier frame's       *)
(* present still reads; the real drawables are three, and four would do.    *)
THEOREM RingHoldsBetweenResets ==
  ASSUME RealDrawables \in 1..Stages
  PROVE  Spec /\ [][Reset => ringNext % 12 = 0]_vars => []NeverStillRead
  <1>1. Init => RingInv
    BY InitRing
  <1>2. RingInv /\ [Next]_vars /\ [Reset => ringNext % 12 = 0]_vars => RingInv'
    BY NextRing
  <1>3. RingInv => NeverStillRead
    BY RingApart
  <1> QED
    BY <1>1, <1>2, <1>3, PTL DEF Spec

-----------------------------------------------------------------------------
(* The sizes of a layer.  Whoever holds `sizing` is between its change of   *)
(* the upscaling and of the drawables; else an upscaled layer has drawables *)
(* of the shown size.                                                       *)
SizingHeld ==
  /\ sizing = "render" <=> render.at = "resize"
  /\ sizing = "worker" <=> worker.at = "resize"
  /\ worker.at = "resize" => up = None

ShownKept ==
  up # None =>
    IF render.at = "resize" THEN render.pair # None /\ up[2] = render.pair[2] ELSE real = up[2]

Machine == [at : {"idle", "look", "set", "lock", "resize", "job"}, size : Nat, pair : Nat \X Nat]

(* The inductive invariant of the sizes.                                    *)
SizesInv ==
  /\ natural \in Sizes /\ explicit \in Sizes \cup {0} /\ up \in Nat \X Nat
  /\ setter \in Machine /\ render \in Machine /\ worker \in Machine
  /\ SizingHeld /\ ShownKept

(* The invariant holds at the start,                                        *)
LEMMA InitSizes == Sizes \subseteq Nat \ {0} /\ SizeInit => SizesInv
  BY DEF SizeInit, SizesInv, SizingHeld, ShownKept, Machine, Idle, None

(* the steps of the game's setter keep it while the layer was not upscaled  *)
(* under it,                                                                *)
LEMMA SetterKeeps ==
  ASSUME Sizes \subseteq Nat \ {0}, SizesInv, SetSize \/ GameSetsSize \/ SetRealSize,
         SetRealSize => up = None
  PROVE  SizesInv'
  <1>1. CASE SetSize
    <2>1. UNCHANGED <<natural, up, real, sizing, render, worker>>
      BY <1>1 DEF SetSize
    <2>2. PICK s \in Sizes : explicit' = s /\ setter' = [Idle EXCEPT !.at = "look", !.size = s]
      BY <1>1 DEF SetSize
    <2>3. setter' \in Machine
      BY <2>2 DEF Machine, Idle, None
    <2> QED
      BY <2>1, <2>2, <2>3 DEF SizesInv, SizingHeld, ShownKept
  <1>2. CASE GameSetsSize
    BY <1>2 DEF GameSetsSize, SizesInv, SizingHeld, ShownKept, Machine, Idle, None
  <1>3. CASE SetRealSize
    BY <1>3 DEF SetRealSize, SizesInv, SizingHeld, ShownKept, Machine, Idle, None
  <1> QED
    BY <1>1, <1>2, <1>3

(* those of the thread that takes drawables,                                *)
LEMMA RenderKeeps ==
  ASSUME Sizes \subseteq Nat \ {0}, SizesInv,
         RefreshUpscale \/ EndUpscaling \/ ChangeState \/ ResizeDrawables
  PROVE  SizesInv'
  <1>1. CASE RefreshUpscale
    <2>1. /\ UNCHANGED <<natural, explicit, up, sizing, setter, worker>>
          /\ render.at = "idle" /\ render'.at \in {"idle", "lock"} /\ render' \in Machine
          /\ up # None => real' = real
      BY <1>1 DEF RefreshUpscale, SetUpscaling, UpscaleTo, Pair, Game, Shown, Machine, None, SizesInv
    <2> QED
      BY <2>1 DEF SizesInv, SizingHeld, ShownKept
  <1>2. CASE EndUpscaling
    BY <1>2 DEF EndUpscaling, SetUpscaling, stateVars, SizesInv, SizingHeld, ShownKept, Machine, None
  <1>3. CASE ChangeState
    BY <1>3 DEF ChangeState, SizesInv, SizingHeld, ShownKept, Machine
  <1>4. CASE ResizeDrawables
    BY <1>4 DEF ResizeDrawables, SizesInv, SizingHeld, ShownKept, Machine, Idle, None
  <1> QED
    BY <1>1, <1>2, <1>3, <1>4

(* and those of the worker and the window.                                  *)
LEMMA WorkerKeeps ==
  ASSUME Sizes \subseteq Nat \ {0}, SizesInv,
         BeginJob \/ EndJob \/ StopUpscaling \/ RestoreSize \/ ResizeWindow
  PROVE  SizesInv'
  <1>1. CASE BeginJob
    BY <1>1 DEF BeginJob, stateVars, SizesInv, SizingHeld, ShownKept, Machine, Idle, None
  <1>2. CASE EndJob
    BY <1>2 DEF EndJob, SizesInv, SizingHeld, ShownKept, Machine, Idle, None
  <1>3. CASE StopUpscaling
    BY <1>3 DEF StopUpscaling, SizesInv, SizingHeld, ShownKept, Machine, Idle, None
  <1>4. CASE RestoreSize
    BY <1>4 DEF RestoreSize, SizesInv, SizingHeld, ShownKept, Machine, Idle, None
  <1>5. CASE ResizeWindow
    BY <1>5 DEF ResizeWindow, SizesInv, SizingHeld, ShownKept
  <1> QED
    BY <1>1, <1>2, <1>3, <1>4, <1>5

(* While the game's setter never writes to a layer that was upscaled since  *)
(* it looked, an upscaled layer keeps drawables of the shown size, whatever *)
(* the thread that takes drawables, the worker and the window do.           *)
THEOREM ShownSizeKept ==
  ASSUME Sizes \subseteq Nat \ {0}
  PROVE  SizeSpec /\ [][SetRealSize => up = None]_sizeVars => []KeepShownSize
  <1>1. SizeInit => SizesInv
    BY InitSizes
  <1>2. SizesInv /\ [SizeNext]_sizeVars /\ [SetRealSize => up = None]_sizeVars => SizesInv'
    <2> SUFFICES ASSUME SizesInv, [SizeNext]_sizeVars, [SetRealSize => up = None]_sizeVars
                 PROVE  SizesInv'
      OBVIOUS
    <2>1. CASE UNCHANGED sizeVars
      BY <2>1 DEF sizeVars, SizesInv, SizingHeld, ShownKept
    <2>2. CASE SizeNext /\ ~UNCHANGED sizeVars
      BY <2>2, SetterKeeps, RenderKeeps, WorkerKeeps DEF SizeNext
    <2> QED
      BY <2>1, <2>2
  <1>3. SizesInv => KeepShownSize
    <2> SUFFICES ASSUME SizesInv, AtRest, up = Pair
                 PROVE  real = up[2]
      BY DEF KeepShownSize
    <2>1. up[2] = 2 * natural /\ natural \in Nat \ {0}
      BY DEF Pair, Shown, SizesInv
    <2>2. up # None
      <3>1. 2 * natural # 0
        BY <2>1, SMT
      <3> QED
        BY <2>1, <3>1 DEF None
    <2> QED
      BY <2>2 DEF SizesInv, ShownKept, AtRest
  <1> QED
    BY <1>1, <1>2, <1>3, PTL DEF SizeSpec

=============================================================================
