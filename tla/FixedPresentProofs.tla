-------------------------- MODULE FixedPresentProofs --------------------------
(***************************************************************************)
(* Proofs about the fixed wrapper and the settings under it: whatever the   *)
(* images, the files, the environments and the failures, its semaphores are *)
(* signalled and waited for in turn, it runs with what the layer holds, its *)
(* failures cost a bounded number of images, a process keeps to its         *)
(* profile, and a configuration that is saved is read back as it was.       *)
(*                                                                          *)
(* The last comes first.  FoldLeft and FlattenSeq are recursive functions;  *)
(* that they exist, and what they do with one line or one profile more, is  *)
(* proved by counting: a set of naturals that lacks one lacks a least one.  *)
(*                                                                          *)
(* The invariant of the wrapper has four parts, each proved from the ones   *)
(* before: what the layer holds has a multiplier (BaseInv), what is         *)
(* signalled between two calls (SemaphoreInv), what the context was built   *)
(* for (CurrentInv) and what each lost image is accounted to (LossInv).     *)
(***************************************************************************)
EXTENDS FixedPresent, FiniteSetTheorems, SequenceTheorems, WellFoundedInduction, TLAPS

(* The least of some naturals is one of them.                               *)
LEMMA MinIsIn ==
  ASSUME NEW S, S \subseteq Nat, S # {}
  PROVE  Min(S) \in S
<1>1. PICK x \in S : \A y \in S : ~(<<y, x>> \in OpToRel(<, Nat))
  BY WFMin, NatLessThanWellFounded
<1>2. ASSUME NEW y \in S PROVE x <= y
  <2>1. <<y, x>> \notin {p \in Nat \X Nat : p[1] < p[2]}
    BY <1>1, Zenon DEF OpToRel
  <2> QED
    BY <2>1
<1> QED
  BY <1>2 DEF Min

(* A set with 0, and with what follows each of its numbers, has them all.   *)
LEMMA ByCounting ==
  ASSUME NEW S, 0 \in S, \A n \in Nat : n \in S => n + 1 \in S
  PROVE  Nat \subseteq S
<1> DEFINE T == Nat \ S
<1>1. SUFFICES ASSUME T # {} PROVE FALSE
  OBVIOUS
<1>2. PICK x \in T : \A y \in T : ~(<<y, x>> \in OpToRel(<, Nat))
  <2>1. T \subseteq Nat
    OBVIOUS
  <2> HIDE DEF T
  <2> QED
    BY <1>1, <2>1, WFMin, NatLessThanWellFounded, Zenon
<1>3. x \in Nat /\ x # 0
  OBVIOUS
<1>4. x - 1 \in Nat /\ x - 1 < x /\ (x - 1) + 1 = x
  BY <1>3
<1>5. x - 1 \in T
  BY <1>3, <1>4
<1>6. <<x - 1, x>> \notin {p \in Nat \X Nat : p[1] < p[2]}
  BY <1>2, <1>5, Zenon DEF OpToRel
<1> QED
  BY <1>3, <1>4, <1>6

(* The largest of some of the first numbers is one of them.                 *)
LEMMA MaxIsIn ==
  ASSUME NEW n \in Nat, NEW I \in SUBSET (1..n), I # {}
  PROVE  Max(I) \in I /\ \A i \in I : i <= Max(I)
<1> DEFINE S == {j \in Nat : I \cap (1..j) # {} =>
                               \E x \in I \cap (1..j) : \A y \in I \cap (1..j) : x >= y}
<1>1. 0 \in S
  OBVIOUS
<1>2. ASSUME NEW j \in Nat, j \in S PROVE j + 1 \in S
  <2>1. CASE j + 1 \in I
    <3>1. \A y \in I \cap (1..(j + 1)) : j + 1 >= y
      OBVIOUS
    <3>2. j + 1 \in I \cap (1..(j + 1))
      BY <2>1
    <3> QED
      BY <3>1, <3>2
  <2>2. CASE j + 1 \notin I
    <3>1. I \cap (1..(j + 1)) = I \cap (1..j)
      BY <2>2
    <3> QED
      BY <1>2, <3>1
  <2> QED
    BY <2>1, <2>2
<1>3. n \in S
  <2> HIDE DEF S
  <2> QED
    BY <1>1, <1>2, ByCounting
<1>4. I \cap (1..n) = I
  OBVIOUS
<1>5. \E x \in I : \A y \in I : x >= y
  BY <1>3, <1>4
<1>6. Max(I) \in I /\ \A y \in I : Max(I) >= y
  BY <1>5 DEF Max
<1> QED
  BY <1>6

(* Of the first n + 1 numbers the last is the largest.                      *)
LEMMA LastOfFirst ==
  ASSUME NEW n \in Nat
  PROVE  /\ Max(1..(n + 1)) = n + 1 /\ 1..(n + 1) # {} /\ (1..(n + 1)) \ {n + 1} = 1..n
         /\ 1..(n + 1) \in SUBSET (1..(n + 1))
<1>1. /\ 1..(n + 1) # {} /\ (1..(n + 1)) \ {n + 1} = 1..n
      /\ 1..(n + 1) \in SUBSET (1..(n + 1)) /\ n + 1 \in 1..(n + 1)
  OBVIOUS
<1>2. Max(1..(n + 1)) \in 1..(n + 1) /\ n + 1 <= Max(1..(n + 1))
  BY <1>1, MaxIsIn, n + 1 \in Nat
<1> QED
  BY <1>1, <1>2

-----------------------------------------------------------------------------
(* Reading line by line.                                                    *)

ReadLines(s, text) == FoldLeft(ParseLine, s, text)

NextLine(f, s, text, I) == IF I = {} THEN s ELSE ParseLine(f[I \ {Max(I)}], text[Max(I)])

Reader(s, text, n) ==
  CHOOSE f : f = [I \in SUBSET (1..n) |-> NextLine(f, s, text, I)]

(* Reading a text is what its reader makes of all of its lines.             *)
LEMMA ReadIs ==
  ASSUME NEW s, NEW text, NEW n, DOMAIN text = 1..n
  PROVE  ReadLines(s, text) = Reader(s, text, n)[1..n]
BY DEF ReadLines, Reader, NextLine, FoldLeft, MapThenFoldSet

(* Such a reader exists: the one of j lines extends to j + 1.               *)
LEMMA ReaderExists ==
  ASSUME NEW s, NEW text, NEW n \in Nat
  PROVE  \A I \in SUBSET (1..n) :
           Reader(s, text, n)[I] = NextLine(Reader(s, text, n), s, text, I)
<1> DEFINE S == {j \in Nat : \E f : f = [I \in SUBSET (1..j) |-> NextLine(f, s, text, I)]}
<1>1. 0 \in S
  <2> DEFINE f == [I \in SUBSET (1..0) |-> s]
  <2>1. \A I \in SUBSET (1..0) : NextLine(f, s, text, I) = s
    BY DEF NextLine
  <2>2. f = [I \in SUBSET (1..0) |-> NextLine(f, s, text, I)]
    BY <2>1, Zenon
  <2> HIDE DEF f
  <2> QED
    BY <2>2
<1>2. ASSUME NEW j \in Nat, j \in S PROVE j + 1 \in S
  <2>1. PICK g : g = [I \in SUBSET (1..j) |-> NextLine(g, s, text, I)]
    BY <1>2
  <2> DEFINE f == [I \in SUBSET (1..(j + 1)) |->
                     IF I \in SUBSET (1..j) THEN g[I] ELSE ParseLine(g[I \ {Max(I)}], text[Max(I)])]
  <2>2. ASSUME NEW I \in SUBSET (1..(j + 1)) PROVE f[I] = NextLine(f, s, text, I)
    <3>1. CASE I = {}
      <4>1. I \in SUBSET (1..j)
        BY <3>1
      <4>2. f[I] = g[I]
        BY <4>1
      <4>3. g[I] = NextLine(g, s, text, I)
        BY <2>1, <4>1, Zenon
      <4> QED
        BY <3>1, <4>2, <4>3, Zenon DEF NextLine
    <3>2. CASE I # {}
      <4>1. Max(I) \in I /\ \A i \in I : i <= Max(I)
        BY <3>2, MaxIsIn, j + 1 \in Nat
      <4>2. I \ {Max(I)} \in SUBSET (1..j)
        <5>1. ASSUME NEW i \in I, i # Max(I) PROVE i \in 1..j
          <6>1. i \in 1..(j + 1) /\ Max(I) \in 1..(j + 1) /\ i <= Max(I)
            BY <4>1
          <6> QED
            BY <5>1, <6>1
        <5> QED
          BY <5>1
      <4>3. I \ {Max(I)} \in SUBSET (1..(j + 1))
        OBVIOUS
      <4>4. f[I \ {Max(I)}] = g[I \ {Max(I)}]
        BY <4>2, <4>3, Zenon
      <4>5. NextLine(f, s, text, I) = ParseLine(g[I \ {Max(I)}], text[Max(I)])
        BY <3>2, <4>4, Zenon DEF NextLine
      <4>6. CASE I \in SUBSET (1..j)
        <5>1. g[I] = NextLine(g, s, text, I)
          BY <2>1, <4>6, Zenon
        <5> QED
          BY <3>2, <4>5, <4>6, <5>1, Zenon DEF NextLine
      <4>7. CASE I \notin SUBSET (1..j)
        BY <4>5, <4>7, Zenon
      <4> QED
        BY <4>6, <4>7, Zenon
    <3> QED
      BY <3>1, <3>2, Zenon
  <2>3. f = [I \in SUBSET (1..(j + 1)) |-> NextLine(f, s, text, I)]
    BY <2>2, Zenon
  <2>4. j + 1 \in Nat
    OBVIOUS
  <2> HIDE DEF f
  <2> QED
    BY <2>3, <2>4
<1>3. n \in S
  <2> HIDE DEF S
  <2> QED
    BY <1>1, <1>2, ByCounting
<1>4. PICK f : f = [I \in SUBSET (1..n) |-> NextLine(f, s, text, I)]
  BY <1>3, Zenon
<1>5. Reader(s, text, n) = [I \in SUBSET (1..n) |-> NextLine(Reader(s, text, n), s, text, I)]
  BY <1>4, Zenon DEF Reader
<1> QED
  BY <1>5, Zenon

(* The first lines are read alike whatever follows them.                    *)
LEMMA ReadsFirst ==
  ASSUME NEW s, NEW text, NEW n \in Nat, NEW more, NEW k \in Nat,
         \A i \in 1..n : text[i] = more[i], n <= k
  PROVE  Reader(s, text, n)[1..n] = Reader(s, more, k)[1..n]
<1> DEFINE f == Reader(s, text, n)
           g == Reader(s, more, k)
           S == {j \in Nat : j <= n => f[1..j] = g[1..j]}
<1>1. \A I \in SUBSET (1..n) : f[I] = NextLine(f, s, text, I)
  BY ReaderExists, Zenon
<1>2. \A I \in SUBSET (1..k) : g[I] = NextLine(g, s, more, I)
  BY ReaderExists, Zenon
<1> HIDE DEF f, g
<1>3. 0 \in S
  <2>1. 1..0 = {} /\ {} \in SUBSET (1..n) /\ {} \in SUBSET (1..k)
    OBVIOUS
  <2>2. f[{}] = s /\ g[{}] = s
    BY <1>1, <1>2, <2>1, Zenon DEF NextLine
  <2> QED
    BY <2>1, <2>2
<1>4. ASSUME NEW j \in Nat, j \in S PROVE j + 1 \in S
  <2>1. SUFFICES ASSUME j + 1 <= n PROVE f[1..(j + 1)] = g[1..(j + 1)]
    OBVIOUS
  <2>2. f[1..j] = g[1..j]
    BY <1>4, <2>1
  <2>3. Max(1..(j + 1)) = j + 1 /\ (1..(j + 1)) \ {j + 1} = 1..j /\ 1..(j + 1) # {}
    BY LastOfFirst, Zenon
  <2>5. 1..(j + 1) \in SUBSET (1..n) /\ 1..(j + 1) \in SUBSET (1..k) /\ j + 1 \in 1..n
    BY <2>1
  <2>6. f[1..(j + 1)] = NextLine(f, s, text, 1..(j + 1)) /\ g[1..(j + 1)] = NextLine(g, s, more, 1..(j + 1))
    BY <1>1, <1>2, <2>5, Zenon
  <2>7. text[j + 1] = more[j + 1]
    BY <2>5, Zenon
  <2> QED
    BY <2>2, <2>3, <2>6, <2>7, Zenon DEF NextLine
<1>5. n \in S
  <2> HIDE DEF S
  <2> QED
    BY <1>3, <1>4, ByCounting
<1> QED
  BY <1>5 DEF f, g

(* Nothing to read changes nothing.                                         *)
LEMMA ReadNone ==
  ASSUME NEW s
  PROVE  ReadLines(s, <<>>) = s
<1>1. DOMAIN <<>> = 1..0 /\ 1..0 = {} /\ 1..0 \in SUBSET (1..0)
  OBVIOUS
<1>2. ReadLines(s, <<>>) = Reader(s, <<>>, 0)[1..0]
  BY <1>1, ReadIs, Zenon
<1>3. Reader(s, <<>>, 0)[1..0] = NextLine(Reader(s, <<>>, 0), s, <<>>, 1..0)
  BY <1>1, ReaderExists, 0 \in Nat, Zenon
<1> QED
  BY <1>1, <1>2, <1>3, Zenon DEF NextLine

(* The last line is read after the others.                                  *)
LEMMA ReadLast ==
  ASSUME NEW s, NEW L, NEW text \in Seq(L), NEW line \in L
  PROVE  ReadLines(s, Append(text, line)) = ParseLine(ReadLines(s, text), line)
<1> DEFINE n == Len(text)
           more == Append(text, line)
           g == Reader(s, more, n + 1)
<1>1. n \in Nat /\ n + 1 \in Nat /\ n <= n + 1 /\ DOMAIN text = 1..n
  BY LenProperties
<1>2. Len(more) = n + 1 /\ DOMAIN more = 1..(n + 1) /\ more[n + 1] = line
      /\ \A i \in 1..n : text[i] = more[i]
  BY <1>1
<1>3. ReadLines(s, more) = g[1..(n + 1)]
  BY <1>2, ReadIs, Zenon
<1>4. ReadLines(s, text) = g[1..n]
  <2>1. ReadLines(s, text) = Reader(s, text, n)[1..n]
    BY <1>1, ReadIs, Zenon
  <2>2. Reader(s, text, n)[1..n] = g[1..n]
    <3> DEFINE k == n + 1
    <3>1. n \in Nat /\ k \in Nat /\ n <= k /\ \A i \in 1..n : text[i] = more[i]
      BY <1>1, <1>2
    <3> HIDE DEF n, more, k
    <3>2. Reader(s, text, n)[1..n] = Reader(s, more, k)[1..n]
      BY <3>1, ReadsFirst
    <3> QED
      BY <3>2 DEF k
  <2> QED
    BY <2>1, <2>2, Zenon
<1>5. \A I \in SUBSET (1..(n + 1)) : g[I] = NextLine(g, s, more, I)
  BY <1>1, ReaderExists, Zenon
<1> HIDE DEF n, more, g
<1>6. /\ Max(1..(n + 1)) = n + 1 /\ 1..(n + 1) # {} /\ (1..(n + 1)) \ {n + 1} = 1..n
      /\ 1..(n + 1) \in SUBSET (1..(n + 1))
  BY <1>1, LastOfFirst, Zenon
<1>8. g[1..(n + 1)] = NextLine(g, s, more, 1..(n + 1))
  BY <1>5, <1>6, Zenon
<1>9. g[1..(n + 1)] = ParseLine(g[1..n], line)
  BY <1>2, <1>6, <1>8, Zenon DEF NextLine
<1> QED
  BY <1>3, <1>4, <1>9, Zenon DEF more

(* A text that follows another is read from where that one ended.           *)
LEMMA ReadMore ==
  ASSUME NEW s, NEW L, NEW t \in Seq(L), NEW u \in Seq(L)
  PROVE  ReadLines(s, t \o u) = ReadLines(ReadLines(s, t), u)
<1> DEFINE S == {k \in Nat : \A v \in Seq(L) : Len(v) = k => ReadLines(s, t \o v) = ReadLines(ReadLines(s, t), v)}
<1>1. 0 \in S
  <2>1. ASSUME NEW v \in Seq(L), Len(v) = 0 PROVE ReadLines(s, t \o v) = ReadLines(ReadLines(s, t), v)
    <3>1. v = <<>>
      BY <2>1, EmptySeq
    <3>2. t \o v = t
      BY <3>1, ConcatEmptySeq
    <3> QED
      BY <3>1, <3>2, ReadNone, Zenon
  <2> QED
    BY <2>1
<1>2. ASSUME NEW k \in Nat, k \in S PROVE k + 1 \in S
  <2>1. ASSUME NEW v \in Seq(L), Len(v) = k + 1 PROVE ReadLines(s, t \o v) = ReadLines(ReadLines(s, t), v)
    <3>1. PICK w \in Seq(L), line \in L : v = Append(w, line)
      <4>1. v # <<>>
        BY <2>1, EmptySeq
      <4> QED
        BY <4>1, SequenceEmptyOrAppend
    <3>2. Len(w) = k
      BY <2>1, <3>1, AppendProperties
    <3>3. t \o w \in Seq(L) /\ t \o v = Append(t \o w, line)
      <4>1. t \o w \in Seq(L) /\ v = w \o <<line>> /\ <<line>> \in Seq(L)
        BY <3>1
      <4>2. t \o v = (t \o w) \o <<line>>
        BY <4>1, ConcatAssociative
      <4> QED
        BY <4>1, <4>2
    <3>4. ReadLines(s, t \o w) = ReadLines(ReadLines(s, t), w)
      BY <1>2, <3>2
    <3>5. ReadLines(s, Append(t \o w, line)) = ParseLine(ReadLines(s, t \o w), line)
      <4>1. ASSUME NEW x \in Seq(L)
            PROVE  ReadLines(s, Append(x, line)) = ParseLine(ReadLines(s, x), line)
        BY ReadLast
      <4> QED
        BY <3>3, <4>1, Zenon
    <3>6. ReadLines(ReadLines(s, t), Append(w, line)) = ParseLine(ReadLines(ReadLines(s, t), w), line)
      BY ReadLast
    <3> QED
      BY <3>1, <3>3, <3>4, <3>5, <3>6, Zenon
  <2> QED
    BY <2>1
<1>3. Len(u) \in Nat
  BY LenProperties
<1>4. Len(u) \in S
  <2> HIDE DEF S
  <2> QED
    BY <1>1, <1>2, <1>3, ByCounting
<1> QED
  BY <1>4

(* A text of one line.                                                      *)
LEMMA ReadOne ==
  ASSUME NEW s, NEW a
  PROVE  ReadLines(s, <<a>>) = ParseLine(s, a)
<1> DEFINE L == {a}
<1>1. <<a>> = Append(<<>>, a) /\ <<>> \in Seq(L) /\ a \in L
  OBVIOUS
<1> HIDE DEF L
<1>2. ReadLines(s, Append(<<>>, a)) = ParseLine(ReadLines(s, <<>>), a)
  <2>1. ASSUME NEW t \in Seq(L), NEW line \in L
        PROVE  ReadLines(s, Append(t, line)) = ParseLine(ReadLines(s, t), line)
    BY ReadLast
  <2> QED
    BY <1>1, <2>1, Zenon
<1> QED
  BY <1>1, <1>2, ReadNone, Zenon

(* A text of two.                                                           *)
LEMMA ReadTwo ==
  ASSUME NEW s, NEW a, NEW b
  PROVE  ReadLines(s, <<a, b>>) = ParseLine(ParseLine(s, a), b)
<1> DEFINE L == {a, b}
<1>1. <<a, b>> = Append(<<a>>, b) /\ <<a>> \in Seq(L) /\ b \in L
  OBVIOUS
<1> HIDE DEF L
<1>2. ReadLines(s, Append(<<a>>, b)) = ParseLine(ReadLines(s, <<a>>), b)
  <2>1. ASSUME NEW t \in Seq(L), NEW line \in L
        PROVE  ReadLines(s, Append(t, line)) = ParseLine(ReadLines(s, t), line)
    BY ReadLast
  <2> QED
    BY <1>1, <2>1, Zenon
<1> QED
  BY <1>1, <1>2, ReadOne, Zenon

(* A text of three.                                                         *)
LEMMA ReadThree ==
  ASSUME NEW s, NEW a, NEW b, NEW c
  PROVE  ReadLines(s, <<a, b, c>>) = ParseLine(ParseLine(ParseLine(s, a), b), c)
<1> DEFINE L == {a, b, c}
<1>1. <<a, b, c>> = Append(<<a, b>>, c) /\ <<a, b>> \in Seq(L) /\ c \in L
  OBVIOUS
<1> HIDE DEF L
<1>2. ReadLines(s, Append(<<a, b>>, c)) = ParseLine(ReadLines(s, <<a, b>>), c)
  <2>1. ASSUME NEW t \in Seq(L), NEW line \in L
        PROVE  ReadLines(s, Append(t, line)) = ParseLine(ReadLines(s, t), line)
    BY ReadLast
  <2> QED
    BY <1>1, <2>1, Zenon
<1>3. ReadLines(s, <<a, b>>) = ParseLine(ParseLine(s, a), b)
  BY ReadTwo
<1> QED
  BY <1>1, <1>2, <1>3

-----------------------------------------------------------------------------
(* Sequences one after another.                                             *)

Joined(seqs, n) ==
  CHOOSE f : f = [i \in 1..n |-> IF i = 1 THEN seqs[i] ELSE f[i - 1] \o seqs[i]]

(* What FlattenSeq makes of some sequences.                                 *)
LEMMA FlattenIs ==
  ASSUME NEW seqs, Len(seqs) # 0
  PROVE  FlattenSeq(seqs) = Joined(seqs, Len(seqs))[Len(seqs)]
BY DEF FlattenSeq, Joined

(* Each sequence is added behind those before it.                           *)
LEMMA FlatSteps ==
  ASSUME NEW seqs, NEW n \in Nat
  PROVE  \A i \in 1..n :
           Joined(seqs, n)[i] = IF i = 1 THEN seqs[i] ELSE Joined(seqs, n)[i - 1] \o seqs[i]
<1> DEFINE S == {j \in Nat : \E f : f = [i \in 1..j |-> IF i = 1 THEN seqs[i] ELSE f[i - 1] \o seqs[i]]}
<1>1. 0 \in S
  <2> DEFINE f == [i \in 1..0 |-> seqs[i]]
  <2>1. f = [i \in 1..0 |-> IF i = 1 THEN seqs[i] ELSE f[i - 1] \o seqs[i]]
    OBVIOUS
  <2> HIDE DEF f
  <2> QED
    BY <2>1
<1>2. ASSUME NEW j \in Nat, j \in S PROVE j + 1 \in S
  <2>1. PICK g : g = [i \in 1..j |-> IF i = 1 THEN seqs[i] ELSE g[i - 1] \o seqs[i]]
    BY <1>2
  <2>2. \A i \in 1..j : g[i] = IF i = 1 THEN seqs[i] ELSE g[i - 1] \o seqs[i]
    BY <2>1, Zenon
  <2> DEFINE f == [i \in 1..(j + 1) |->
                     IF i = 1 THEN seqs[i] ELSE IF i = j + 1 THEN g[i - 1] \o seqs[i] ELSE g[i]]
  <2>3. ASSUME NEW i \in 1..(j + 1) PROVE f[i] = IF i = 1 THEN seqs[i] ELSE f[i - 1] \o seqs[i]
    <3>1. CASE i = 1
      BY <3>1
    <3>2. CASE i # 1
      <4>1. i - 1 \in 1..j /\ i - 1 \in 1..(j + 1) /\ i - 1 # j + 1
        BY <3>2
      <4>2. f[i - 1] = g[i - 1]
        <5>1. CASE i - 1 = 1
          BY <2>2, <4>1, <5>1
        <5>2. CASE i - 1 # 1
          BY <4>1, <5>2
        <5> QED
          BY <5>1, <5>2
      <4>3. CASE i = j + 1
        BY <3>2, <4>2, <4>3
      <4>4. CASE i # j + 1
        <5>1. i \in 1..j
          BY <4>4
        <5>2. g[i] = g[i - 1] \o seqs[i]
          BY <2>2, <3>2, <5>1
        <5> QED
          BY <3>2, <4>2, <4>4, <5>2
      <4> QED
        BY <4>3, <4>4
    <3> QED
      BY <3>1, <3>2
  <2>4. f = [i \in 1..(j + 1) |-> IF i = 1 THEN seqs[i] ELSE f[i - 1] \o seqs[i]]
    BY <2>3, Zenon
  <2>5. j + 1 \in Nat
    OBVIOUS
  <2> HIDE DEF f
  <2> QED
    BY <2>4, <2>5
<1>3. n \in S
  <2> HIDE DEF S
  <2> QED
    BY <1>1, <1>2, ByCounting
<1>4. PICK f : f = [i \in 1..n |-> IF i = 1 THEN seqs[i] ELSE f[i - 1] \o seqs[i]]
  BY <1>3, Zenon
<1>5. Joined(seqs, n) = [i \in 1..n |-> IF i = 1 THEN seqs[i] ELSE Joined(seqs, n)[i - 1] \o seqs[i]]
  BY <1>4, Zenon DEF Joined
<1> QED
  BY <1>5, Zenon

-----------------------------------------------------------------------------
(* One profile.                                                             *)

(* The strings, the code's own named: no prover knows that they are some.   *)
Names == STRING \cup {"", "off", "000000", "Default 2x"}

GivenProfiles ==
  {p \in [name : Names, active_in : Seq(Names), multiplier : Nat, flow_auto : BOOLEAN,
          flow_scale : Int, performance_mode : BOOLEAN, scaler : Names] :
     p.flow_auto => p.flow_scale = DefaultProfile.flow_scale}

GivenLines ==
  {<<"[global]">>, <<"[[profile]]">>, <<"version", "int", 2>>, <<"flow_scale", "auto">>}
  \cup {<<"allow_fp16", "bool", v>> : v \in BOOLEAN} \cup {<<"name", "str", v>> : v \in Names}
  \cup {<<"active_in", "arr", v>> : v \in Seq(Names)} \cup {<<"multiplier", "int", v>> : v \in Nat}
  \cup {<<"flow_scale", "num", v>> : v \in Int}
  \cup {<<"performance_mode", "bool", v>> : v \in BOOLEAN} \cup {<<"scaler", "scaler", v>> : v \in Names}

ParserStates ==
  [section : {"top", "global", "profile"}, version_ok : BOOLEAN, saw_global : BOOLEAN, ok : BOOLEAN,
   cfg : [allow_fp16 : BOOLEAN, profiles : Seq(GivenProfiles)]]

(* What follows given lines is read from where they ended.                  *)
LEMMA GivenMore ==
  ASSUME NEW s, NEW t \in Seq(GivenLines), NEW u \in Seq(GivenLines)
  PROVE  /\ t \o u \in Seq(GivenLines)
         /\ ReadLines(s, t \o u) = ReadLines(ReadLines(s, t), u)
<1>1. t \o u \in Seq(GivenLines)
  BY ConcatProperties
<1>2. ReadLines(s, t \o u) = ReadLines(ReadLines(s, t), u)
  BY ReadMore
<1> QED
  BY <1>1, <1>2

(* The parser has read a header and some profiles, nothing wrong.           *)
HasRead(s, fp16, profiles) ==
  /\ s \in ParserStates
  /\ s.ok /\ s.version_ok /\ s.saw_global
  /\ s.cfg.allow_fp16 = fp16 /\ s.cfg.profiles = profiles

(* The lines of a profile, in their four parts.                             *)
Title(p) == <<<<"[[profile]]">>, <<"name", "str", p.name>>>>
Listed(p) == IF p.active_in = <<>> THEN <<>> ELSE <<<<"active_in", "arr", p.active_in>>>>
Scale(p) == IF p.flow_auto THEN <<"flow_scale", "auto">> ELSE <<"flow_scale", "num", p.flow_scale>>
Middle(p) ==
  <<<<"multiplier", "int", p.multiplier>>, Scale(p), <<"performance_mode", "bool", p.performance_mode>>>>
Scaled(p) == IF p.scaler = "off" THEN <<>> ELSE <<<<"scaler", "scaler", p.scaler>>>>

(* The lines of a profile are these parts in this order.                    *)
LEMMA ProfileParts ==
  ASSUME NEW p \in GivenProfiles
  PROVE  /\ ProfileLines(p) = Title(p) \o Listed(p) \o Middle(p) \o Scaled(p)
         /\ Title(p) \in Seq(GivenLines) /\ Listed(p) \in Seq(GivenLines) /\ Middle(p) \in Seq(GivenLines)
         /\ Scaled(p) \in Seq(GivenLines)
<1>1. /\ p.name \in Names /\ p.active_in \in Seq(Names) /\ p.multiplier \in Nat /\ p.flow_scale \in Int
      /\ p.performance_mode \in BOOLEAN /\ p.scaler \in Names
  BY DEF GivenProfiles
<1> DEFINE N == <<"name", "str", p.name>>
           I == <<"active_in", "arr", p.active_in>>
           M == <<"multiplier", "int", p.multiplier>>
           A == <<"flow_scale", "auto">>
           F == <<"flow_scale", "num", p.flow_scale>>
           B == <<"performance_mode", "bool", p.performance_mode>>
           U == <<"scaler", "scaler", p.scaler>>
           H == <<"[[profile]]">>
<1>2. /\ N \in GivenLines /\ I \in GivenLines /\ M \in GivenLines /\ A \in GivenLines
      /\ F \in GivenLines /\ B \in GivenLines /\ U \in GivenLines /\ H \in GivenLines
  BY <1>1, Zenon DEF GivenLines
<1>3. Scale(p) \in GivenLines
  BY <1>2, Zenon DEF Scale
<1>4. /\ Title(p) = <<H, N>> /\ Listed(p) = (IF p.active_in = <<>> THEN <<>> ELSE <<I>>)
      /\ Middle(p) = <<M, Scale(p), B>> /\ Scaled(p) = (IF p.scaler = "off" THEN <<>> ELSE <<U>>)
  BY Zenon DEF Title, Listed, Middle, Scaled
<1>5. ProfileLines(p) = Title(p) \o Listed(p) \o Middle(p) \o Scaled(p)
  BY Zenon DEF ProfileLines, Title, Listed, Middle, Scale, Scaled
<1> HIDE DEF N, I, M, B, U, H
<1>6. /\ Title(p) \in Seq(GivenLines) /\ Listed(p) \in Seq(GivenLines) /\ Middle(p) \in Seq(GivenLines)
      /\ Scaled(p) \in Seq(GivenLines)
  BY <1>2, <1>3, <1>4
<1> QED
  BY <1>5, <1>6

(* All of its lines are of a known form.                                    *)
LEMMA ProfileTypes ==
  ASSUME NEW p \in GivenProfiles
  PROVE  ProfileLines(p) \in Seq(GivenLines)
<1> DEFINE h == Title(p)
           l == Listed(p)
           j == Middle(p)
           s == Scaled(p)
<1>1. ProfileLines(p) = h \o l \o j \o s
      /\ h \in Seq(GivenLines) /\ l \in Seq(GivenLines) /\ j \in Seq(GivenLines) /\ s \in Seq(GivenLines)
  BY ProfileParts, Zenon
<1> HIDE DEF h, l, j, s
<1> QED
  BY <1>1, ConcatProperties

(* Other profiles in the same state of the parser.                          *)
LEMMA ProfilesChange ==
  ASSUME NEW s \in ParserStates, NEW ps \in Seq(GivenProfiles)
  PROVE  LET r == [s EXCEPT !.cfg = [s.cfg EXCEPT !.profiles = ps]]
         IN /\ r \in ParserStates /\ r.section = s.section
            /\ r.ok = s.ok /\ r.version_ok = s.version_ok /\ r.saw_global = s.saw_global
            /\ r.cfg.allow_fp16 = s.cfg.allow_fp16 /\ r.cfg.profiles = ps
<1> DEFINE C == [allow_fp16 : BOOLEAN, profiles : Seq(GivenProfiles)]
           c == [s.cfg EXCEPT !.profiles = ps]
<1>1. s.cfg \in C
  BY DEF ParserStates
<1>2. c \in C /\ c.allow_fp16 = s.cfg.allow_fp16 /\ c.profiles = ps
  BY <1>1
<1> HIDE DEF c
<1>3. LET r == [s EXCEPT !.cfg = c]
      IN /\ r \in ParserStates /\ r.section = s.section
         /\ r.ok = s.ok /\ r.version_ok = s.version_ok /\ r.saw_global = s.saw_global /\ r.cfg = c
  BY <1>2 DEF ParserStates
<1> QED
  BY <1>2, <1>3, Zenon DEF c

(* The default profile is a profile.                                        *)
LEMMA DefaultIsOne == DefaultProfile \in GivenProfiles
<1> DEFINE Shape == [name : Names, active_in : Seq(Names), multiplier : Nat, flow_auto : BOOLEAN,
                     flow_scale : Int, performance_mode : BOOLEAN, scaler : Names]
<1>1. ASSUME NEW n \in Names, NEW a \in Seq(Names), NEW j \in Nat, NEW f \in BOOLEAN, NEW g \in Int,
             NEW b \in BOOLEAN, NEW c \in Names
      PROVE  [name |-> n, active_in |-> a, multiplier |-> j, flow_auto |-> f, flow_scale |-> g,
              performance_mode |-> b, scaler |-> c] \in Shape
  OBVIOUS
<1>2. <<>> \in Seq(Names) /\ 2 \in Nat /\ 100 \in Int /\ FALSE \in BOOLEAN
  OBVIOUS
<1>3. "" \in Names /\ "off" \in Names
  BY Zenon DEF Names
<1>4. DefaultProfile \in Shape
  <2> HIDE DEF Shape
  <2> QED
    BY <1>1, <1>2, <1>3, Zenon DEF DefaultProfile
<1> QED
  BY <1>4, Zenon DEF GivenProfiles

(* A profile begins as the default one, behind those read before.           *)
LEMMA ReadHeader ==
  ASSUME NEW s, NEW fp16, NEW done \in Seq(GivenProfiles), HasRead(s, fp16, done)
  PROVE  /\ HasRead(ParseLine(s, <<"[[profile]]">>), fp16, Append(done, DefaultProfile))
         /\ ParseLine(s, <<"[[profile]]">>).section = "profile"
<1> DEFINE line == <<"[[profile]]">>
           ps == Append(s.cfg.profiles, DefaultProfile)
           r == [s EXCEPT !.section = "profile"]
<1>1. s.ok /\ line[1] # "[global]" /\ line[1] = "[[profile]]" /\ s.cfg.profiles = done
  BY DEF HasRead
<1>2. ParseLine(s, line) = [s EXCEPT !.section = "profile", !.cfg.profiles = Append(@, DefaultProfile)]
  <2> HIDE DEF line
  <2> QED
    BY <1>1, Zenon DEF ParseLine
<1>3. ParseLine(s, line) = [r EXCEPT !.cfg = [r.cfg EXCEPT !.profiles = ps]]
  BY <1>2, Zenon
<1>4. ps \in Seq(GivenProfiles) /\ ps = Append(done, DefaultProfile)
  BY <1>1, DefaultIsOne
<1>5. /\ r \in ParserStates /\ r.section = "profile"
      /\ r.ok = s.ok /\ r.version_ok = s.version_ok /\ r.saw_global = s.saw_global /\ r.cfg = s.cfg
  BY DEF HasRead, ParserStates
<1> HIDE DEF r, ps, line
<1>6. LET q == [r EXCEPT !.cfg = [r.cfg EXCEPT !.profiles = ps]]
      IN /\ q \in ParserStates /\ q.section = r.section
         /\ q.ok = r.ok /\ q.version_ok = r.version_ok /\ q.saw_global = r.saw_global
         /\ q.cfg.allow_fp16 = r.cfg.allow_fp16 /\ q.cfg.profiles = ps
  BY <1>4, <1>5, ProfilesChange
<1>7. /\ HasRead([r EXCEPT !.cfg = [r.cfg EXCEPT !.profiles = ps]], fp16, ps)
      /\ [r EXCEPT !.cfg = [r.cfg EXCEPT !.profiles = ps]].section = "profile"
  BY <1>5, <1>6, Zenon DEF HasRead
<1> QED
  BY <1>3, <1>4, <1>7, Zenon DEF line

(* A key that is taken changes the last profile only.                       *)
LEMMA ReadKey ==
  ASSUME NEW s, NEW fp16, NEW done \in Seq(GivenProfiles), NEW p \in GivenProfiles, NEW line,
         HasRead(s, fp16, Append(done, p)), s.section = "profile",
         Takes("profile", line), line[1] # "[global]", line[1] # "[[profile]]",
         ProfileKey(p, line) \in GivenProfiles
  PROVE  /\ HasRead(ParseLine(s, line), fp16, Append(done, ProfileKey(p, line)))
         /\ ParseLine(s, line).section = "profile"
<1> DEFINE n == Len(s.cfg.profiles)
           ps == [s.cfg.profiles EXCEPT ![n] = ProfileKey(s.cfg.profiles[n], line)]
<1>1. s.ok /\ s.cfg.profiles = Append(done, p) /\ s \in ParserStates
  BY DEF HasRead
<1>2. ParseLine(s, line) = [s EXCEPT !.cfg.profiles[Len(s.cfg.profiles)] = ProfileKey(@, line)]
  <2>1. ParseLine(s, line) = SetKey(s, line)
    BY <1>1, Zenon DEF ParseLine
  <2>2. "profile" # "top" /\ "profile" # "global"
    OBVIOUS
  <2> QED
    BY <2>1, <2>2, Zenon DEF SetKey
<1>3. ParseLine(s, line) = [s EXCEPT !.cfg = [s.cfg EXCEPT !.profiles = ps]]
  BY <1>2, Zenon
<1>4. ps = Append(done, ProfileKey(p, line)) /\ ps \in Seq(GivenProfiles)
  <2> DEFINE q == ProfileKey(p, line)
             d == Append(done, p)
  <2>1. d[Len(d)] = p
    OBVIOUS
  <2>2. q \in GivenProfiles
    OBVIOUS
  <2> HIDE DEF q
  <2>3. [d EXCEPT ![Len(d)] = q] = Append(done, q) /\ Append(done, q) \in Seq(GivenProfiles)
    <3>1. d \in Seq(GivenProfiles) /\ Len(d) = Len(done) + 1 /\ Len(done) \in Nat /\ Len(d) \in 1..Len(d)
      OBVIOUS
    <3>2. /\ Append(done, q) \in Seq(GivenProfiles) /\ Len(Append(done, q)) = Len(d)
          /\ \A i \in 1..Len(d) : (IF i = Len(d) THEN q ELSE d[i]) = Append(done, q)[i]
      BY <2>2, <3>1
    <3> HIDE DEF d
    <3>3. /\ [d EXCEPT ![Len(d)] = q] \in Seq(GivenProfiles) /\ Len([d EXCEPT ![Len(d)] = q]) = Len(d)
          /\ \A i \in 1..Len(d) : [d EXCEPT ![Len(d)] = q][i] = IF i = Len(d) THEN q ELSE d[i]
      BY <2>2, <3>1, ExceptSeq
    <3> DEFINE e == [d EXCEPT ![Len(d)] = q]
               a == Append(done, q)
    <3>4. e \in Seq(GivenProfiles) /\ a \in Seq(GivenProfiles) /\ Len(e) = Len(a)
      BY <3>2, <3>3, Zenon
    <3>5. \A i \in 1..Len(e) : e[i] = a[i]
      BY <3>2, <3>3, Zenon
    <3> HIDE DEF e, a
    <3>6. e = a
      BY <3>4, <3>5, SeqEqual
    <3> QED
      BY <3>4, <3>6, Zenon DEF e, a
  <2>4. ps = [d EXCEPT ![Len(d)] = q]
    BY <1>1, <2>1, Zenon DEF q
  <2> QED
    BY <2>3, <2>4, Zenon DEF q
<1> HIDE DEF ps
<1>5. LET r == [s EXCEPT !.cfg = [s.cfg EXCEPT !.profiles = ps]]
      IN /\ r \in ParserStates /\ r.section = s.section
         /\ r.ok = s.ok /\ r.version_ok = s.version_ok /\ r.saw_global = s.saw_global
         /\ r.cfg.allow_fp16 = s.cfg.allow_fp16 /\ r.cfg.profiles = ps
  BY <1>1, <1>4, ProfilesChange
<1>6. /\ HasRead([s EXCEPT !.cfg = [s.cfg EXCEPT !.profiles = ps]], fp16, ps)
      /\ [s EXCEPT !.cfg = [s.cfg EXCEPT !.profiles = ps]].section = "profile"
  BY <1>1, <1>5, Zenon DEF HasRead
<1> QED
  BY <1>3, <1>4, <1>6, Zenon

(* A profile and each of its fields.                                        *)
HasFields(q, n, a, j, f, g, b, c) ==
  /\ q \in GivenProfiles
  /\ q.name = n /\ q.active_in = a /\ q.multiplier = j /\ (q.flow_auto <=> f) /\ q.flow_scale = g
  /\ (q.performance_mode <=> b) /\ q.scaler = c

(* Each line of a profile sets its field.                                   *)
LEMMA NameSet ==
  ASSUME NEW q, NEW n, NEW a, NEW j, NEW f \in BOOLEAN, NEW g, NEW b \in BOOLEAN, NEW c,
         HasFields(q, n, a, j, f, g, b, c), NEW v \in Names
  PROVE  HasFields(ProfileKey(q, <<"name", "str", v>>), v, a, j, f, g, b, c)
BY DEF ProfileKey, GivenProfiles, HasFields

(* active_in sets the list.                                                 *)
LEMMA ListSet ==
  ASSUME NEW q, NEW n, NEW a, NEW j, NEW f \in BOOLEAN, NEW g, NEW b \in BOOLEAN, NEW c,
         HasFields(q, n, a, j, f, g, b, c), NEW v \in Seq(Names)
  PROVE  HasFields(ProfileKey(q, <<"active_in", "arr", v>>), n, v, j, f, g, b, c)
BY DEF ProfileKey, GivenProfiles, HasFields

(* multiplier sets the multiplier.                                          *)
LEMMA MultiplierSet ==
  ASSUME NEW q, NEW n, NEW a, NEW j, NEW f \in BOOLEAN, NEW g, NEW b \in BOOLEAN, NEW c,
         HasFields(q, n, a, j, f, g, b, c), NEW v \in Nat
  PROVE  HasFields(ProfileKey(q, <<"multiplier", "int", v>>), n, a, v, f, g, b, c)
BY DEF ProfileKey, GivenProfiles, HasFields

(* performance_mode sets the mode.                                          *)
LEMMA ModeSet ==
  ASSUME NEW q, NEW n, NEW a, NEW j, NEW f \in BOOLEAN, NEW g, NEW b \in BOOLEAN, NEW c,
         HasFields(q, n, a, j, f, g, b, c), NEW v \in BOOLEAN
  PROVE  HasFields(ProfileKey(q, <<"performance_mode", "bool", v>>), n, a, j, f, g, v, c)
BY DEF ProfileKey, GivenProfiles, HasFields

(* scaler sets the scaler.                                                  *)
LEMMA ScalerSet ==
  ASSUME NEW q, NEW n, NEW a, NEW j, NEW f \in BOOLEAN, NEW g, NEW b \in BOOLEAN, NEW c,
         HasFields(q, n, a, j, f, g, b, c), NEW v \in Names
  PROVE  HasFields(ProfileKey(q, <<"scaler", "scaler", v>>), n, a, j, f, g, b, v)
BY DEF ProfileKey, GivenProfiles, HasFields

(* An automatic flow scale leaves the number of the default.                *)
LEMMA AutoSet ==
  ASSUME NEW q, NEW n, NEW a, NEW j, NEW f \in BOOLEAN, NEW g, NEW b \in BOOLEAN, NEW c,
         HasFields(q, n, a, j, f, g, b, c), g = DefaultProfile.flow_scale
  PROVE  HasFields(ProfileKey(q, <<"flow_scale", "auto">>), n, a, j, TRUE, g, b, c)
BY DEF ProfileKey, GivenProfiles, HasFields

(* A number is a flow scale that is not automatic.                          *)
LEMMA NumberSet ==
  ASSUME NEW q, NEW n, NEW a, NEW j, NEW f \in BOOLEAN, NEW g, NEW b \in BOOLEAN, NEW c,
         HasFields(q, n, a, j, f, g, b, c), NEW v \in Int
  PROVE  HasFields(ProfileKey(q, <<"flow_scale", "num", v>>), n, a, j, FALSE, v, b, c)
<1> DEFINE line == <<"flow_scale", "num", v>>
           r == [q EXCEPT !.flow_auto = FALSE, !.flow_scale = v]
<1>1. ProfileKey(q, line) = r
  BY DEF ProfileKey
<1>2. HasFields(r, n, a, j, FALSE, v, b, c)
  BY DEF GivenProfiles, HasFields
<1> QED
  BY <1>1, <1>2, Zenon

(* Profiles with the same fields are the same.                              *)
LEMMA FieldsAreAll ==
  ASSUME NEW q, NEW p \in GivenProfiles,
         HasFields(q, p.name, p.active_in, p.multiplier, p.flow_auto, p.flow_scale, p.performance_mode, p.scaler)
  PROVE  q = p
BY DEF HasFields, GivenProfiles

(* The parser is in a profile, behind some others.                          *)
InProfile(t, fp16, done, q) == HasRead(t, fp16, Append(done, q)) /\ t.section = "profile"

(* The keys of one type are taken.                                          *)
LEMMA KeyRead ==
  ASSUME NEW t, NEW fp16, NEW done \in Seq(GivenProfiles), NEW q \in GivenProfiles, InProfile(t, fp16, done, q),
         NEW key, NEW type, NEW v, type = KeyTypes[key],
         key \in {"name", "active_in", "multiplier", "performance_mode", "scaler"},
         ProfileKey(q, <<key, type, v>>) \in GivenProfiles
  PROVE  InProfile(ParseLine(t, <<key, type, v>>), fp16, done, ProfileKey(q, <<key, type, v>>))
<1> DEFINE line == <<key, type, v>>
<1>1. line[1] = key /\ line[2] = type
  OBVIOUS
<1>2. Takes("profile", line) /\ line[1] # "[global]" /\ line[1] # "[[profile]]"
  BY <1>1 DEF Takes, KeyTypes
<1>3. ProfileKey(q, line) \in GivenProfiles
  OBVIOUS
<1> HIDE DEF line
<1>4. InProfile(ParseLine(t, line), fp16, done, ProfileKey(q, line))
  BY <1>2, <1>3, ReadKey DEF InProfile
<1> QED
  BY <1>4 DEF line

(* So is the flow scale, a number or automatic.                             *)
LEMMA ScaleRead ==
  ASSUME NEW t, NEW fp16, NEW done \in Seq(GivenProfiles), NEW q \in GivenProfiles, InProfile(t, fp16, done, q),
         NEW p \in GivenProfiles, ProfileKey(q, Scale(p)) \in GivenProfiles
  PROVE  InProfile(ParseLine(t, Scale(p)), fp16, done, ProfileKey(q, Scale(p)))
<1> DEFINE line == Scale(p)
<1>1. line[1] = "flow_scale" /\ line[2] \in {"auto", "num"}
  BY DEF Scale
<1> HIDE DEF line
<1>2. Takes("profile", line) /\ line[1] # "[global]" /\ line[1] # "[[profile]]"
  BY <1>1 DEF Takes
<1>3. ProfileKey(q, line) \in GivenProfiles
  BY DEF line
<1>4. InProfile(ParseLine(t, line), fp16, done, ProfileKey(q, line))
  BY <1>2, <1>3, ReadKey DEF InProfile
<1> QED
  BY <1>4 DEF line

(* A profile that is read back is the one that was written.                 *)
LEMMA ReadProfile ==
  ASSUME NEW s, NEW fp16, NEW done \in Seq(GivenProfiles), NEW p \in GivenProfiles, HasRead(s, fp16, done)
  PROVE  HasRead(ReadLines(s, ProfileLines(p)), fp16, Append(done, p))
<1> DEFINE D == DefaultProfile
           N == <<"name", "str", p.name>>
           A == <<"active_in", "arr", p.active_in>>
           M == <<"multiplier", "int", p.multiplier>>
           B == <<"performance_mode", "bool", p.performance_mode>>
           U == <<"scaler", "scaler", p.scaler>>
           t1 == ParseLine(s, <<"[[profile]]">>)
           t2 == ReadLines(s, Title(p))
           t3 == ReadLines(t2, Listed(p))
           t4 == ReadLines(t3, Middle(p))
           t5 == ReadLines(t4, Scaled(p))
<1>1. /\ p.name \in Names /\ p.active_in \in Seq(Names) /\ p.multiplier \in Nat /\ p.flow_scale \in Int
      /\ p.performance_mode \in BOOLEAN /\ p.scaler \in Names /\ p.flow_auto \in BOOLEAN
      /\ p.flow_auto => p.flow_scale = D.flow_scale
  BY DEF GivenProfiles
<1>2. /\ HasFields(D, D.name, D.active_in, D.multiplier, D.flow_auto, D.flow_scale, D.performance_mode, D.scaler)
      /\ D \in GivenProfiles /\ D.flow_auto \in BOOLEAN /\ D.performance_mode \in BOOLEAN
  BY DefaultIsOne DEF HasFields, GivenProfiles
<1>3. D.active_in = <<>> /\ D.scaler = "off"
  BY Zenon DEF DefaultProfile
<1>4. /\ KeyTypes["name"] = "str" /\ KeyTypes["active_in"] = "arr" /\ KeyTypes["multiplier"] = "int"
      /\ KeyTypes["performance_mode"] = "bool" /\ KeyTypes["scaler"] = "scaler"
  BY DEF KeyTypes
<1> HIDE DEF D
<1>5. InProfile(t1, fp16, done, D)
  BY ReadHeader DEF InProfile, D
<1>6. \E q \in GivenProfiles : /\ InProfile(t2, fp16, done, q)
                      /\ HasFields(q, p.name, D.active_in, D.multiplier, D.flow_auto, D.flow_scale,
                                D.performance_mode, D.scaler)
  <2> DEFINE q == ProfileKey(D, N)
             H == <<"[[profile]]">>
  <2>1. t2 = ParseLine(t1, N)
    <3>1. Title(p) = <<H, N>>
      BY DEF Title
    <3> HIDE DEF H, N
    <3>2. ReadLines(s, <<H, N>>) = ParseLine(ParseLine(s, H), N)
      BY ReadTwo
    <3> QED
      BY <3>1, <3>2, Zenon DEF H
  <2>2. HasFields(q, p.name, D.active_in, D.multiplier, D.flow_auto, D.flow_scale, D.performance_mode, D.scaler)
    BY <1>1, <1>2, NameSet
  <2>3. q \in GivenProfiles
    BY <2>2 DEF HasFields
  <2>4. InProfile(ParseLine(t1, N), fp16, done, q)
    BY <1>2, <1>4, <1>5, <2>3, KeyRead
  <2> QED
    BY <2>1, <2>2, <2>3, <2>4, Zenon
<1>7. \E q \in GivenProfiles : /\ InProfile(t3, fp16, done, q)
                      /\ HasFields(q, p.name, p.active_in, D.multiplier, D.flow_auto, D.flow_scale,
                                D.performance_mode, D.scaler)
  <2>1. PICK q \in GivenProfiles : /\ InProfile(t2, fp16, done, q)
                          /\ HasFields(q, p.name, D.active_in, D.multiplier, D.flow_auto, D.flow_scale,
                                    D.performance_mode, D.scaler)
    BY <1>6
  <2>2. CASE p.active_in = <<>>
    <3>1. t3 = t2
      BY <2>2, ReadNone, Zenon DEF Listed
    <3> QED
      BY <1>3, <2>1, <2>2, <3>1, Zenon
  <2>3. CASE p.active_in # <<>>
    <3> DEFINE r == ProfileKey(q, A)
    <3>1. t3 = ParseLine(t2, A)
      <4>1. Listed(p) = <<A>>
        BY <2>3 DEF Listed
      <4> HIDE DEF A, t2
      <4>2. ReadLines(t2, <<A>>) = ParseLine(t2, A)
        BY ReadOne
      <4> QED
        BY <4>1, <4>2, Zenon
    <3>2. HasFields(r, p.name, p.active_in, D.multiplier, D.flow_auto, D.flow_scale, D.performance_mode, D.scaler)
      BY <1>1, <1>2, <2>1, ListSet
    <3>3. r \in GivenProfiles
      BY <3>2 DEF HasFields
    <3> HIDE DEF t2
    <3>4. InProfile(ParseLine(t2, A), fp16, done, r)
      BY <1>4, <2>1, <3>3, KeyRead
    <3> QED
      BY <3>1, <3>2, <3>3, <3>4, Zenon
  <2> QED
    BY <2>2, <2>3
<1>8. \E q \in GivenProfiles : /\ InProfile(t4, fp16, done, q)
                      /\ HasFields(q, p.name, p.active_in, p.multiplier, p.flow_auto, p.flow_scale,
                                p.performance_mode, D.scaler)
  <2>1. PICK q \in GivenProfiles : /\ InProfile(t3, fp16, done, q)
                          /\ HasFields(q, p.name, p.active_in, D.multiplier, D.flow_auto, D.flow_scale,
                                    D.performance_mode, D.scaler)
    BY <1>7
  <2> DEFINE q1 == ProfileKey(q, M)
             q2 == ProfileKey(q1, Scale(p))
             q3 == ProfileKey(q2, B)
             F == Scale(p)
  <2>2. t4 = ParseLine(ParseLine(ParseLine(t3, M), F), B)
    <3>1. Middle(p) = <<M, F, B>>
      BY DEF Middle
    <3> HIDE DEF M, F, B, t3
    <3>2. ReadLines(t3, <<M, F, B>>) = ParseLine(ParseLine(ParseLine(t3, M), F), B)
      BY ReadThree
    <3> QED
      BY <3>1, <3>2, Zenon
  <2> HIDE DEF t3
  <2>3. HasFields(q1, p.name, p.active_in, p.multiplier, D.flow_auto, D.flow_scale, D.performance_mode, D.scaler)
    BY <1>1, <1>2, <2>1, MultiplierSet
  <2>4. q1 \in GivenProfiles
    BY <2>3 DEF HasFields
  <2>5. InProfile(ParseLine(t3, M), fp16, done, q1)
    BY <1>4, <2>1, <2>4, KeyRead
  <2> HIDE DEF q1
  <2>6. HasFields(q2, p.name, p.active_in, p.multiplier, p.flow_auto, p.flow_scale, D.performance_mode, D.scaler)
    <3>1. CASE p.flow_auto
      <4>1. Scale(p) = <<"flow_scale", "auto">> /\ p.flow_scale = D.flow_scale
        BY <1>1, <3>1 DEF Scale
      <4>2. HasFields(ProfileKey(q1, <<"flow_scale", "auto">>), p.name, p.active_in, p.multiplier, TRUE, D.flow_scale,
                   D.performance_mode, D.scaler)
        BY <1>2, <2>3, AutoSet DEF D
      <4> QED
        BY <3>1, <4>1, <4>2, Zenon DEF HasFields
    <3>2. CASE ~p.flow_auto
      <4>1. Scale(p) = <<"flow_scale", "num", p.flow_scale>>
        BY <3>2 DEF Scale
      <4>2. HasFields(ProfileKey(q1, <<"flow_scale", "num", p.flow_scale>>), p.name, p.active_in, p.multiplier, FALSE,
                   p.flow_scale, D.performance_mode, D.scaler)
        BY <1>1, <1>2, <2>3, NumberSet
      <4> QED
        BY <3>2, <4>1, <4>2, Zenon DEF HasFields
    <3> QED
      BY <3>1, <3>2
  <2>7. q2 \in GivenProfiles
    BY <2>6 DEF HasFields
  <2>8. InProfile(ParseLine(ParseLine(t3, M), F), fp16, done, q2)
    BY <2>4, <2>5, <2>7, ScaleRead
  <2> HIDE DEF q2, F
  <2>9. HasFields(q3, p.name, p.active_in, p.multiplier, p.flow_auto, p.flow_scale, p.performance_mode, D.scaler)
    BY <1>1, <1>2, <2>6, ModeSet
  <2>10. q3 \in GivenProfiles
    BY <2>9 DEF HasFields
  <2>11. InProfile(ParseLine(ParseLine(ParseLine(t3, M), F), B), fp16, done, q3)
    BY <1>4, <2>7, <2>8, <2>10, KeyRead
  <2> QED
    BY <2>2, <2>9, <2>10, <2>11, Zenon
<1>9. InProfile(t5, fp16, done, p)
  <2>1. PICK q \in GivenProfiles : /\ InProfile(t4, fp16, done, q)
                          /\ HasFields(q, p.name, p.active_in, p.multiplier, p.flow_auto, p.flow_scale,
                                    p.performance_mode, D.scaler)
    BY <1>8
  <2>2. CASE p.scaler = "off"
    <3>1. t5 = t4
      BY <2>2, ReadNone, Zenon DEF Scaled
    <3>2. q = p
      <4>1. D.scaler = p.scaler
        BY <1>3, <2>2
      <4> QED
        BY <2>1, <4>1, FieldsAreAll
    <3> QED
      BY <2>1, <3>1, <3>2, Zenon
  <2>3. CASE p.scaler # "off"
    <3> DEFINE r == ProfileKey(q, U)
    <3>1. t5 = ParseLine(t4, U)
      <4>1. Scaled(p) = <<U>>
        BY <2>3 DEF Scaled
      <4> HIDE DEF U, t4
      <4>2. ReadLines(t4, <<U>>) = ParseLine(t4, U)
        BY ReadOne
      <4> QED
        BY <4>1, <4>2, Zenon
    <3>2. HasFields(r, p.name, p.active_in, p.multiplier, p.flow_auto, p.flow_scale, p.performance_mode, p.scaler)
      BY <1>1, <1>2, <2>1, ScalerSet
    <3>3. r \in GivenProfiles
      BY <3>2 DEF HasFields
    <3> HIDE DEF t4
    <3>4. InProfile(ParseLine(t4, U), fp16, done, r)
      BY <1>4, <2>1, <3>3, KeyRead
    <3>5. r = p
      <4> HIDE DEF r
      <4> QED
        BY <3>2, FieldsAreAll
    <3> QED
      BY <3>1, <3>4, <3>5, Zenon
  <2> QED
    BY <2>2, <2>3
<1>10. ReadLines(s, ProfileLines(p)) = t5
  <2> DEFINE h == Title(p)
             l == Listed(p)
             j == Middle(p)
             u == Scaled(p)
  <2>1. ProfileLines(p) = h \o l \o j \o u
        /\ h \in Seq(GivenLines) /\ l \in Seq(GivenLines) /\ j \in Seq(GivenLines) /\ u \in Seq(GivenLines)
    BY ProfileParts, Zenon
  <2> HIDE DEF h, l, j, u
  <2> DEFINE hl == h \o l
             hlm == hl \o j
  <2>2. hl \in Seq(GivenLines)
    BY <2>1, ConcatProperties
  <2>3. ReadLines(s, hl) = ReadLines(ReadLines(s, h), l)
    BY <2>1, GivenMore
  <2> HIDE DEF hl
  <2>4. hlm \in Seq(GivenLines)
    BY <2>1, <2>2, ConcatProperties
  <2>5. ReadLines(s, hlm) = ReadLines(ReadLines(s, hl), j)
    BY <2>1, <2>2, GivenMore
  <2> HIDE DEF hlm
  <2>6. ReadLines(s, hlm \o u) = ReadLines(ReadLines(s, hlm), u)
    BY <2>1, <2>4, GivenMore
  <2> QED
    BY <2>1, <2>3, <2>5, <2>6, Zenon DEF h, l, j, u, hl, hlm
<1> QED
  BY <1>9, <1>10, Zenon DEF InProfile

-----------------------------------------------------------------------------
(* Whole files.                                                             *)

GivenConfigs == [allow_fp16 : BOOLEAN, profiles : Seq(GivenProfiles)]

Header(fp16) == <<<<"version", "int", 2>>, <<"[global]">>, <<"allow_fp16", "bool", fp16>>>>

Opened == [section |-> "top", version_ok |-> FALSE, saw_global |-> FALSE, ok |-> TRUE, cfg |-> Config(<<>>)]

(* The header is read as it was written.                                    *)
LEMMA ReadGlobal ==
  ASSUME NEW fp16 \in BOOLEAN
  PROVE  HasRead(ReadLines(Opened, Header(fp16)), fp16, <<>>)
<1> DEFINE V == <<"version", "int", 2>>
           G == <<"[global]">>
           A == <<"allow_fp16", "bool", fp16>>
           s1 == ParseLine(Opened, V)
           s2 == ParseLine(s1, G)
           s3 == ParseLine(s2, A)
           Empty(s) == s \in ParserStates /\ s.ok /\ s.cfg.profiles = <<>>
<1>1. Empty(Opened) /\ Opened.section = "top"
  <2>1. <<>> \in Seq(GivenProfiles) /\ Len(<<>>) = 0
    BY EmptySeq
  <2>2. Config(<<>>) \in [allow_fp16 : BOOLEAN, profiles : Seq(GivenProfiles)] /\ Config(<<>>).profiles = <<>>
    BY <2>1 DEF Config
  <2> QED
    BY <2>2 DEF Opened, ParserStates
<1>2. Empty(s1) /\ s1.section = "top" /\ s1.version_ok
  <2>1. /\ V[1] # "[global]" /\ V[1] # "[[profile]]" /\ V[1] = "version" /\ V[3] = 2
    OBVIOUS
  <2> HIDE DEF V
  <2>2. Takes("top", V)
    BY <2>1, Zenon DEF Takes
  <2>3. s1 = SetKey(Opened, V)
    BY <1>1, <2>1, <2>2, Zenon DEF ParseLine
  <2>4. s1 = [Opened EXCEPT !.version_ok = (V[3] = 2)]
    BY <1>1, <2>3, Zenon DEF SetKey
  <2>5. LET r == [Opened EXCEPT !.version_ok = (V[3] = 2)]
        IN r \in ParserStates /\ r.section = Opened.section /\ r.ok = Opened.ok
           /\ (r.version_ok <=> V[3] = 2) /\ r.cfg = Opened.cfg
    BY <1>1 DEF ParserStates
  <2> QED
    BY <1>1, <2>1, <2>4, <2>5, Zenon
<1>3. Empty(s2) /\ s2.section = "global" /\ s2.version_ok /\ s2.saw_global
  <2>1. G[1] = "[global]" /\ G[1] # "[[profile]]"
    OBVIOUS
  <2> HIDE DEF G, s1
  <2>2. s2 = [s1 EXCEPT !.section = "global", !.saw_global = TRUE]
    BY <1>2, <2>1, Zenon DEF ParseLine
  <2>3. LET r == [s1 EXCEPT !.section = "global", !.saw_global = TRUE]
        IN r \in ParserStates /\ r.section = "global" /\ r.ok = s1.ok
           /\ r.version_ok = s1.version_ok /\ r.saw_global /\ r.cfg = s1.cfg
    BY <1>2 DEF ParserStates
  <2> QED
    BY <1>2, <2>2, <2>3, Zenon
<1>4. HasRead(s3, fp16, <<>>)
  <2>1. /\ A[1] # "[global]" /\ A[1] # "[[profile]]" /\ A[1] = "allow_fp16" /\ A[2] = "bool" /\ A[3] = fp16
    OBVIOUS
  <2> HIDE DEF A, s2
  <2>2. "global" # "top"
    OBVIOUS
  <2>3. Takes("global", A)
    BY <2>1, <2>2, Zenon DEF Takes
  <2>4. s3 = SetKey(s2, A)
    BY <1>3, <2>1, <2>3, Zenon DEF ParseLine
  <2> DEFINE c == [s2.cfg EXCEPT !.allow_fp16 = A[3]]
  <2>5. s3 = [s2 EXCEPT !.cfg = c]
    BY <1>3, <2>2, <2>4, Zenon DEF SetKey
  <2>6. /\ c \in [allow_fp16 : BOOLEAN, profiles : Seq(GivenProfiles)] /\ c.allow_fp16 = fp16
        /\ c.profiles = s2.cfg.profiles
    BY <1>3, <2>1 DEF ParserStates
  <2> HIDE DEF c
  <2>7. LET r == [s2 EXCEPT !.cfg = c]
        IN r \in ParserStates /\ r.ok = s2.ok /\ r.version_ok = s2.version_ok /\ r.saw_global = s2.saw_global
           /\ r.cfg = c
    BY <1>3, <2>6 DEF ParserStates
  <2> QED
    BY <1>3, <2>5, <2>6, <2>7, Zenon DEF HasRead
<1>5. ReadLines(Opened, Header(fp16)) = s3
  <2>1. Header(fp16) = <<V, G, A>>
    BY DEF Header
  <2> HIDE DEF V, G, A
  <2> QED
    BY <2>1, ReadThree
<1> QED
  BY <1>4, <1>5, Zenon

(* Profiles that are read back one after another are those that were        *)
(* written.                                                                 *)
LEMMA ReadProfiles ==
  ASSUME NEW g, NEW fp16, HasRead(g, fp16, <<>>), NEW ps \in Seq(GivenProfiles)
  PROVE  LET text == FlattenSeq([i \in DOMAIN ps |-> ProfileLines(ps[i])])
         IN text \in Seq(GivenLines) /\ HasRead(ReadLines(g, text), fp16, ps)
<1> DEFINE seqs == [i \in DOMAIN ps |-> ProfileLines(ps[i])]
           n == Len(ps)
           f == Joined(seqs, n)
           S == {k \in Nat : k \in 1..n =>
                   f[k] \in Seq(GivenLines) /\ HasRead(ReadLines(g, f[k]), fp16, SubSeq(ps, 1, k))}
<1>1. n \in Nat /\ DOMAIN ps = 1..n /\ \A i \in 1..n : ps[i] \in GivenProfiles
  BY LenProperties, ElementOfSeq
<1>2. \A i \in 1..n : seqs[i] = ProfileLines(ps[i]) /\ seqs[i] \in Seq(GivenLines)
  BY <1>1, ProfileTypes
<1>3. seqs \in Seq(Seq(GivenLines)) /\ Len(seqs) = n
  BY <1>1, <1>2
<1>4. \A i \in 1..n : f[i] = IF i = 1 THEN seqs[i] ELSE f[i - 1] \o seqs[i]
  BY <1>1, FlatSteps, Zenon
<1> HIDE DEF seqs, n, f
<1>5. ASSUME NEW k \in Nat, k \in S PROVE k + 1 \in S
  <2>1. SUFFICES ASSUME k + 1 \in 1..n
                 PROVE  f[k + 1] \in Seq(GivenLines) /\ HasRead(ReadLines(g, f[k + 1]), fp16, SubSeq(ps, 1, k + 1))
    OBVIOUS
  <2> DEFINE p == ps[k + 1]
  <2>2. p \in GivenProfiles /\ seqs[k + 1] = ProfileLines(p) /\ ProfileLines(p) \in Seq(GivenLines)
    BY <1>1, <1>2, <2>1, ProfileTypes
  <2>3. CASE k = 0
    <3>1. f[k + 1] = ProfileLines(p)
      BY <1>4, <2>1, <2>2, <2>3
    <3>2. SubSeq(ps, 1, k + 1) = Append(<<>>, p)
      <4> DEFINE q == SubSeq(ps, 1, 1)
      <4>1. 1 \in 1..Len(ps) /\ k + 1 = 1
        BY <1>1, <2>1, <2>3 DEF n
      <4>2. q \in Seq(GivenProfiles) /\ Len(q) = 1 /\ q[1] = ps[1]
        BY <4>1
      <4> HIDE DEF q
      <4>3. q = <<q[1]>>
        BY <4>2
      <4>4. q = Append(<<>>, ps[1])
        BY <4>2, <4>3
      <4> QED
        BY <4>1, <4>4, Zenon DEF q
    <3>3. HasRead(ReadLines(g, ProfileLines(p)), fp16, Append(<<>>, p))
      BY <2>2, ReadProfile, EmptySeq
    <3> QED
      BY <2>2, <3>1, <3>2, <3>3, Zenon
  <2>4. CASE k # 0
    <3>1. k \in 1..n /\ k + 1 # 1 /\ (k + 1) - 1 = k
      BY <1>1, <2>1, <2>4
    <3>2. f[k + 1] = f[k] \o ProfileLines(p)
      BY <1>4, <2>1, <2>2, <3>1
    <3>3. f[k] \in Seq(GivenLines) /\ HasRead(ReadLines(g, f[k]), fp16, SubSeq(ps, 1, k))
      BY <1>5, <3>1
    <3>4. SubSeq(ps, 1, k) \in Seq(GivenProfiles) /\ SubSeq(ps, 1, k + 1) = Append(SubSeq(ps, 1, k), p)
      BY <1>1, <2>1, <3>1 DEF n
    <3>5. HasRead(ReadLines(ReadLines(g, f[k]), ProfileLines(p)), fp16, Append(SubSeq(ps, 1, k), p))
      BY <2>2, <3>3, <3>4, ReadProfile
    <3> DEFINE t == f[k]
               u == ProfileLines(p)
    <3>6. t \in Seq(GivenLines) /\ u \in Seq(GivenLines)
      BY <2>2, <3>3, Zenon
    <3> HIDE DEF t, u
    <3>7. t \o u \in Seq(GivenLines) /\ ReadLines(g, t \o u) = ReadLines(ReadLines(g, t), u)
      BY <3>6, GivenMore
    <3> QED
      BY <3>2, <3>4, <3>5, <3>7, Zenon DEF t, u
  <2> QED
    BY <2>3, <2>4
<1>6. 0 \in S
  OBVIOUS
<1>7. n \in S
  <2> HIDE DEF S
  <2> QED
    BY <1>1, <1>5, <1>6, ByCounting
<1>8. CASE n = 0
  <2>1. ps = <<>> /\ seqs = <<>>
    BY <1>3, <1>8, EmptySeq DEF n
  <2>2. FlattenSeq(seqs) = <<>>
    BY <1>3, <1>8, <2>1 DEF FlattenSeq
  <2>3. <<>> \in Seq(GivenLines)
    BY EmptySeq
  <2> QED
    BY <2>1, <2>2, <2>3, ReadNone, Zenon DEF seqs
<1>9. CASE n # 0
  <2>1. n \in 1..n
    BY <1>1, <1>9
  <2>2. SubSeq(ps, 1, n) = ps
    BY SubSeqFull DEF n
  <2>3. FlattenSeq(seqs) = f[n]
    BY <1>3, <1>9, FlattenIs, Zenon DEF f
  <2>4. f[n] \in Seq(GivenLines) /\ HasRead(ReadLines(g, f[n]), fp16, SubSeq(ps, 1, n))
    BY <1>7, <2>1
  <2> QED
    BY <2>2, <2>3, <2>4, Zenon DEF seqs
<1> QED
  BY <1>8, <1>9

(* A configuration is read back as it was written.                          *)
LEMMA FileReadBack ==
  ASSUME NEW c \in GivenConfigs
  PROVE  ToToml(c) \in Seq(GivenLines) /\ Parse(ToToml(c)).cfg = c
<1> DEFINE h == Header(c.allow_fp16)
           t == FlattenSeq([i \in DOMAIN c.profiles |-> ProfileLines(c.profiles[i])])
           s == ReadLines(Opened, ToToml(c))
<1>1. c.allow_fp16 \in BOOLEAN /\ c.profiles \in Seq(GivenProfiles)
  BY DEF GivenConfigs
<1>2. ToToml(c) = h \o t
  BY Zenon DEF ToToml, Header
<1>3. h \in Seq(GivenLines)
  <2> DEFINE V == <<"version", "int", 2>>
             G == <<"[global]">>
             A == <<"allow_fp16", "bool", c.allow_fp16>>
  <2>1. V \in GivenLines /\ G \in GivenLines /\ A \in GivenLines
    BY <1>1, Zenon DEF GivenLines
  <2>2. h = <<V, G, A>>
    BY DEF Header
  <2> HIDE DEF V, G, A, h
  <2> QED
    BY <2>1, <2>2
<1>4. HasRead(ReadLines(Opened, h), c.allow_fp16, <<>>)
  BY <1>1, ReadGlobal
<1>5. t \in Seq(GivenLines) /\ HasRead(ReadLines(ReadLines(Opened, h), t), c.allow_fp16, c.profiles)
  BY <1>1, <1>4, ReadProfiles, Zenon
<1> HIDE DEF h, t
<1>6. h \o t \in Seq(GivenLines) /\ ReadLines(Opened, h \o t) = ReadLines(ReadLines(Opened, h), t)
  BY <1>3, <1>5, GivenMore
<1>7. HasRead(s, c.allow_fp16, c.profiles)
  BY <1>2, <1>5, <1>6, Zenon
<1> HIDE DEF s
<1>8. s.cfg = c
  BY <1>7 DEF HasRead, ParserStates, GivenConfigs
<1>9. Parse(ToToml(c)).cfg = s.cfg
  BY Zenon DEF Parse, ReadLines, Opened, s
<1> QED
  BY <1>2, <1>6, <1>8, <1>9, Zenon

(* A configuration that is saved is one of those that are read back.        *)
LEMMA SavedIsWritten ==
  ASSUME NEW c \in Saved
  PROVE  c \in GivenConfigs
<1>1. CASE c \in Configs
  <2> DEFINE Configured == [allow_fp16 : BOOLEAN, profiles : Seq(Profiles)]
  <2>1. Seq(STRING) \subseteq Seq(Names)
    <3>1. STRING \subseteq Names
      BY Zenon DEF Names
    <3> QED
      BY <3>1, SeqMonotonic
  <2>2. Profiles \subseteq GivenProfiles
    <3>1. STRING \subseteq Names
      BY Zenon DEF Names
    <3> HIDE DEF Names
    <3> QED
      BY <2>1, <3>1 DEF Profiles, GivenProfiles
  <2>3. Seq(Profiles) \subseteq Seq(GivenProfiles)
    BY <2>2, SeqMonotonic
  <2>4. c \in Configured
    BY <1>1, ConfigsAssumption
  <2> QED
    BY <2>3, <2>4 DEF GivenConfigs
<1>2. CASE c = Builtin
  <2> DEFINE n == "Default 2x"
             z == "000000"
             a == <<z>>
             d == [DefaultProfile EXCEPT !.name = n]
             p == [d EXCEPT !.active_in = a]
  <2>1. n \in Names /\ z \in Names
    BY Zenon DEF Names
  <2> HIDE DEF n, z
  <2>2. a \in Seq(Names)
    BY <2>1
  <2>3. d \in GivenProfiles
    BY <2>1, DefaultIsOne DEF GivenProfiles
  <2>4. p \in GivenProfiles
    <3> HIDE DEF d, a
    <3> QED
      BY <2>2, <2>3 DEF GivenProfiles
  <2>5. Builtin = [allow_fp16 |-> TRUE, profiles |-> <<p>>]
    BY Zenon DEF Builtin, Config, n, z
  <2> HIDE DEF p
  <2>6. <<p>> \in Seq(GivenProfiles)
    BY <2>4
  <2> QED
    BY <1>2, <2>5, <2>6 DEF GivenConfigs
<1> QED
  BY <1>1, <1>2 DEF Saved

(* Whatever is saved is read back as it was written: no configuration is    *)
(* changed by being saved and loaded, whatever profiles it has and whatever *)
(* they say (to_toml and parse of settings.rs).                             *)
THEOREM SavedReadBack == ReadsBack
<1>1. SUFFICES ASSUME NEW c \in Saved
               PROVE  ToToml(c) \in Seq(Lines) /\ Parse(ToToml(c)).cfg = c
  BY Zenon DEF ReadsBack
<1>2. ToToml(c) \in Seq(GivenLines) /\ Parse(ToToml(c)).cfg = c
  BY SavedIsWritten, FileReadBack
<1> DEFINE f == ToToml(c)
<1>3. Range(f) \subseteq Lines
  BY DEF Lines, Files
<1> HIDE DEF f
<1>4. f \in Seq(GivenLines)
  BY <1>2 DEF f
<1>5. f \in Seq(Range(f))
  BY <1>4 DEF Range
<1>6. f \in Seq(Lines)
  BY <1>3, <1>5, SeqMonotonic
<1> QED
  BY <1>2, <1>6, Zenon DEF f

-----------------------------------------------------------------------------
(* A profile found by its name is in the file, and has the name.            *)
LEMMA NamedIsOne ==
  ASSUME NEW cfg, NEW name, Named(cfg, name) # 0
  PROVE  /\ Named(cfg, name) \in 1..Len(cfg.profiles)
         /\ cfg.profiles[Named(cfg, name)].name = name
<1> DEFINE I == {i \in 1..Len(cfg.profiles) : cfg.profiles[i].name = name}
<1>1. Named(cfg, name) = IF I # {} THEN Min(I) ELSE 0
  BY DEF Named, SelectInSeq
<1>2. I \subseteq Nat
  OBVIOUS
<1>3. Named(cfg, name) \in I
  BY <1>1, <1>2, MinIsIn
<1> QED
  BY <1>3
(* A profile found by a name it lists is in the file.                       *)
LEMMA ListingIsOne ==
  ASSUME NEW cfg, NEW names, Listing(cfg, names) # 0
  PROVE  Listing(cfg, names) \in 1..Len(cfg.profiles)
<1> DEFINE I == {i \in 1..Len(cfg.profiles) : Range(cfg.profiles[i].active_in) \cap names # {}}
<1>1. Listing(cfg, names) = IF I # {} THEN Min(I) ELSE 0
  BY DEF Listing, SelectInSeq
<1>2. I \subseteq Nat
  OBVIOUS
<1>3. Listing(cfg, names) \in I
  BY <1>1, <1>2, MinIsIn
<1> QED
  BY <1>3

(* The profile a process picks is one of the file's.                        *)
LEMMA IdentifiedIsOne ==
  ASSUME NEW cfg, Identify(cfg) # 0, ~env.env
  PROVE  Identify(cfg) \in 1..Len(cfg.profiles)
<1> DEFINE ways == <<IF env.profile = {} THEN 0 ELSE Named(cfg, CHOOSE n \in env.profile : TRUE),
                     Listing(cfg, env.names), Listing(cfg, env.app), Listing(cfg, {"*"})>>
           I == {i \in 1..Len(ways) : ways[i] # 0}
           first == IF I # {} THEN Min(I) ELSE 0
<1>1. Identify(cfg) = IF first = 0 THEN 0 ELSE ways[first]
  BY DEF Identify, SelectInSeq
<1>2. first \in I
  <2>1. I \subseteq Nat
    OBVIOUS
  <2> QED
    BY <1>1, <2>1, MinIsIn
<1>3. first \in 1..4 /\ ways[first] # 0
  BY <1>2
<1>4. \A i \in 1..4 : ways[i] # 0 => ways[i] \in 1..Len(cfg.profiles)
  BY NamedIsOne, ListingIsOne
<1> QED
  BY <1>1, <1>3, <1>4

(* A file that parses has profiles with a multiplier only.                  *)
LEMMA ParsedMultipliers ==
  ASSUME NEW text, Parse(text).ok
  PROVE  \A i \in 1..Len(Parse(text).cfg.profiles) : Parse(text).cfg.profiles[i].multiplier \in Nat
<1> DEFINE s == FoldLeft(ParseLine,
                         [section |-> "top", version_ok |-> FALSE, saw_global |-> FALSE, ok |-> TRUE,
                          cfg |-> Config(<<>>)], text)
           Right(profiles) == \A i \in 1..Len(profiles) :
                                profiles[i].multiplier \in 1..4 /\ FlowValid(profiles[i])
           ok == s.ok /\ s.version_ok /\ s.saw_global /\ Right(s.cfg.profiles)
<1>1. Parse(text) = [cfg |-> s.cfg, ok |-> ok]
  BY Zenon DEF Parse
<1> HIDE DEF s, ok
<1>2. Parse(text).cfg = s.cfg
  BY <1>1
<1>3. ok
  <2>1. [cfg |-> s.cfg, ok |-> ok].ok
    BY <1>1
  <2> QED
    BY <2>1, Zenon
<1>4. \A i \in 1..Len(s.cfg.profiles) : s.cfg.profiles[i].multiplier \in 1..4
  BY <1>3, Zenon DEF ok
<1> QED
  BY <1>2, <1>4
-----------------------------------------------------------------------------
(* What is known of the layer: its fields, a multiplier once it is loaded,  *)
(* and that only a process that reads the file reads or writes it.          *)
LayerShape == layer = [config |-> layer.config, profile |-> layer.profile, revision |-> layer.revision]

(* What the process holds of its settings.                                  *)
SettingsInv ==
  /\ env \in Envs
  /\ LayerShape
  /\ layer.revision \in Nat
  /\ step \in {"watch", "on"} => ActiveProfile.multiplier \in Nat
  /\ step \in {"read", "write"} => ~env.env

(* What load() returned leaves the layer with a profile or off.             *)
LEMMA LoadedMultiplier ==
  ASSUME SettingsInv, NEW cfg, Loaded(cfg), env' = env,
         \A i \in 1..Len(cfg.profiles) : cfg.profiles[i].multiplier \in Nat,
         env.env => cfg.profiles = <<env.own>>
  PROVE  SettingsInv' /\ layer'.revision = layer.revision
<1>1. CASE Identify(cfg) = 0
  BY <1>1 DEF SettingsInv, LayerShape, ActiveProfile, Loaded
<1>2. CASE Identify(cfg) # 0
  <2>1. /\ layer' = [layer EXCEPT !.config = cfg, !.profile = Identify(cfg)]
        /\ Identify(cfg) \in 1..Len(cfg.profiles)
        /\ step' \in {"on", "watch"}
    <3>1. CASE env.env
      <4>1. Identify(cfg) = 1
        BY <1>2, <3>1 DEF Identify
      <4> QED
        BY <1>2, <3>1, <4>1 DEF Loaded
    <3>2. CASE ~env.env
      BY <1>2, <3>2, IdentifiedIsOne DEF Loaded
    <3> QED
      BY <3>1, <3>2
  <2>2. layer' = [config |-> cfg, profile |-> Identify(cfg), revision |-> layer.revision]
    BY <2>1 DEF SettingsInv, LayerShape
  <2> QED
    BY <2>1, <2>2 DEF SettingsInv, LayerShape, ActiveProfile
<1> QED
  BY <1>1, <1>2

(* A step of the start keeps what is known of the layer.                    *)
LEMMA StartingSettings ==
  ASSUME SettingsInv, Starting
  PROVE  SettingsInv' /\ layer'.revision = layer.revision
<1>1. CASE Load
  <2>1. CASE step' = "read" /\ layer' = layer /\ ~env.env
    BY <1>1, <2>1 DEF Load, SettingsInv, LayerShape, ActiveProfile
  <2>2. CASE step' = "write" /\ layer' = layer /\ ~env.env
    BY <1>1, <2>2 DEF Load, SettingsInv, LayerShape, ActiveProfile
  <2>3. CASE Off
    BY <1>1, <2>3 DEF Off, Load, SettingsInv, LayerShape, ActiveProfile
  <2>4. CASE Loaded(ApplyEnv(Config(<<env.own>>)))
    <3>1. ApplyEnv(Config(<<env.own>>)).profiles = <<env.own>>
      BY DEF ApplyEnv, Config
    <3>2. env.own.multiplier \in Nat
      BY SettingsAssumption DEF SettingsInv
    <3> QED
      BY <1>1, <2>4, <3>1, <3>2, LoadedMultiplier DEF Load
  <2> QED
    BY <1>1, <2>1, <2>2, <2>3, <2>4, Zenon DEF Load
<1>2. CASE ReadFile
  <2>1. CASE Off
    BY <1>2, <2>1 DEF Off, ReadFile, SettingsInv, LayerShape, ActiveProfile
  <2>2. CASE Parse(file).ok /\ Loaded(ApplyEnv(Parse(file).cfg))
    <3>1. ApplyEnv(Parse(file).cfg).profiles = Parse(file).cfg.profiles
      BY DEF ApplyEnv
    <3> QED
      BY <1>2, <2>2, <3>1, LoadedMultiplier, ParsedMultipliers DEF ReadFile, SettingsInv
  <2> QED
    BY <1>2, <2>1, <2>2 DEF ReadFile
<1>3. CASE WriteDefault
  <2>1. /\ ApplyEnv(Builtin).profiles = Builtin.profiles
        /\ \A i \in 1..Len(Builtin.profiles) : Builtin.profiles[i].multiplier \in Nat
    <3> DEFINE p == [DefaultProfile EXCEPT !.name = "Default 2x", !.active_in = <<"000000">>]
    <3>1. p.multiplier = 2
      BY DEF DefaultProfile
    <3>2. ApplyEnv(Builtin).profiles = <<p>> /\ Builtin.profiles = <<p>>
      BY DEF ApplyEnv, Builtin, Config
    <3> HIDE DEF p
    <3>3. \A i \in 1..Len(<<p>>) : <<p>>[i].multiplier = 2
      BY <3>1
    <3> QED
      BY <3>2, <3>3
  <2> QED
    BY <1>3, <2>1, LoadedMultiplier DEF WriteDefault, SettingsInv
<1>4. CASE Watch
  BY <1>4 DEF Watch, SettingsInv, LayerShape, ActiveProfile
<1> QED
  BY <1>1, <1>2, <1>3, <1>4 DEF Starting
(* An update leaves the layer alone or gives it a new revision, and the     *)
(* profile of the same name.                                                *)
LEMMA UpdateSettings ==
  ASSUME SettingsInv, step = "on", Update
  PROVE  /\ SettingsInv'
         /\ \/ layer' = layer
            \/ layer'.revision = layer.revision + 1
         /\ ActiveProfile'.name = ActiveProfile.name
<1>1. CASE layer' = layer
  BY <1>1 DEF SettingsInv, LayerShape, ActiveProfile, Update
<1>2. CASE layer' # layer
  <2> DEFINE p == Parse(file)
             i == SameName(p.cfg)
  <2>1. p.ok /\ i # 0 /\ layer' = [config |-> ApplyEnv(p.cfg), profile |-> i, revision |-> layer.revision + 1]
    BY <1>2, Zenon DEF Update, Reload
  <2>2. i \in 1..Len(p.cfg.profiles) /\ p.cfg.profiles[i].name = ActiveProfile.name
    BY <2>1, NamedIsOne DEF SameName
  <2>3. ApplyEnv(p.cfg).profiles = p.cfg.profiles
    BY DEF ApplyEnv
  <2>4. ActiveProfile' = p.cfg.profiles[i] /\ layer'.revision = layer.revision + 1 /\ LayerShape'
    BY <2>1, <2>3 DEF ActiveProfile, LayerShape
  <2>5. ActiveProfile'.multiplier \in Nat
    BY <2>1, <2>2, <2>4, ParsedMultipliers
  <2> HIDE DEF p, i
  <2> QED
    BY <2>2, <2>4, <2>5 DEF SettingsInv, Update
<1> QED
  BY <1>1, <1>2

-----------------------------------------------------------------------------
(* A swapchain is created by a process whose start is over.                 *)
Loads == pc # "closed" => step = "on"

(* The layer's configuration has a multiplier.                              *)
BaseInv == SettingsInv /\ Loads

(* No step leaves the layer without its profile.                            *)
LEMMA BaseStep ==
  ASSUME BaseInv, [Next]_vars
  PROVE  /\ BaseInv'
         /\ step = "on" => step' = "on" /\ ActiveProfile'.name = ActiveProfile.name
         /\ step # "on" => layer'.revision = layer.revision
<1> USE DEF BaseInv, Loads, SettingsInv, LayerShape, ActiveProfile
<1>1. CASE Starts
  <2>1. SettingsInv' /\ pc' = pc /\ step # "on" /\ layer'.revision = layer.revision
    BY <1>1, StartingSettings DEF Starts, Starting, Load, ReadFile, WriteDefault, Watch, presentVars
  <2> QED
    BY <2>1
<1>2. CASE Edits
  BY <1>2 DEF Edits, Edit, presentVars
<1>3. CASE UpdateElsewhere
  BY <1>3, UpdateSettings DEF UpdateElsewhere, Update
<1>4. CASE Preamble
  BY <1>4, UpdateSettings DEF Preamble, Update
<1>5. CASE BeginUpdate
  BY <1>5 DEF BeginUpdate, layerVars
<1>6. CASE UNCHANGED settingsVars /\ (pc = "closed" => pc' = "closed" \/ step = "on")
  BY <1>6 DEF settingsVars, layerVars
<1>7. CASE UNCHANGED vars
  BY <1>7 DEF vars, settingsVars, layerVars, presentVars
<1>8. ASSUME NEW error, NEW now, GiveUp(error, now) PROVE UNCHANGED settingsVars
  BY <1>8 DEF GiveUp
<1> QED
  BY <1>1, <1>2, <1>3, <1>4, <1>5, <1>6, <1>7, <1>8
     DEF Next, Create, Drop, GameAcquires, Flip, PresentUntouched, Passthrough, Grow, GrowFails,
         Dispatch, Generate, GenerateFails, CopyOut, PresentInner, PresentOriginal, Rejected, fixedVars
-----------------------------------------------------------------------------
(* What is signalled between the calls of a present.                        *)
Expected ==
  CASE pc = "copy" -> {Acquire(slot)}
    [] pc = "inner" -> {Copy(slot)} \cup IF LastSlot THEN {Present(index)} ELSE {}
    [] pc = "original" -> {Present(index)}
    [] OTHER -> {}

(* After a hard failure nothing is known of the semaphores, and nothing runs *)
(* until they are replaced.                                                 *)
SemaphoreInv ==
  /\ failed \in BOOLEAN
  /\ misused = FALSE
  /\ pc \in Running \cup {"grow"} => failed = FALSE
  /\ failed = FALSE => signalled = Expected
  /\ failed = TRUE => ctx = NoContext

(* Every step finds signalled what it waits for, and nothing it signals.    *)
LEMMA SemaphoreStep ==
  ASSUME SemaphoreInv, [Next]_vars
  PROVE  SemaphoreInv'
<1> USE DEF SemaphoreInv, Running
<1>1. CASE UNCHANGED <<ctx, failed, signalled, misused>> /\ Expected' = Expected
           /\ (pc' \in Running \cup {"grow"} => pc \in Running \cup {"grow"})
  BY <1>1
<1>2. ASSUME NEW error, NEW now, GiveUp(error, now), misused' = FALSE,
             error = "starved" => signalled' = {}
      PROVE  SemaphoreInv'
  BY <1>2 DEF GiveUp, Transient, Expected
<1>3. CASE Create
  BY <1>3 DEF Create, Expected
<1>4. CASE Drop
  BY <1>4 DEF Drop, Expected
<1>5. CASE Preamble
  <2>1. PICK r \in (IF failed /\ layer'.revision # revision THEN ResetSemaphores
                    ELSE {[left |-> signalled, ok |-> ~failed]}) :
          /\ signalled' = r.left
          /\ IF Remaining(layer') = NoContext /\ r.ok /\ m' > 1
             THEN \/ ctx' = Built(ActiveProfile') /\ failed' = FALSE
                  \/ "context" \in Faults /\ ctx' = NoContext /\ failed' = TRUE
             ELSE ctx' = Remaining(layer') /\ failed' = ~r.ok
    BY <1>5 DEF Preamble
  <2>2. \/ r.ok = TRUE /\ r.left = {}
        \/ failed = TRUE /\ r.ok = FALSE
        \/ failed = FALSE /\ r.ok = TRUE /\ r.left = signalled
    <3>1. CASE failed = TRUE /\ r \in ResetSemaphores
      BY <3>1 DEF ResetSemaphores
    <3>2. CASE r = [left |-> signalled, ok |-> ~failed]
      <4>1. r.left = signalled
        BY <3>2
      <4>2. CASE failed = FALSE
        <5>1. r = [left |-> signalled, ok |-> TRUE]
          BY <3>2, <4>2, Zenon
        <5> QED
          BY <4>1, <4>2, <5>1
      <4>3. CASE failed = TRUE
        <5>1. r = [left |-> signalled, ok |-> FALSE]
          BY <3>2, <4>3, Zenon
        <5> QED
          BY <5>1
      <4> QED
        BY <4>2, <4>3
    <3> QED
      BY <2>1, <3>1, <3>2, Zenon
  <2>3. signalled' = r.left
    BY <2>1, Zenon
  <2>4. \/ failed' = FALSE /\ r.ok = TRUE
        \/ failed' = TRUE /\ ctx' = NoContext
        \/ failed' = FALSE /\ r.ok = TRUE /\ ctx' = Remaining(layer')
        \/ failed' = TRUE /\ r.ok = FALSE /\ ctx' = Remaining(layer')
    BY <2>1, <2>2, Zenon
  <2>5. Remaining(layer') = NoContext \/ Remaining(layer') = ctx
    BY DEF Remaining
  <2>6. pc = "update" /\ misused' = misused /\ pc' = IF ctx' = NoContext THEN "passthrough" ELSE "grow"
    BY <1>5 DEF Preamble
  <2>7. failed' = FALSE => signalled' = {}
    BY <2>2, <2>3, <2>4, <2>6 DEF Expected
  <2>8. Expected' = {}
    BY <2>6 DEF Expected
  <2>9. failed' = TRUE => ctx' = NoContext
    <3>1. CASE r.ok = TRUE
      BY <2>4, <3>1
    <3>2. CASE r.ok = FALSE
      BY <2>2, <2>4, <2>5, <3>2
    <3> QED
      BY <2>2, <3>1, <3>2
  <2> QED
    BY <2>4, <2>6, <2>7, <2>8, <2>9
<1>6. CASE Grow
  BY <1>6 DEF Grow, Expected, fixedVars
<1>7. CASE GrowFails
  BY <1>7 DEF GrowFails, Expected
<1>8. CASE Dispatch
  BY <1>8, <1>2 DEF Dispatch, Kept, Expected, fixedVars, wrapperVars
<1>9. CASE Generate
  BY <1>9 DEF Generate, Semaphores, Expected, fixedVars, wrapperVars
<1>10. CASE GenerateFails
  BY <1>10, <1>2 DEF GenerateFails, Kept, Expected
<1>11. CASE CopyOut
  <2>1. CASE Semaphores({Acquire(slot)}, {Copy(slot)} \cup IF LastSlot THEN {Present(index)} ELSE {})
             /\ pc' = "inner" /\ UNCHANGED <<fixedVars, image, refused, localVars>>
    <3>1. UNCHANGED <<ctx, failed, slot, index, m>> /\ pc = "copy" /\ Expected = {Acquire(slot)}
      BY <1>11, <2>1 DEF CopyOut, Expected, fixedVars, wrapperVars, localVars
    <3>2. Expected' = {Copy(slot)} \cup IF LastSlot THEN {Present(index)} ELSE {}
      BY <2>1, <3>1 DEF Expected, LastSlot, Inserted
    <3> HIDE DEF Expected
    <3> QED
      BY <2>1, <3>1, <3>2, SMT DEF Semaphores
  <2>2. CASE Kept /\ GiveUp("copy", [image EXCEPT ![target] = "lost"])
    BY <1>2, <2>2 DEF Kept
  <2> QED
    BY <1>11, <2>1, <2>2 DEF CopyOut
<1>12. CASE PresentInner
  <2>1. pc = "inner" /\ failed = FALSE /\ signalled = {Copy(slot)} \cup IF LastSlot THEN {Present(index)} ELSE {}
    BY <1>12 DEF PresentInner, Expected
  <2>2. Copy(slot) # Present(index)
    BY DEF Copy, Present
  <2>3. CASE /\ Shown(target, Copy(slot))
             /\ pc' = IF LastSlot THEN "original" ELSE "generate"
             /\ UNCHANGED <<fixedVars, refused, m, index>>
    <3>1. signalled' = IF LastSlot THEN {Present(index)} ELSE {}
      BY <2>1, <2>2, <2>3 DEF Shown, Semaphores
    <3>2. Expected' = IF LastSlot THEN {Present(index)} ELSE {}
      BY <2>3 DEF Expected
    <3>3. UNCHANGED <<ctx, failed>> /\ misused' = FALSE
      BY <2>1, <2>3 DEF Shown, Semaphores, fixedVars, wrapperVars
    <3> QED
      BY <2>1, <3>1, <3>2, <3>3
  <2>4. CASE Rejected(target, Copy(slot))
    <3>1. misused' = FALSE
      BY <2>1, <2>4 DEF Rejected, Kept, Semaphores
    <3> QED
      BY <1>2, <2>4, <3>1 DEF Rejected
  <2> QED
    BY <1>12, <2>3, <2>4 DEF PresentInner
<1>13. CASE PresentOriginal
  BY <1>13, <1>2 DEF PresentOriginal, Shown, Rejected, Semaphores, Kept, Expected, fixedVars, wrapperVars, Present
<1> QED
  BY <1>1, <1>3, <1>4, <1>5, <1>6, <1>7, <1>8, <1>9, <1>10, <1>11, <1>12, <1>13
     DEF Next, vars, Starts, Edits, presentVars, wrapperVars, localVars, GameAcquires, Flip, PresentUntouched,
         BeginUpdate, UpdateElsewhere, Passthrough, fixedVars, Expected, LastSlot, Inserted

-----------------------------------------------------------------------------
(* The context of the present revision was built for the profile at hand;   *)
(* one of an older revision is looked at again before it runs.              *)
CurrentInv ==
  /\ revision \in Nat /\ revision <= layer.revision
  /\ pc = "closed" => ctx = NoContext
  /\ ctx # NoContext /\ revision = layer.revision =>
       ctx = Built(ActiveProfile) /\ ActiveProfile.multiplier > 1
  /\ pc # "closed" => passes \in Int
  /\ pc \in {"grow"} \cup Running =>
       ctx # NoContext /\ revision = layer.revision /\ m = ActiveProfile.multiplier
  /\ pc \in Running => passes >= Inserted

(* Every step leaves the context current or knows it to be old.             *)
LEMMA CurrentStep ==
  ASSUME BaseInv, CurrentInv, BaseInv', [Next]_vars
  PROVE  CurrentInv'
<1> USE DEF CurrentInv, Running
<1>1. ASSUME UNCHANGED <<revision, layer>>, pc # "closed", pc' \notin {"closed", "grow"} \cup Running,
             \/ ctx' = NoContext
             \/ ctx' = ctx,
             passes' = passes
      PROVE  CurrentInv'
  BY <1>1 DEF ActiveProfile, Built, FlowFor
<1>2. ASSUME UNCHANGED <<revision, layer, ctx, passes, m, pc>>
      PROVE  CurrentInv'
  BY <1>2 DEF ActiveProfile, Built, FlowFor, Inserted
<1>3. ASSUME UNCHANGED <<revision, layer, ctx, passes, m>>, pc \in Running, pc' \in Running
      PROVE  CurrentInv'
  BY <1>3 DEF ActiveProfile, Built, FlowFor, Inserted
<1>4. ASSUME NEW error, NEW now, GiveUp(error, now), pc \in Running
      PROVE  CurrentInv'
  BY <1>4, <1>1 DEF GiveUp, settingsVars, layerVars
<1>5. CASE Starts
  BY <1>5, BaseStep DEF Starts, Starting, Load, ReadFile, WriteDefault, Watch, BaseInv, Loads, SettingsInv, presentVars, wrapperVars
<1>6. CASE Edits
  BY <1>6, <1>2 DEF Edits, Edit, presentVars, wrapperVars, localVars
<1>7. CASE Create
  BY <1>7 DEF Create, BaseInv, SettingsInv, settingsVars, layerVars, ActiveProfile
<1>8. CASE Drop
  BY <1>8 DEF Drop, BaseInv, SettingsInv, settingsVars, layerVars, ActiveProfile
<1>9. CASE BeginUpdate
  BY <1>9, <1>1 DEF BeginUpdate, layerVars, wrapperVars
<1>10. CASE UpdateElsewhere
  <2>1. layer' = layer \/ layer'.revision = layer.revision + 1
    BY <1>10, UpdateSettings DEF UpdateElsewhere, BaseInv, Loads
  <2>2. CASE layer' = layer
    BY <1>10, <2>2, <1>1 DEF UpdateElsewhere, wrapperVars
  <2>3. CASE layer'.revision = layer.revision + 1
    BY <1>10, <2>3 DEF UpdateElsewhere, wrapperVars, BaseInv, SettingsInv
  <2> QED
    BY <2>1, <2>2, <2>3
<1>11. CASE Preamble
  <2>1. layer' = layer \/ layer'.revision = layer.revision + 1
    BY <1>11, UpdateSettings DEF Preamble, BaseInv, Loads
  <2>2. /\ pc = "update" /\ revision' = layer'.revision /\ passes' = passes
        /\ m' = ActiveProfile'.multiplier
        /\ pc' = IF ctx' = NoContext THEN "passthrough" ELSE "grow"
    BY <1>11 DEF Preamble
  <2>3. \/ ctx' = NoContext
        \/ ctx' = Built(ActiveProfile') /\ m' > 1
        \/ ctx' = Remaining(layer')
    BY <1>11, Zenon DEF Preamble
  <2>4. ASSUME ctx' = Remaining(layer'), ctx' # NoContext
        PROVE  ctx' = Built(ActiveProfile') /\ ActiveProfile'.multiplier > 1
    <3>1. ctx' = ctx
      BY <2>4 DEF Remaining
    <3>2. CASE layer'.revision = revision
      <4>1. layer' = layer
        BY <2>1, <3>2 DEF BaseInv, SettingsInv
      <4> QED
        BY <2>4, <3>1, <3>2, <4>1 DEF ActiveProfile, Built, FlowFor
    <3>3. CASE layer'.revision # revision
      <4>1. ~(ActiveProfile'.multiplier < 2) /\ ctx = Built(ActiveProfile')
        BY <2>4, <3>3 DEF Remaining, Stale, ActiveProfile
      <4>2. ActiveProfile'.multiplier \in Nat
        BY <1>11 DEF BaseInv, SettingsInv, Preamble, Update, Loads
      <4> QED
        BY <3>1, <4>1, <4>2
    <3> QED
      BY <3>2, <3>3
  <2>5. revision' \in Nat
    BY <2>2 DEF BaseInv, SettingsInv
  <2>6. ctx' # NoContext => ctx' = Built(ActiveProfile') /\ ActiveProfile'.multiplier > 1
    BY <2>2, <2>3, <2>4
  <2> QED
    BY <2>2, <2>5, <2>6 DEF ActiveProfile, Built, FlowFor
<1>12. CASE Grow
  <2>1. m \in Nat
    BY <1>12 DEF Grow, BaseInv, SettingsInv, Loads, ActiveProfile
  <2>2. passes' \in Int /\ passes' >= m - 1
    <3>1. passes' = (IF m - 1 > passes THEN m - 1 ELSE passes) /\ passes \in Int
      BY <1>12 DEF Grow, Inserted
    <3> QED
      BY <2>1, <3>1
  <2>3. /\ UNCHANGED <<revision, layer, ctx, m>> /\ pc = "grow" /\ pc' = "dispatch"
        /\ ActiveProfile' = ActiveProfile
    BY <1>12 DEF Grow, settingsVars, layerVars, localVars, ActiveProfile
  <2> QED
    BY <2>1, <2>2, <2>3 DEF Built, FlowFor, Inserted
<1>13. CASE GrowFails
  BY <1>13 DEF GrowFails, settingsVars, layerVars, ActiveProfile, Built, FlowFor, Inserted
<1>14. CASE Dispatch
  BY <1>14, <1>3, <1>4 DEF Dispatch, fixedVars, settingsVars, layerVars, wrapperVars
<1>15. CASE Generate
  BY <1>15, <1>3 DEF Generate, fixedVars, settingsVars, layerVars, wrapperVars
<1>16. CASE GenerateFails
  BY <1>16, <1>4 DEF GenerateFails
<1>17. CASE CopyOut
  BY <1>17, <1>3, <1>4 DEF CopyOut, fixedVars, settingsVars, layerVars, wrapperVars, localVars
<1>18. CASE PresentInner
  BY <1>18, <1>3, <1>4 DEF PresentInner, Rejected, fixedVars, settingsVars, layerVars, wrapperVars
<1>19. CASE PresentOriginal
  BY <1>19, <1>1, <1>4 DEF PresentOriginal, Rejected, fixedVars, settingsVars, layerVars, wrapperVars
<1>20. CASE Passthrough
  BY <1>20, <1>1 DEF Passthrough, fixedVars, settingsVars, layerVars, wrapperVars
<1>21. CASE GameAcquires \/ Flip \/ PresentUntouched \/ UNCHANGED vars
  BY <1>21, <1>2 DEF GameAcquires, Flip, PresentUntouched, vars, presentVars, fixedVars, settingsVars, layerVars, wrapperVars, localVars
<1> QED
  BY <1>5, <1>6, <1>7, <1>8, <1>9, <1>10, <1>11, <1>12, <1>13, <1>14, <1>15, <1>16, <1>17, <1>18,
     <1>19, <1>20, <1>21 DEF Next

-----------------------------------------------------------------------------
(* What accounts for the images lost.                                       *)
Debt == refused + revision + IF failed = TRUE THEN 1 ELSE 0

(* Each lost image is accounted to a failure.                               *)
LossInv ==
  /\ DOMAIN image = Images
  /\ refused \in Nat
  /\ Cardinality(Lost) <= Debt

(* The images lost can be counted.                                          *)
LEMMA LostFinite == IsFiniteSet(Lost) /\ Cardinality(Lost) \in Nat
  BY FixedAssumption, FS_Subset, FS_CardinalityType DEF Lost

(* A set with at most one element more.                                     *)
LEMMA OneMore ==
  ASSUME NEW S, NEW T, NEW i, IsFiniteSet(S), T \subseteq S \cup {i}
  PROVE  /\ IsFiniteSet(T)
         /\ Cardinality(T) \in Nat /\ Cardinality(S) \in Nat
         /\ Cardinality(T) <= Cardinality(S) + 1
<1> DEFINE U == S \cup {i}
<1>1. IsFiniteSet(U) /\ (Cardinality(U) = Cardinality(S) \/ Cardinality(U) = Cardinality(S) + 1)
  BY FS_AddElement
<1>2. T \subseteq U
  OBVIOUS
<1> HIDE DEF U
<1>3. IsFiniteSet(T) /\ Cardinality(T) <= Cardinality(U)
  BY <1>1, <1>2, FS_Subset
<1>4. Cardinality(T) \in Nat /\ Cardinality(U) \in Nat /\ Cardinality(S) \in Nat
  BY <1>1, <1>3, FS_CardinalityType
<1> QED
  BY <1>1, <1>3, <1>4

(* A present that loses an image at most, or two.                           *)
LEMMA LosesOne ==
  ASSUME NEW i, Lost' \subseteq Lost \cup {i}
  PROVE  /\ Cardinality(Lost) \in Nat /\ Cardinality(Lost') \in Nat
         /\ Cardinality(Lost') <= Cardinality(Lost) + 1
  BY LostFinite, OneMore

(* One failure loses at most two images.                                    *)
LEMMA LosesTwo ==
  ASSUME NEW i, NEW j, Lost' \subseteq Lost \cup {i, j}
  PROVE  /\ Cardinality(Lost) \in Nat /\ Cardinality(Lost') \in Nat
         /\ Cardinality(Lost') <= Cardinality(Lost) + 2
<1> DEFINE U == Lost \cup {i}
<1>1. /\ IsFiniteSet(U) /\ Cardinality(U) \in Nat /\ Cardinality(Lost) \in Nat
      /\ Cardinality(U) <= Cardinality(Lost) + 1
  BY LostFinite, OneMore
<1>2. Lost' \subseteq U \cup {j}
  OBVIOUS
<1> HIDE DEF U
<1>3. Cardinality(Lost') \in Nat /\ Cardinality(Lost') <= Cardinality(U) + 1
  BY <1>1, <1>2, OneMore
<1> QED
  BY <1>1, <1>3

(* An image is lost only with a present that fails, a second one only when  *)
(* the wrapper fails with it, and it recovers only with a new revision.     *)
LEMMA LossStep ==
  ASSUME BaseInv, SemaphoreInv, SemaphoreInv', CurrentInv, CurrentInv', LossInv, [Next]_vars
  PROVE  LossInv'
<1> USE DEF LossInv
<1>1. /\ revision \in Nat /\ revision' \in Nat /\ revision <= layer.revision
      /\ failed \in BOOLEAN /\ failed' \in BOOLEAN /\ Cardinality(Lost) \in Nat
      /\ (pc \in Running \cup {"grow"} => failed = FALSE)
  BY LostFinite DEF SemaphoreInv, CurrentInv
<1>2. ASSUME DOMAIN image' = Images, Lost' \subseteq Lost, refused' = refused,
             revision' + (IF failed' = TRUE THEN 1 ELSE 0) >= revision + (IF failed = TRUE THEN 1 ELSE 0)
      PROVE  LossInv'
  <2>1. Cardinality(Lost') \in Nat /\ Cardinality(Lost') <= Cardinality(Lost)
    BY <1>2, LostFinite, FS_Subset, FS_CardinalityType
  <2> QED
    BY <1>1, <1>2, <2>1 DEF Debt
<1>3. ASSUME NEW error, NEW now, NEW i, GiveUp(error, now), pc \in Running, DOMAIN now = Images,
             {j \in Images : now[j] = "lost"} \subseteq Lost \cup {i}, error = "starved" => now = image
      PROVE  LossInv'
  <2>1. /\ DOMAIN image' = Images /\ refused' = refused + 1 /\ revision' = revision
        /\ failed = FALSE /\ failed' = (error # "starved")
    BY <1>1, <1>3 DEF GiveUp, Transient
  <2>2. CASE error = "starved"
    <3>1. Lost' \subseteq Lost \cup {index}
      BY <1>3, <2>2 DEF GiveUp, Lost
    <3> QED
      BY <1>1, <2>1, <2>2, <3>1, LosesOne DEF Debt
  <2>3. CASE error # "starved"
    <3>1. Lost' \subseteq Lost \cup {i, index}
      BY <1>3 DEF GiveUp, Lost
    <3>2. failed' = TRUE
      BY <2>1, <2>3, Zenon
    <3>3. Debt = refused + revision /\ Debt' = refused + 1 + revision + 1
      BY <1>1, <2>1, <3>2 DEF Debt
    <3>4. Cardinality(Lost') \in Nat /\ Cardinality(Lost') <= Cardinality(Lost) + 2
      BY <3>1, LosesTwo
    <3> QED
      BY <1>1, <2>1, <3>3, <3>4
  <2> QED
    BY <2>2, <2>3
<1>4. ASSUME DOMAIN image' = Images, Lost' \subseteq Lost, UNCHANGED <<refused, revision, failed>>
      PROVE  LossInv'
  BY <1>1, <1>2, <1>4
<1>5. CASE Starts \/ Edits \/ UpdateElsewhere \/ BeginUpdate \/ UNCHANGED vars
  BY <1>5, <1>4 DEF Starts, Edits, UpdateElsewhere, BeginUpdate, presentVars, wrapperVars, vars, Lost
<1>6. CASE GameAcquires \/ Flip \/ PresentUntouched \/ Passthrough
  BY <1>6, <1>4 DEF GameAcquires, Flip, PresentUntouched, Passthrough, fixedVars, wrapperVars, Lost
<1>7. CASE Create
  <2>1. UNCHANGED <<image, refused, failed>> /\ revision' = layer.revision /\ Lost' = Lost
    BY <1>7 DEF Create, Lost
  <2>2. layer.revision \in Nat
    BY DEF BaseInv, SettingsInv
  <2> QED
    BY <1>1, <2>1, <2>2 DEF Debt
<1>8. CASE Drop
  <2>1. Lost' = {} /\ DOMAIN image' = Images /\ refused' = 0 /\ revision' = 0 /\ failed' = FALSE
    BY <1>8 DEF Drop, Lost
  <2> QED
    BY <2>1, FS_EmptySet DEF Debt
<1>9. CASE Preamble
  <2>1. UNCHANGED <<image, refused>> /\ Lost' = Lost /\ revision' = layer'.revision
    BY <1>9 DEF Preamble, Lost
  <2>2. layer'.revision \in Nat /\ (layer' = layer \/ layer'.revision = layer.revision + 1)
    BY <1>9, UpdateSettings DEF Preamble, BaseInv, Loads, SettingsInv
  <2>3. revision' >= revision
    BY <1>1, <2>1, <2>2 DEF BaseInv, SettingsInv
  <2>4. failed = TRUE /\ revision' = revision => failed' = TRUE
    <3>1. SUFFICES ASSUME failed = TRUE, revision' = revision
                   PROVE  failed' = TRUE
      OBVIOUS
    <3>2. PICK r \in {[left |-> signalled, ok |-> ~failed]} :
            IF Remaining(layer') = NoContext /\ r.ok /\ m' > 1
            THEN \/ ctx' = Built(ActiveProfile') /\ failed' = FALSE
                 \/ "context" \in Faults /\ ctx' = NoContext /\ failed' = TRUE
            ELSE ctx' = Remaining(layer') /\ failed' = ~r.ok
      BY <1>9, <2>1, <3>1 DEF Preamble
    <3>3. r = [left |-> signalled, ok |-> FALSE]
      BY <3>1, <3>2, Zenon
    <3>4. r.ok = FALSE
      BY <3>3
    <3> QED
      BY <3>2, <3>4, Zenon
  <2>5. revision' # revision => revision' >= revision + 1
    BY <1>1, <2>3
  <2>6. Debt' >= Debt
    <3>1. CASE failed = TRUE /\ revision' = revision
      BY <1>1, <2>1, <2>4, <3>1 DEF Debt
    <3>2. CASE failed = FALSE
      BY <1>1, <2>1, <2>3, <3>2 DEF Debt
    <3>3. CASE revision' # revision
      BY <1>1, <2>1, <2>5, <3>3 DEF Debt
    <3> QED
      BY <1>1, <3>1, <3>2, <3>3
  <2> QED
    BY <1>1, <2>1, <2>6 DEF Debt
<1>10. CASE Grow
  BY <1>10, <1>4 DEF Grow, Lost
<1>11. CASE GrowFails
  <2>1. DOMAIN image' = Images /\ refused' = refused + 1 /\ UNCHANGED <<revision, failed>>
    BY <1>11 DEF GrowFails
  <2>2. Lost' \subseteq Lost \cup {index}
    BY <1>11 DEF GrowFails, Lost
  <2> QED
    BY <1>1, <2>1, <2>2, LosesOne DEF Debt
<1>12. CASE Dispatch
  BY <1>12, <1>3, <1>4 DEF Dispatch, Running, fixedVars, wrapperVars, Lost
<1>13. CASE Generate
  BY <1>13, <1>4 DEF Generate, fixedVars, wrapperVars, Lost
<1>14. CASE GenerateFails
  BY <1>14, <1>3 DEF GenerateFails, Running, Lost
<1>15. CASE CopyOut
  <2>1. CASE UNCHANGED <<fixedVars, image, refused>>
    BY <2>1, <1>4 DEF fixedVars, wrapperVars, Lost
  <2>2. CASE GiveUp("copy", [image EXCEPT ![target] = "lost"])
    <3>1. /\ DOMAIN [image EXCEPT ![target] = "lost"] = Images
          /\ {j \in Images : [image EXCEPT ![target] = "lost"][j] = "lost"} \subseteq Lost \cup {target}
      BY DEF Lost
    <3> QED
      BY <1>3, <1>15, <2>2, <3>1 DEF CopyOut, Running
  <2> QED
    BY <1>15, <2>1, <2>2 DEF CopyOut
<1>16. CASE PresentInner
  <2>1. CASE Shown(target, Copy(slot)) /\ UNCHANGED <<fixedVars, refused>>
    BY <2>1, <1>4 DEF Shown, fixedVars, wrapperVars, Lost
  <2>2. ASSUME NEW now \in {[image EXCEPT ![target] = "lost"], [image EXCEPT ![target] = "screen"]},
               GiveUp("rejected", now)
        PROVE  LossInv'
    <3>1. DOMAIN now = Images /\ {j \in Images : now[j] = "lost"} \subseteq Lost \cup {target}
      BY <2>2 DEF Lost
    <3> QED
      BY <1>3, <1>16, <2>2, <3>1 DEF PresentInner, Running
  <2> QED
    BY <1>16, <2>1, <2>2 DEF PresentInner, Rejected
<1>17. CASE PresentOriginal
  <2>1. CASE Shown(index, Present(index)) /\ UNCHANGED <<fixedVars, refused>>
    BY <2>1, <1>4 DEF Shown, fixedVars, wrapperVars, Lost
  <2>2. ASSUME NEW now \in {[image EXCEPT ![index] = "lost"], [image EXCEPT ![index] = "screen"]},
               GiveUp("rejected", now)
        PROVE  LossInv'
    <3>1. DOMAIN now = Images /\ {j \in Images : now[j] = "lost"} \subseteq Lost \cup {index}
      BY <2>2 DEF Lost
    <3> QED
      BY <1>3, <1>17, <2>2, <3>1 DEF PresentOriginal, Running
  <2> QED
    BY <1>17, <2>1, <2>2 DEF PresentOriginal, Rejected
<1> QED
  BY <1>5, <1>6, <1>7, <1>8, <1>9, <1>10, <1>11, <1>12, <1>13, <1>14, <1>15, <1>16, <1>17 DEF Next

-----------------------------------------------------------------------------
(* The four parts together.                                                 *)
Inv == BaseInv /\ SemaphoreInv /\ CurrentInv /\ LossInv

(* The four parts hold at the start and after every step.                   *)
LEMMA InvStart ==
  ASSUME Init
  PROVE  Inv
<1>1. BaseInv
  BY DEF Init, SettingsInit, BaseInv, SettingsInv, LayerShape, Loads
<1>2. SemaphoreInv
  BY DEF Init, SemaphoreInv, Expected, Running
<1>3. CurrentInv
  BY DEF Init, SettingsInit, CurrentInv, Running
<1>4. LossInv
  <2>1. Lost = {}
    BY DEF Init, Lost
  <2> QED
    BY <2>1, FS_EmptySet DEF Init, LossInv, Debt
<1> QED
  BY <1>1, <1>2, <1>3, <1>4 DEF Inv

(* Every step keeps them, in that order.                                    *)
LEMMA InvStep ==
  ASSUME Inv, [Next]_vars
  PROVE  Inv'
  BY BaseStep, SemaphoreStep, CurrentStep, LossStep DEF Inv

-----------------------------------------------------------------------------
(* The file and what is still to be written of it are one of these.         *)
WrittenInv ==
  /\ file \in Seq(Lines) /\ unsaved \in Seq(Lines)
  /\ file = None => unsaved = <<>>
  /\ file # None => file \o unsaved \in Files

(* A stamp that was taken is no later than the file, and a file of the same *)
(* time is no shorter, so that a change of the file is seen.                *)
NoLater(t, l) == t < time \/ (t = time /\ (file = None \/ l <= Len(file)))

Known(x) ==
  \/ x = Nowhere
  \/ \E t, l \in Nat : x = <<t, l>> /\ NoLater(t, l)

ClockInv ==
  /\ time \in Nat
  /\ watcher = [mtime |-> watcher.mtime, failed |-> watcher.failed]
  /\ Known(watcher.mtime) /\ Known(watcher.failed) /\ Known(seen)

(* The layer has what the file says, or the file is half written and usable.*)
HasFile ==
  \/ unsaved = <<>> /\ \E c \in Configs \cup {Builtin} :
       file = ToToml(c) /\ (layer.config = ApplyEnv(c) \/ SameName(c) = 0)
  \/ unsaved # <<>> /\ Parse(file).ok

(* So it is once the file is read, until it changes; and ever after when    *)
(* the watcher knows its stamp.                                             *)
Watched == ~env.env /\ ~overtaken /\ file # None

ReadInv ==
  /\ step = "watch" /\ Watched => HasFile
  /\ step = "on" /\ Watched => /\ watcher.mtime = Stamp => HasFile
                               /\ watcher.failed = Stamp => ~Parse(file).ok

StampInv == WrittenInv /\ ClockInv /\ ReadInv

(* Cutting a text in two and putting it together again.                     *)
LEMMA CutText ==
  ASSUME NEW f \in Seq(Lines), NEW n \in 1..Len(f)
  PROVE  /\ SubSeq(f, 1, n) \in Seq(Lines) /\ SubSeq(f, n + 1, Len(f)) \in Seq(Lines)
         /\ SubSeq(f, 1, n) # None
         /\ SubSeq(f, 1, n) \o SubSeq(f, n + 1, Len(f)) = f
<1>1. /\ n \in Nat /\ 1 <= n /\ n <= Len(f) /\ n \in 0..Len(f) /\ Len(f) \in n..Len(f)
      /\ 1 \in 1..(Len(f) + 1)
  OBVIOUS
<1>2. SubSeq(f, 1, n) \o SubSeq(f, n + 1, Len(f)) = SubSeq(f, 1, Len(f))
  BY <1>1, ConcatAdjacentSubSeq
<1>3. SubSeq(f, 1, Len(f)) = f
  BY SubSeqFull
<1>4. SubSeq(f, 1, n) \in Seq(Lines) /\ Len(SubSeq(f, 1, n)) = n
  BY <1>1
<1>5. SubSeq(f, n + 1, Len(f)) \in Seq(Lines)
  BY <1>1
<1>6. SubSeq(f, 1, n) # None
  <2>1. Len(<<>>) = 0
    OBVIOUS
  <2> QED
    BY <1>1, <1>4, <2>1 DEF None
<1> QED
  BY <1>2, <1>3, <1>4, <1>5, <1>6, Zenon

(* The file is always a save or the beginning of one.                       *)
LEMMA WrittenStep ==
  ASSUME WrittenInv, Starting \/ Edit \/ UNCHANGED fileVars
  PROVE  WrittenInv'
<1>1. CASE UNCHANGED fileVars
  BY <1>1 DEF fileVars, WrittenInv
<1>2. CASE Save
  <2>1. PICK c \in Configs : \E n \in 1..Len(ToToml(c)) :
          /\ file' = SubSeq(ToToml(c), 1, n)
          /\ unsaved' = SubSeq(ToToml(c), n + 1, Len(ToToml(c)))
    BY <1>2, Zenon DEF Save
  <2>2. ToToml(c) \in Seq(Lines) /\ ToToml(c) \in Files
    BY SavedReadBack DEF ReadsBack, Saved, Files
  <2> QED
    BY <2>1, <2>2, CutText DEF WrittenInv
<1>3. CASE FinishSave
  <2>1. file \o unsaved \in Files /\ file \o unsaved \in Seq(Lines)
    BY <1>3 DEF FinishSave, WrittenInv
  <2>2. (file \o unsaved) \o <<>> = file \o unsaved
    BY <2>1, ConcatEmptySeq
  <2> QED
    BY <1>3, <2>1, <2>2 DEF FinishSave, WrittenInv
<1>4. CASE RemoveFile
  BY <1>4 DEF RemoveFile, WrittenInv, None
<1>5. CASE WriteDefault
  <2>1. ToToml(Builtin) \in Seq(Lines) /\ ToToml(Builtin) \in Files
    BY SavedReadBack DEF ReadsBack, Saved, Files
  <2>2. ToToml(Builtin) \o <<>> = ToToml(Builtin)
    BY <2>1, ConcatEmptySeq
  <2> QED
    BY <1>5, <2>1, <2>2 DEF WriteDefault, WrittenInv
<1> QED
  BY <1>1, <1>2, <1>3, <1>4, <1>5 DEF Edit, Starting, Load, ReadFile, Watch

(* When the file changes, no stamp that was known is its stamp any more.    *)
Changes == Save \/ FinishSave \/ RemoveFile \/ WriteDefault

(* No step that changes the file leaves it a stamp that was taken before.   *)
LEMMA ChangeIsSeen ==
  ASSUME WrittenInv, WrittenInv', time \in Nat, Changes
  PROVE  /\ time' \in Nat
         /\ \A x : Known(x) => Known(x)' /\ (file' = None \/ x # Stamp')
<1>1. time' \in Nat
  BY DEF Changes, Save, FinishSave, RemoveFile, WriteDefault
<1>2. ASSUME NEW x, x = Nowhere
      PROVE  file' = None \/ x # Stamp'
  BY <1>1, <1>2 DEF Nowhere, Stamp
<1>3. ASSUME NEW t \in Nat, NEW l \in Nat, NoLater(t, l)
      PROVE  /\ NoLater(t, l)'
             /\ file' = None \/ <<t, l>> # Stamp'
  <2>1. CASE time' = time + 1
    BY <1>3, <2>1 DEF Stamp, NoLater
  <2>2. CASE FinishSave /\ time' = time
    <3>1. Len(unsaved) > 0 /\ Len(file') = Len(file) + Len(unsaved) /\ Len(file) \in Nat
      BY <2>2 DEF FinishSave, WrittenInv
    <3> QED
      BY <1>3, <2>2, <3>1 DEF Stamp, NoLater, FinishSave
  <2>3. CASE RemoveFile
    BY <1>3, <2>3 DEF RemoveFile, NoLater
  <2> QED
    BY <2>1, <2>2, <2>3 DEF Changes, Save, FinishSave, WriteDefault
<1> QED
  BY <1>1, <1>2, <1>3 DEF Known

(* A layer that takes what was parsed, or whose profile is not in it, has   *)
(* what the file says.                                                      *)
LEMMA FileIsRead ==
  ASSUME WrittenInv, file # None, Parse(file).ok, UNCHANGED <<file, unsaved, env>>,
         \/ layer'.config = ApplyEnv(Parse(file).cfg)
         \/ layer' = layer /\ SameName(Parse(file).cfg) = 0
  PROVE  HasFile'
<1>1. CASE unsaved = <<>>
  <2>1. file \o <<>> = file
    BY ConcatEmptySeq DEF WrittenInv
  <2>2. PICK c \in Saved : file = ToToml(c)
    BY <1>1, <2>1, Zenon DEF WrittenInv, Files
  <2>3. Parse(file).cfg = c
    BY <2>2, SavedReadBack, Zenon DEF ReadsBack
  <2>4. layer'.config = ApplyEnv(c)' \/ SameName(c)' = 0
    BY <2>3 DEF ApplyEnv, SameName, ActiveProfile
  <2> QED
    BY <1>1, <2>2, <2>4, Zenon DEF HasFile, Saved
<1>2. CASE unsaved # <<>>
  BY <1>2, Zenon DEF HasFile
<1> QED
  BY <1>1, <1>2

(* What load() returns is what the layer gets.                              *)
LEMMA LoadedConfig ==
  ASSUME LayerShape, NEW cfg, Loaded(cfg), step' = "watch"
  PROVE  layer'.config = cfg
<1>1. layer' = [layer EXCEPT !.config = cfg, !.profile = Identify(cfg)]
  BY DEF Loaded
<1> QED
  BY <1>1 DEF LayerShape

(* A step of the start reads the file, and the watcher takes its stamp.     *)
LEMMA StampStart ==
  ASSUME SettingsInv, StampInv, Starting
  PROVE  StampInv'
<1>1. WrittenInv /\ WrittenInv'
  BY WrittenStep DEF StampInv
<1>2. CASE Load
  <2>1. UNCHANGED <<file, time, unsaved, env, watcher, seen, overtaken>>
    BY <1>2 DEF Load, fileVars
  <2>2. step' # "watch" /\ (step' = "on" => env.env)
    BY <1>2 DEF Load, Loaded, Off
  <2> QED
    BY <1>1, <2>1, <2>2 DEF StampInv, ClockInv, ReadInv, Watched, Known, NoLater
<1>3. CASE ReadFile
  <2>1. /\ UNCHANGED <<file, time, unsaved, env, watcher, seen, overtaken>>
        /\ step' # "on"
    BY <1>3 DEF ReadFile, Loaded, Off, SettingsInv, fileVars
  <2>2. ClockInv'
    BY <2>1 DEF StampInv, ClockInv, Known, NoLater
  <2>3. ASSUME step' = "watch" PROVE HasFile'
    <3>1. file # None /\ Parse(file).ok /\ Loaded(ApplyEnv(Parse(file).cfg))
      BY <1>3, <2>3 DEF ReadFile, Off
    <3>2. layer'.config = ApplyEnv(Parse(file).cfg)
      BY <2>3, <3>1, LoadedConfig DEF SettingsInv
    <3> QED
      BY <1>1, <2>1, <3>1, <3>2, FileIsRead
  <2> QED
    BY <1>1, <2>1, <2>2, <2>3 DEF StampInv, ReadInv
<1>4. CASE WriteDefault
  <2>1. /\ file' = ToToml(Builtin) /\ unsaved' = <<>> /\ Loaded(ApplyEnv(Builtin))
        /\ UNCHANGED <<env, watcher, seen, overtaken>> /\ step' # "on"
    BY <1>4 DEF WriteDefault, Loaded, SettingsInv
  <2>2. ClockInv'
    BY <1>1, <1>4, <2>1, ChangeIsSeen DEF StampInv, ClockInv, Changes
  <2>3. ASSUME step' = "watch" PROVE HasFile'
    <3>1. layer'.config = ApplyEnv(Builtin)
      BY <2>1, <2>3, LoadedConfig DEF SettingsInv
    <3>2. layer'.config = ApplyEnv(Builtin)'
      BY <2>1, <3>1 DEF ApplyEnv
    <3> QED
      BY <2>1, <3>2, Zenon DEF HasFile
  <2> QED
    BY <1>1, <2>1, <2>2, <2>3 DEF StampInv, ReadInv
<1>5. CASE Watch
  <2>1. /\ UNCHANGED <<file, time, unsaved, env, layer, seen, overtaken>>
        /\ watcher' = [mtime |-> Stamp, failed |-> Nowhere] /\ step = "watch" /\ step' = "on"
    BY <1>5 DEF Watch, fileVars
  <2>2. Known(Stamp) /\ Known(Nowhere)
    BY <1>1 DEF Known, NoLater, Stamp, StampInv, ClockInv, WrittenInv
  <2>3. ClockInv'
    BY <2>1, <2>2 DEF StampInv, ClockInv, Known, NoLater
  <2>4. file # None => Stamp # Nowhere
    BY DEF Stamp, Nowhere, StampInv, ClockInv
  <2>5. HasFile' = HasFile /\ Stamp' = Stamp /\ Watched' = Watched
    BY <2>1 DEF HasFile, Stamp, Watched, ApplyEnv, SameName, ActiveProfile
  <2>6. watcher'.failed = Nowhere
    BY <2>1
  <2> QED
    BY <1>1, <2>1, <2>3, <2>4, <2>5, <2>6 DEF StampInv, ReadInv, Watched
<1> QED
  BY <1>2, <1>3, <1>4, <1>5 DEF Starting

(* What changes the file makes every stamp old.                             *)
LEMMA StampEdit ==
  ASSUME StampInv, Edit
  PROVE  StampInv'
<1>1. WrittenInv /\ WrittenInv'
  BY WrittenStep DEF StampInv
<1>2. Changes /\ overtaken' = (overtaken \/ step = "watch") /\ UNCHANGED <<env, step, layer, watcher, seen>>
  BY DEF Edit, Changes
<1>3. ClockInv'
  BY <1>1, <1>2, ChangeIsSeen DEF StampInv, ClockInv
<1>4. file' = None \/ (watcher.mtime # Stamp' /\ watcher.failed # Stamp')
  BY <1>1, <1>2, ChangeIsSeen DEF StampInv, ClockInv
<1> QED
  BY <1>1, <1>2, <1>3, <1>4 DEF StampInv, ReadInv, Watched

(* A check takes the file's stamp.                                          *)
LEMMA StampTaken ==
  ASSUME StampInv, TakeStamp, UNCHANGED <<fileVars, layerVars>>
  PROVE  StampInv'
<1>1. UNCHANGED <<file, time, unsaved, env, step, layer, watcher, overtaken>> /\ seen' = Stamp
  BY DEF TakeStamp, fileVars, layerVars
<1>2. Known(Stamp)
  BY DEF Known, NoLater, Stamp, StampInv, ClockInv, WrittenInv
<1>3. WrittenInv' /\ ClockInv'
  BY <1>1, <1>2 DEF StampInv, WrittenInv, ClockInv, Known, NoLater
<1>4. HasFile' = HasFile /\ Stamp' = Stamp /\ Watched' = Watched
  BY <1>1 DEF HasFile, Stamp, Watched, ApplyEnv, SameName, ActiveProfile
<1> QED
  BY <1>1, <1>3, <1>4 DEF StampInv, ReadInv

(* A file whose stamp is new is read, and it has not changed since.         *)
LEMMA StampUpdate ==
  ASSUME StampInv, step = "on", Update
  PROVE  StampInv'
<1>1. UNCHANGED <<file, time, unsaved, env, step, overtaken>> /\ seen' = Nowhere
  BY DEF Update, fileVars
<1>2. WrittenInv /\ WrittenInv'
  BY <1>1 DEF StampInv, WrittenInv
<1>3. Stamp' = Stamp /\ Watched' = Watched
  BY <1>1 DEF Stamp, Watched
<1>4. ASSUME layer' = layer PROVE HasFile' = HasFile
  BY <1>1, <1>4 DEF HasFile, ApplyEnv, SameName, ActiveProfile
<1>5. CASE UNCHANGED <<watcher, layer>>
  <2>1. ClockInv'
    BY <1>1, <1>5 DEF StampInv, ClockInv, Known, NoLater
  <2> QED
    BY <1>1, <1>2, <1>3, <1>4, <1>5, <2>1 DEF StampInv, ReadInv
<1>6. CASE watcher' = Failed /\ layer' = layer /\ ~(file # None /\ Parse(file).ok)
  <2>1. watcher'.mtime = watcher.mtime /\ watcher'.failed = seen
        /\ watcher' = [mtime |-> watcher'.mtime, failed |-> watcher'.failed]
    BY <1>6 DEF Failed, StampInv, ClockInv
  <2>2. ClockInv'
    BY <1>1, <2>1 DEF StampInv, ClockInv, Known, NoLater
  <2>3. step = "on" /\ Watched => /\ watcher'.mtime = Stamp => HasFile'
                                  /\ watcher'.failed = Stamp => ~Parse(file).ok
    BY <1>4, <1>6, <2>1 DEF StampInv, ReadInv, Watched
  <2> QED
    BY <1>1, <1>2, <1>3, <2>2, <2>3 DEF StampInv, ReadInv
<1>7. CASE /\ file # None /\ Parse(file).ok /\ watcher' = [mtime |-> seen, failed |-> Nowhere]
           /\ \/ layer'.config = ApplyEnv(Parse(file).cfg)
              \/ layer' = layer /\ SameName(Parse(file).cfg) = 0
  <2>1. watcher'.mtime = seen /\ watcher'.failed = Nowhere
        /\ watcher' = [mtime |-> watcher'.mtime, failed |-> watcher'.failed]
    BY <1>7
  <2>2. ClockInv'
    BY <1>1, <2>1 DEF StampInv, ClockInv, Known, NoLater
  <2>3. HasFile'
    BY <1>1, <1>2, <1>7, FileIsRead
  <2>4. Stamp # Nowhere
    BY <1>7 DEF Stamp, Nowhere, StampInv, ClockInv
  <2> QED
    BY <1>1, <1>2, <1>3, <2>1, <2>2, <2>3, <2>4 DEF StampInv, ReadInv
<1> QED
  <2>1. CASE Unchanged
    BY <1>5, <2>1 DEF Update
  <2>2. CASE ~Unchanged
    <3>1. Reload
      BY <2>2 DEF Update
    <3>2. CASE file = None \/ ~Parse(file).ok
      BY <1>6, <3>1, <3>2, Zenon DEF Reload
    <3>3. CASE ~(file = None \/ ~Parse(file).ok) /\ SameName(Parse(file).cfg) = 0
      BY <1>7, <3>1, <3>3, Zenon DEF Reload
    <3>4. CASE ~(file = None \/ ~Parse(file).ok) /\ SameName(Parse(file).cfg) # 0
      <4>1. layer' = [config |-> ApplyEnv(Parse(file).cfg), profile |-> SameName(Parse(file).cfg),
                      revision |-> layer.revision + 1]
        BY <3>1, <3>4, Zenon DEF Reload
      <4>2. layer'.config = ApplyEnv(Parse(file).cfg)
        BY <4>1
      <4> QED
        BY <1>7, <3>1, <3>4, <4>2, Zenon DEF Reload
    <3> QED
      BY <3>2, <3>3, <3>4
  <2> QED
    BY <2>1, <2>2

(* Every step of the wrapper keeps what is known of the stamps.             *)
LEMMA StampStep ==
  ASSUME BaseInv, StampInv, [Next]_vars
  PROVE  StampInv'
<1>1. CASE UNCHANGED settingsVars
  <2>1. HasFile' = HasFile /\ Stamp' = Stamp /\ Watched' = Watched
    BY <1>1 DEF HasFile, Stamp, Watched, ApplyEnv, SameName, ActiveProfile, settingsVars, fileVars, layerVars
  <2>2. WrittenInv' /\ ClockInv'
    BY <1>1 DEF StampInv, WrittenInv, ClockInv, Known, NoLater, settingsVars, fileVars, layerVars
  <2> QED
    BY <1>1, <2>1, <2>2 DEF StampInv, ReadInv, settingsVars, fileVars, layerVars
<1>2. CASE Starts \/ Edits
  BY <1>2, StampStart, StampEdit DEF Starts, Edits, BaseInv
<1>3. CASE BeginUpdate
  BY <1>3, StampTaken DEF BeginUpdate
<1>4. CASE UpdateElsewhere \/ Preamble
  BY <1>4, StampUpdate DEF UpdateElsewhere, Preamble, BaseInv, Loads
<1>5. ASSUME NEW error, NEW now, GiveUp(error, now) PROVE UNCHANGED settingsVars
  BY <1>5 DEF GiveUp
<1> QED
  BY <1>1, <1>2, <1>3, <1>4, <1>5
     DEF Next, vars, Create, Drop, GameAcquires, Flip, PresentUntouched, Passthrough, Grow, GrowFails,
         Dispatch, Generate, GenerateFails, CopyOut, PresentInner, PresentOriginal, Rejected, fixedVars

(* They are known at the start.                                             *)
LEMMA StampAtStart ==
  ASSUME SettingsInit
  PROVE  StampInv
<1>1. time = 0 /\ unsaved = <<>> /\ step = "load" /\ seen = Nowhere
      /\ watcher = [mtime |-> Nowhere, failed |-> Nowhere]
  BY DEF SettingsInit
<1>2. ClockInv /\ ReadInv
  BY <1>1 DEF ClockInv, Known, ReadInv
<1>3. CASE file = None
  BY <1>1, <1>2, <1>3 DEF StampInv, WrittenInv, None
<1>4. CASE file # None
  <2>1. PICK c \in Configs : file = ToToml(c)
    BY <1>4, Zenon DEF SettingsInit
  <2>2. file \in Seq(Lines) /\ file \in Files
    BY <2>1, SavedReadBack, Zenon DEF ReadsBack, Saved, Files
  <2>3. file \o unsaved = file
    BY <1>1, <2>2, ConcatEmptySeq
  <2> QED
    BY <1>1, <1>2, <1>4, <2>2, <2>3 DEF StampInv, WrittenInv
<1> QED
  BY <1>3, <1>4

(* The inductive invariant of the wrapper and its settings.                 *)
THEOREM InvHolds == Spec => []Inv
  BY InvStart, InvStep, PTL DEF Spec

(* The binary semaphores of the wrapper are never signalled twice and never *)
(* waited for in vain, whichever calls fail and whenever the file changes.  *)
THEOREM SemaphoresTaken == Spec => []SemaphoresInTurn
<1>1. Inv => SemaphoresInTurn
  BY DEF Inv, SemaphoreInv, SemaphoresInTurn
<1> QED
  BY <1>1, InvHolds, PTL

(* A present generates only with what the profile at hand asks for, and     *)
(* with passes enough.                                                      *)
THEOREM AlwaysCurrent == Spec => []RunsCurrent
<1>1. Inv => RunsCurrent
  BY DEF Inv, CurrentInv, SemaphoreInv, RunsCurrent, Running
<1> QED
  BY <1>1, InvHolds, PTL

(* The images lost are at most the presents that failed, one for every      *)
(* revision, and one.                                                       *)
THEOREM LossesPaidFor == Spec => []LossBounded
<1>1. ASSUME Inv PROVE LossBounded
  <2>1. /\ refused \in Nat /\ revision \in Nat /\ layer.revision \in Nat /\ revision <= layer.revision
        /\ Cardinality(Lost) \in Nat /\ Cardinality(Lost) <= Debt
    BY <1>1, LostFinite DEF Inv, BaseInv, SettingsInv, CurrentInv, LossInv
  <2> QED
    BY <2>1 DEF Debt, LossBounded
<1> QED
  BY <1>1, InvHolds, PTL

(* From its start on a process keeps to the profile it picked.              *)
THEOREM KeepsProfile == Spec => ProfileKept
<1>1. Inv /\ [Next]_vars =>
        [step = "on" => step' = "on" /\ ActiveProfile'.name = ActiveProfile.name]_settingsVars
  BY BaseStep DEF Inv
<1> QED
  BY <1>1, InvHolds, PTL DEF Spec, ProfileKept

(* When the watcher takes the file's stamp for known, the layer has what    *)
(* the file says, whenever the file is saved, cut short, completed or       *)
(* removed between two checks.                                              *)
THEOREM StampsMeanRead == Spec => []StampMeansRead
<1>1. Init => BaseInv /\ StampInv
  BY InvStart, StampAtStart DEF Inv, Init
<1>2. BaseInv /\ StampInv /\ [Next]_vars => (BaseInv /\ StampInv)'
  BY BaseStep, StampStep
<1>3. BaseInv /\ StampInv => StampMeansRead
  BY DEF StampInv, ReadInv, Watched, HasFile, StampMeansRead
<1> QED
  BY <1>1, <1>2, <1>3, PTL DEF Spec
=============================================================================
