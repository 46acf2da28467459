--------------------------- MODULE SerialTcProofs ---------------------------
(***************************************************************************)
(* Proofs about SerialTc: the types, and that the byte stream stays intact *)
(* for any frames, any chunk size and any number of losses.                *)
(*                                                                         *)
(* What was sent is a sequence of frames put together.  The first part     *)
(* proves the laws of FlattenSeq that are needed, by induction over sets   *)
(* of natural numbers; the second part what the stream looks like behind   *)
(* any of its frames; the third part is about the steps.                   *)
(***************************************************************************)
EXTENDS SerialTc, SequenceTheorems, WellFoundedInduction, TLAPS

-----------------------------------------------------------------------------
(* Induction *)

\* A nonempty set of natural numbers has a least element.
LEMMA LeastElement ==
  ASSUME NEW T \in SUBSET Nat, T # {}
  PROVE  \E x \in T : \A y \in T : x <= y
<1> DEFINE R == {p \in Nat \X Nat : p[1] < p[2]}
<1>1. \A x, y \in Nat : <<x, y>> \in R <=> x < y
  OBVIOUS
<1>2. IsWellFoundedOn(R, Nat)
  BY NatLessThanWellFounded DEF OpToRel
<1> HIDE DEF R
<1>3. PICK x \in T : \A y \in T : ~(<<y, x>> \in R)
  BY WFMin, <1>2
<1>4. \A y \in T : ~(y < x)
  BY <1>1, <1>3
<1> QED
  BY <1>4

\* So Min is what it is meant to be.
LEMMA MinProperties ==
  ASSUME NEW T \in SUBSET Nat, T # {}
  PROVE  Min(T) \in T /\ \A y \in T : Min(T) <= y
BY LeastElement DEF Min

\* A set of natural numbers with 0 and every successor is all of them.
LEMMA SetInduction ==
  ASSUME NEW P \in SUBSET Nat, 0 \in P, \A n \in P : n + 1 \in P
  PROVE  P = Nat
<1> SUFFICES ASSUME Nat \ P # {} PROVE FALSE
  OBVIOUS
<1>1. PICK x \in Nat \ P : \A y \in Nat \ P : x <= y
  BY LeastElement
<1>2. x - 1 \in P
  BY <1>1
<1> QED
  BY <1>1, <1>2

-----------------------------------------------------------------------------
(* FlattenSeq *)

\* g[i] is the concatenation of the first i sequences in ss.
IsFlat(g, ss, n) ==
  g = [i \in 1 .. n |-> IF i = 1 THEN ss[i] ELSE g[i - 1] \o ss[i]]

\* How g[i] comes from g[i - 1].
LEMMA FlatValue ==
  ASSUME NEW g, NEW ss, NEW n \in Nat, IsFlat(g, ss, n), NEW i \in 1 .. n
  PROVE  g[i] = IF i = 1 THEN ss[i] ELSE g[i - 1] \o ss[i]
BY Zenon DEF IsFlat

\* There is such a function, so that the one FlattenSeq chooses is one.
LEMMA FlatExists ==
  ASSUME NEW ss, NEW n \in Nat
  PROVE  \E g : IsFlat(g, ss, n)
<1> DEFINE P == {m \in Nat : \E g : IsFlat(g, ss, m)}
<1>1. 0 \in P
  <2> DEFINE g == [i \in 1 .. 0 |-> 0]
  <2>1. IsFlat(g, ss, 0)
    BY DEF IsFlat
  <2> QED
    BY <2>1
<1>2. ASSUME NEW m \in P PROVE m + 1 \in P
  <2>1. m \in Nat
    OBVIOUS
  <2>2. PICK g : IsFlat(g, ss, m)
    OBVIOUS
  <2> DEFINE h == [i \in 1 .. m + 1 |->
                     IF i = 1 THEN ss[i] ELSE g[i - 1] \o ss[i]]
  <2>3. \A i \in 1 .. m :
          g[i] = IF i = 1 THEN ss[i] ELSE g[i - 1] \o ss[i]
    BY <2>1, <2>2, FlatValue
  <2>4. \A i \in 1 .. m + 1 :
          h[i] = IF i = 1 THEN ss[i] ELSE g[i - 1] \o ss[i]
    BY Zenon
  <2>5. h = [i \in 1 .. m + 1 |-> h[i]]
    BY Zenon
  <2> HIDE DEF h
  <2>6. \A i \in 1 .. m : h[i] = g[i]
    BY <2>1, <2>3, <2>4
  <2>7. ASSUME NEW i \in 1 .. m + 1
        PROVE  h[i] = IF i = 1 THEN ss[i] ELSE h[i - 1] \o ss[i]
    <3>1. CASE i = 1
      BY <3>1, <2>4
    <3>2. CASE i # 1
      <4>1. h[i - 1] = g[i - 1]
        BY <2>1, <2>6, <3>2
      <4> QED
        BY <2>4, <3>2, <4>1
    <3> QED
      BY <3>1, <3>2
  <2>8. IsFlat(h, ss, m + 1)
    BY <2>5, <2>7, Zenon DEF IsFlat
  <2> QED
    BY <2>1, <2>8
<1> HIDE DEF P
<1>3. P = Nat
  <2>1. P \in SUBSET Nat
    BY DEF P
  <2> QED
    BY <1>1, <1>2, <2>1, SetInduction
<1> QED
  BY <1>3 DEF P

\* What is put together depends on the sequences put together only.
LEMMA FlatAgree ==
  ASSUME NEW ss, NEW tt, NEW n \in Nat, NEW m \in Nat, n <= m,
         \A i \in 1 .. n : ss[i] = tt[i],
         NEW g, IsFlat(g, ss, n), NEW h, IsFlat(h, tt, m)
  PROVE  \A i \in 1 .. n : g[i] = h[i]
<1> DEFINE P == {i \in Nat : i \in 1 .. n => g[i] = h[i]}
<1>1. 0 \in P
  OBVIOUS
<1>2. ASSUME NEW i \in P PROVE i + 1 \in P
  <2> SUFFICES ASSUME i + 1 \in 1 .. n PROVE g[i + 1] = h[i + 1]
    OBVIOUS
  <2>1. i \in Nat /\ i + 1 \in 1 .. m /\ (i + 1) - 1 = i
    OBVIOUS
  <2>2. g[i + 1] = IF i + 1 = 1 THEN ss[i + 1] ELSE g[i] \o ss[i + 1]
    BY <2>1, FlatValue
  <2>3. h[i + 1] = IF i + 1 = 1 THEN tt[i + 1] ELSE h[i] \o tt[i + 1]
    BY <2>1, FlatValue
  <2>4. i + 1 = 1 \/ g[i] = h[i]
    OBVIOUS
  <2>5. ss[i + 1] = tt[i + 1]
    OBVIOUS
  <2> HIDE DEF P
  <2> QED
    BY <2>2, <2>3, <2>4, <2>5
<1> HIDE DEF P
<1>3. P = Nat
  <2>1. P \in SUBSET Nat
    BY DEF P
  <2> QED
    BY <1>1, <1>2, <2>1, SetInduction
<1> QED
  BY <1>3 DEF P

\* Its values are sequences of the same elements.
LEMMA FlatType ==
  ASSUME NEW S, NEW ss \in Seq(Seq(S)), NEW g, IsFlat(g, ss, Len(ss))
  PROVE  \A i \in 1 .. Len(ss) : g[i] \in Seq(S)
<1> DEFINE P == {i \in Nat : i \in 1 .. Len(ss) => g[i] \in Seq(S)}
<1>0. Len(ss) \in Nat
  OBVIOUS
<1>1. 0 \in P
  OBVIOUS
<1>2. ASSUME NEW i \in P PROVE i + 1 \in P
  <2> SUFFICES ASSUME i + 1 \in 1 .. Len(ss) PROVE g[i + 1] \in Seq(S)
    OBVIOUS
  <2>1. i \in Nat /\ (i + 1) - 1 = i
    OBVIOUS
  <2>2. g[i + 1] = IF i + 1 = 1 THEN ss[i + 1] ELSE g[i] \o ss[i + 1]
    BY <1>0, <2>1, FlatValue
  <2>3. i + 1 = 1 \/ g[i] \in Seq(S)
    BY <1>0
  <2>4. ss[i + 1] \in Seq(S)
    BY ElementOfSeq
  <2> HIDE DEF P
  <2> QED
    BY <2>2, <2>3, <2>4, ConcatProperties
<1> HIDE DEF P
<1>3. P = Nat
  <2>1. P \in SUBSET Nat
    BY DEF P
  <2> QED
    BY <1>1, <1>2, <2>1, SetInduction
<1>4. ASSUME NEW i \in 1 .. Len(ss) PROVE g[i] \in Seq(S)
  <2>1. i \in P
    BY <1>0, <1>3
  <2> QED
    BY <2>1, Zenon DEF P
<1> QED
  BY <1>4

\* FlattenSeq is the last value of such a function.
LEMMA FlattenIsFlat ==
  ASSUME NEW ss, Len(ss) \in Nat \ {0}
  PROVE  \E g : IsFlat(g, ss, Len(ss)) /\ FlattenSeq(ss) = g[Len(ss)]
<1>1. \E g : g = [i \in 1 .. Len(ss) |->
                    IF i = 1 THEN ss[i] ELSE g[i - 1] \o ss[i]]
  <2>1. Len(ss) \in Nat
    OBVIOUS
  <2> QED
    BY <2>1, FlatExists, Zenon DEF IsFlat
<1> DEFINE h == CHOOSE g : g = [i \in 1 .. Len(ss) |->
                             IF i = 1 THEN ss[i] ELSE g[i - 1] \o ss[i]]
<1>2. h = [i \in 1 .. Len(ss) |-> IF i = 1 THEN ss[i] ELSE h[i - 1] \o ss[i]]
  BY <1>1, Zenon
<1>3. FlattenSeq(ss) = h[Len(ss)]
  BY DEF FlattenSeq
<1> QED
  BY <1>2, <1>3, Zenon DEF IsFlat

\* Nothing put together is nothing.
LEMMA FlattenNothing ==
  ASSUME NEW ss, Len(ss) = 0
  PROVE  FlattenSeq(ss) = ss
BY DEF FlattenSeq

\* Sequences put together are a sequence.
LEMMA FlattenType ==
  ASSUME NEW S, NEW ss \in Seq(Seq(S))
  PROVE  FlattenSeq(ss) \in Seq(S)
<1>0. Len(ss) \in Nat
  OBVIOUS
<1>1. CASE Len(ss) = 0
  <2>1. ss = <<>>
    BY <1>1, EmptySeq
  <2> QED
    BY <1>1, <2>1, FlattenNothing, EmptySeq
<1>2. CASE Len(ss) # 0
  <2>1. PICK g : IsFlat(g, ss, Len(ss)) /\ FlattenSeq(ss) = g[Len(ss)]
    BY <1>0, <1>2, FlattenIsFlat
  <2>2. Len(ss) \in 1 .. Len(ss)
    BY <1>0, <1>2
  <2> QED
    BY <2>1, <2>2, FlatType
<1> QED
  BY <1>1, <1>2

\* One sequence more is put behind the others.
LEMMA FlattenAppend ==
  ASSUME NEW S, NEW ss \in Seq(Seq(S)), NEW s \in Seq(S)
  PROVE  FlattenSeq(Append(ss, s)) = FlattenSeq(ss) \o s
<1> DEFINE tt == Append(ss, s)
           n == Len(ss)
<1>1. /\ n \in Nat /\ Len(tt) = n + 1 /\ tt[n + 1] = s
      /\ \A i \in 1 .. n : ss[i] = tt[i]
  BY AppendProperties
<1> HIDE DEF tt, n
<1>2. PICK h : IsFlat(h, tt, n + 1) /\ FlattenSeq(tt) = h[n + 1]
  BY <1>1, FlattenIsFlat
<1>3. h[n + 1] = IF n + 1 = 1 THEN tt[n + 1] ELSE h[n] \o tt[n + 1]
  <2>1. n + 1 \in Nat /\ n + 1 \in 1 .. n + 1 /\ (n + 1) - 1 = n
    BY <1>1
  <2> QED
    BY <1>2, <2>1, FlatValue
<1>4. CASE n = 0
  <2>1. FlattenSeq(ss) = <<>>
    BY <1>4, FlattenNothing DEF n
  <2>2. FlattenSeq(tt) = s
    BY <1>1, <1>2, <1>3, <1>4
  <2> QED
    BY <2>1, <2>2, ConcatEmptySeq DEF tt
<1>5. CASE n # 0
  <2>1. PICK g : IsFlat(g, ss, n) /\ FlattenSeq(ss) = g[n]
    BY <1>1, <1>5, FlattenIsFlat DEF n
  <2>2. n + 1 \in Nat /\ n <= n + 1 /\ n \in 1 .. n
    BY <1>1, <1>5
  <2>3. \A i \in 1 .. n : g[i] = h[i]
    <3> DEFINE m == n + 1
    <3>1. n \in Nat /\ m \in Nat /\ n <= m
      BY <2>2
    <3>2. \A i \in 1 .. n : ss[i] = tt[i]
      BY <1>1
    <3>3. IsFlat(g, ss, n) /\ IsFlat(h, tt, m)
      BY <1>2, <2>1
    <3> HIDE DEF m
    <3> QED
      BY <3>1, <3>2, <3>3, FlatAgree
  <2>4. h[n + 1] = h[n] \o s
    BY <1>1, <1>3, <1>5
  <2> QED
    BY <1>2, <2>1, <2>2, <2>3, <2>4 DEF tt
<1> QED
  BY <1>4, <1>5

-----------------------------------------------------------------------------
(* What was sent *)

Bytes == 0 .. ETX

\* Two ways to put a sequence together from the same pieces.
LEMMA Regroup ==
  \A a, b, c \in Seq(Bytes) : (a \o b) \o c = a \o (b \o c)
<1>1. ASSUME NEW a \in Seq(Bytes), NEW b \in Seq(Bytes), NEW c \in Seq(Bytes)
      PROVE  (a \o b) \o c = a \o (b \o c)
  BY ConcatAssociative
<1> QED
  BY <1>1

\* The number and the sizes of the frames.
LEMMA SizeProperties ==
  /\ Len(Size) \in Nat /\ ETX \in Nat /\ ETX = Len(Size) + 1
  /\ Frames = 1 .. Len(Size)
  /\ \A f \in Frames : Size[f] \in Nat \ {0}
BY SerialConstants, LenProperties, ElementOfSeq DEF ETX, Frames

\* A frame is a start mark, bytes that are no marks, and an end mark.
LEMMA FrameProperties ==
  ASSUME NEW f \in Frames
  PROVE  /\ Payload(f) \in Seq(Bytes)
         /\ Frame(Payload(f)) \in Seq(Bytes)
         /\ Len(Frame(Payload(f))) = Size[f] + 2
         /\ Frame(Payload(f))[1] = STX
         /\ Frame(Payload(f))[Size[f] + 2] = ETX
         /\ \A i \in 2 .. Size[f] + 1 : Frame(Payload(f))[i] = f
         /\ SubSeq(Frame(Payload(f)), 2, Size[f] + 1) = Payload(f)
<1> DEFINE p == Payload(f)
           n == Size[f]
           a == <<STX>> \o p
           b == a \o <<ETX>>
<1>1. n \in Nat \ {0} /\ f \in Bytes /\ STX \in Bytes /\ ETX \in Bytes
  BY SizeProperties DEF Bytes, STX
<1>2. p \in Seq(Bytes) /\ Len(p) = n /\ \A i \in 1 .. n : p[i] = f
  BY <1>1 DEF Payload
<1>3. <<STX>> \in Seq(Bytes) /\ <<ETX>> \in Seq(Bytes)
  BY <1>1
<1>4. /\ a \in Seq(Bytes) /\ Len(a) = n + 1 /\ a[1] = STX
      /\ \A i \in 2 .. n + 1 : a[i] = f /\ a[i] = p[i - 1]
  <2> HIDE DEF p, n
  <2> QED
    BY <1>1, <1>2, <1>3
<1>5. /\ b \in Seq(Bytes) /\ Len(b) = n + 2 /\ b[n + 2] = ETX
      /\ \A i \in 1 .. n + 1 : b[i] = a[i]
  <2> HIDE DEF a, n
  <2> QED
    BY <1>1, <1>3, <1>4
<1>6. b = Frame(p)
  BY DEF Frame
<1> HIDE DEF a, b, p, n
<1>7. SubSeq(b, 2, n + 1) = p
  <2>1. \A i \in 2 .. n + 1 : b[i] \in Bytes
    BY <1>1, <1>5, ElementOfSeq
  <2>2. /\ SubSeq(b, 2, n + 1) \in Seq(Bytes)
        /\ Len(SubSeq(b, 2, n + 1)) = n
        /\ \A i \in 1 .. n : SubSeq(b, 2, n + 1)[i] = b[i + 1]
    BY <1>1, <2>1, SubSeqProperties
  <2>3. \A i \in 1 .. n : b[i + 1] = p[i]
    BY <1>1, <1>2, <1>4, <1>5
  <2> QED
    BY <1>2, <2>2, <2>3, SeqEqual
<1>8. b[1] = STX /\ \A i \in 2 .. n + 1 : b[i] = f
  BY <1>1, <1>4, <1>5
<1>9. /\ p \in Seq(Bytes) /\ b \in Seq(Bytes) /\ Len(b) = n + 2
      /\ b[1] = STX /\ b[n + 2] = ETX
      /\ \A i \in 2 .. n + 1 : b[i] = f
      /\ SubSeq(b, 2, n + 1) = p
  BY <1>2, <1>5, <1>7, <1>8
<1>10. b = Frame(Payload(f)) /\ p = Payload(f) /\ n = Size[f]
  BY <1>6 DEF p, n
<1> QED
  BY <1>9, <1>10

\* The first k frames, one after the other.
FramesUpTo(k) == [f \in 1 .. k |-> Frame(Payload(f))]
Before(k) == FlattenSeq(FramesUpTo(k))

\* The stream is all the frames.
LEMMA StreamIsAllFrames ==
  Stream = Before(Len(Size))
<1>1. [f \in Frames |-> Frame(Payload(f))] = FramesUpTo(Len(Size))
  BY SizeProperties DEF FramesUpTo
<1> QED
  BY <1>1 DEF Stream, Before

\* The first k frames are bytes.
LEMMA BeforeType ==
  ASSUME NEW k \in 0 .. Len(Size)
  PROVE  /\ FramesUpTo(k) \in Seq(Seq(Bytes)) /\ Len(FramesUpTo(k)) = k
         /\ Before(k) \in Seq(Bytes)
<1>1. k \in Nat /\ \A f \in 1 .. k : Frame(Payload(f)) \in Seq(Bytes)
  BY SizeProperties, FrameProperties
<1>2. FramesUpTo(k) \in Seq(Seq(Bytes)) /\ Len(FramesUpTo(k)) = k
  BY <1>1 DEF FramesUpTo
<1> QED
  BY <1>2, FlattenType DEF Before

\* Nothing is before the first frame.
LEMMA BeforeFirst == Before(0) = <<>>
<1>1. Len(FramesUpTo(0)) = 0 /\ FramesUpTo(0) \in Seq(Seq(Bytes))
  BY BeforeType, SizeProperties
<1> QED
  BY <1>1, FlattenNothing, EmptySeq DEF Before

\* One frame more.
LEMMA BeforeNext ==
  ASSUME NEW k \in 0 .. Len(Size), k < Len(Size)
  PROVE  Before(k + 1) = Before(k) \o Frame(Payload(k + 1))
<1>1. k \in Nat /\ k + 1 \in Frames /\ k + 1 \in 0 .. Len(Size)
  BY SizeProperties
<1>2. Frame(Payload(k + 1)) \in Seq(Bytes)
  BY <1>1, FrameProperties
<1>3. Append(FramesUpTo(k), Frame(Payload(k + 1))) = FramesUpTo(k + 1)
  <2> DEFINE a == Append(FramesUpTo(k), Frame(Payload(k + 1)))
             u == FramesUpTo(k + 1)
  <2>1. /\ a \in Seq(Seq(Bytes)) /\ Len(a) = k + 1
        /\ \A i \in 1 .. k : a[i] = FramesUpTo(k)[i]
        /\ a[k + 1] = Frame(Payload(k + 1))
    BY <1>1, <1>2, BeforeType, AppendProperties
  <2>2. u \in Seq(Seq(Bytes)) /\ Len(u) = k + 1
    BY <1>1, BeforeType
  <2>3. \A i \in 1 .. k + 1 : u[i] = Frame(Payload(i))
    BY DEF FramesUpTo
  <2>4. \A i \in 1 .. k : FramesUpTo(k)[i] = Frame(Payload(i))
    BY DEF FramesUpTo
  <2> HIDE DEF a, u
  <2>5. ASSUME NEW i \in 1 .. k + 1 PROVE a[i] = u[i]
    <3>1. CASE i = k + 1
      BY <2>1, <2>3, <3>1
    <3>2. CASE i # k + 1
      <4>1. i \in 1 .. k
        BY <1>1, <3>2
      <4> QED
        BY <2>1, <2>3, <2>4, <4>1
    <3> QED
      BY <3>1, <3>2
  <2>6. a = u
    BY <2>1, <2>2, <2>5, SeqEqual
  <2> QED
    BY <2>6 DEF a, u
<1> QED
  BY <1>2, <1>3, BeforeType, FlattenAppend DEF Before

\* Behind the first k frames comes the rest of the stream.
LEMMA RestOfStream ==
  ASSUME NEW k \in 0 .. Len(Size)
  PROVE  \E r \in Seq(Bytes) : Stream = Before(k) \o r
<1> DEFINE P == {j \in Nat : k + j <= Len(Size) =>
                   \E r \in Seq(Bytes) : Before(k + j) = Before(k) \o r}
<1>0. k \in Nat /\ Len(Size) \in Nat
  BY SizeProperties
<1>1. 0 \in P
  <2>1. Before(k + 0) = Before(k) \o <<>>
    BY <1>0, BeforeType, ConcatEmptySeq
  <2> QED
    BY <2>1, EmptySeq
<1>2. ASSUME NEW j \in P PROVE j + 1 \in P
  <2> SUFFICES ASSUME k + (j + 1) <= Len(Size)
               PROVE  \E r \in Seq(Bytes) :
                        Before(k + (j + 1)) = Before(k) \o r
    OBVIOUS
  <2>1. /\ j \in Nat /\ k + (j + 1) = (k + j) + 1 /\ k + j \in 0 .. Len(Size)
        /\ k + j < Len(Size) /\ (k + j) + 1 \in Frames
    BY <1>0, SizeProperties
  <2>2. PICK r \in Seq(Bytes) : Before(k + j) = Before(k) \o r
    BY <1>0, <2>1
  <2> DEFINE f == Frame(Payload((k + j) + 1))
  <2>3. f \in Seq(Bytes)
    BY <2>1, FrameProperties
  <2>4. Before((k + j) + 1) = (Before(k) \o r) \o f
    BY <2>1, <2>2, BeforeNext
  <2> HIDE DEF f, P
  <2>5. Before(k) \in Seq(Bytes)
    BY BeforeType
  <2>6. (Before(k) \o r) \o f = Before(k) \o (r \o f)
    BY <2>3, <2>5, ConcatAssociative
  <2>7. r \o f \in Seq(Bytes)
    BY <2>3
  <2> QED
    BY <2>1, <2>4, <2>6, <2>7
<1> HIDE DEF P
<1>3. P = Nat
  <2>1. P \in SUBSET Nat
    BY DEF P
  <2> QED
    BY <1>1, <1>2, <2>1, SetInduction
<1>4. Len(Size) - k \in P /\ k + (Len(Size) - k) = Len(Size)
  BY <1>0, <1>3
<1>5. k + (Len(Size) - k) <= Len(Size)
  BY <1>0
<1>6. \E r \in Seq(Bytes) : Before(k + (Len(Size) - k)) = Before(k) \o r
  BY <1>4, <1>5, Zenon DEF P
<1> QED
  BY <1>4, <1>6, StreamIsAllFrames

\* And it begins with the next frame, if there is one.
LEMMA NextFrameOfStream ==
  ASSUME NEW k \in 0 .. Len(Size), k < Len(Size)
  PROVE  \E r \in Seq(Bytes) :
           Stream = Before(k) \o (Frame(Payload(k + 1)) \o r)
<1>1. k + 1 \in 0 .. Len(Size) /\ k + 1 \in Frames
  BY SizeProperties
<1>2. PICK r \in Seq(Bytes) : Stream = Before(k + 1) \o r
  BY <1>1, RestOfStream
<1>3. Stream = (Before(k) \o Frame(Payload(k + 1))) \o r
  BY <1>2, BeforeNext
<1> DEFINE b == Before(k)
           f == Frame(Payload(k + 1))
<1>4. b \in Seq(Bytes) /\ f \in Seq(Bytes) /\ r \in Seq(Bytes)
  BY <1>1, BeforeType, FrameProperties
<1> HIDE DEF b, f
<1>5. (b \o f) \o r = b \o (f \o r)
  BY <1>4, Regroup
<1> QED
  BY <1>3, <1>5 DEF b, f

\* The stream is a sequence of bytes.
LEMMA StreamType == Stream \in Seq(Bytes)
BY StreamIsAllFrames, BeforeType, SizeProperties

\* Every byte of the stream belongs to a frame.
NumbersUpTo(k) == [f \in 1 .. k |-> [i \in 1 .. Size[f] + 2 |-> f]]

\* FrameAt gives every byte of the stream the number of its frame.
LEMMA FrameAtType ==
  FrameAt \in Seq(Frames) /\ Len(FrameAt) = Len(Stream)
<1> DEFINE n(f) == [i \in 1 .. Size[f] + 2 |-> f]
           At(k) == FlattenSeq(NumbersUpTo(k))
           P == {k \in Nat : k <= Len(Size) => Len(At(k)) = Len(Before(k))}
<1>0. Len(Size) \in Nat /\ Frames = 1 .. Len(Size)
  BY SizeProperties
<1>1. \A f \in Frames : n(f) \in Seq(Frames) /\ Len(n(f)) = Size[f] + 2
  <2> SUFFICES ASSUME NEW f \in Frames
               PROVE  n(f) \in Seq(Frames) /\ Len(n(f)) = Size[f] + 2
    OBVIOUS
  <2>1. Size[f] + 2 \in Nat
    BY SizeProperties
  <2> QED
    BY <2>1
<1>2. ASSUME NEW k \in 0 .. Len(Size)
      PROVE  /\ NumbersUpTo(k) \in Seq(Seq(Frames))
             /\ Len(NumbersUpTo(k)) = k /\ At(k) \in Seq(Frames)
             /\ \A f \in 1 .. k : NumbersUpTo(k)[f] = n(f)
  <2>1. \A f \in 1 .. k : NumbersUpTo(k)[f] = n(f)
    BY DEF NumbersUpTo
  <2>2. k \in Nat /\ \A f \in 1 .. k : n(f) \in Seq(Frames)
    BY <1>0, <1>1
  <2>3. NumbersUpTo(k) = [f \in 1 .. k |-> n(f)]
    BY DEF NumbersUpTo
  <2> HIDE DEF n
  <2>4. NumbersUpTo(k) \in Seq(Seq(Frames)) /\ Len(NumbersUpTo(k)) = k
    BY <2>2, <2>3
  <2> QED
    BY <2>1, <2>4, FlattenType
<1>3. 0 \in P
  <2>1. Len(NumbersUpTo(0)) = 0 /\ NumbersUpTo(0) \in Seq(Seq(Frames))
    BY <1>0, <1>2
  <2>2. At(0) = <<>>
    BY <2>1, FlattenNothing, EmptySeq
  <2> QED
    BY <2>2, BeforeFirst
<1>4. ASSUME NEW k \in P PROVE k + 1 \in P
  <2> SUFFICES ASSUME k + 1 <= Len(Size)
               PROVE  Len(At(k + 1)) = Len(Before(k + 1))
    OBVIOUS
  <2>1. /\ k \in Nat /\ k \in 0 .. Len(Size) /\ k < Len(Size)
        /\ k + 1 \in Frames /\ k + 1 \in 0 .. Len(Size)
    BY <1>0
  <2>2. Len(At(k)) = Len(Before(k))
    BY <2>1
  <2> HIDE DEF n, P
  <2>3. NumbersUpTo(k + 1) = Append(NumbersUpTo(k), n(k + 1))
    <3> DEFINE a == Append(NumbersUpTo(k), n(k + 1))
               u == NumbersUpTo(k + 1)
    <3>0. /\ NumbersUpTo(k) \in Seq(Seq(Frames)) /\ Len(NumbersUpTo(k)) = k
          /\ \A f \in 1 .. k : NumbersUpTo(k)[f] = n(f)
          /\ n(k + 1) \in Seq(Frames)
      BY <1>1, <1>2, <2>1
    <3>1. /\ a \in Seq(Seq(Frames)) /\ Len(a) = k + 1 /\ a[k + 1] = n(k + 1)
          /\ \A f \in 1 .. k : a[f] = n(f)
      BY <3>0, AppendProperties
    <3>2. /\ u \in Seq(Seq(Frames)) /\ Len(u) = k + 1
          /\ \A f \in 1 .. k + 1 : u[f] = n(f)
      BY <1>2, <2>1
    <3> HIDE DEF a, u
    <3>3. \A f \in 1 .. k + 1 : a[f] = u[f]
      BY <2>1, <3>1, <3>2
    <3>4. a = u
      BY <3>1, <3>2, <3>3, SeqEqual
    <3> QED
      BY <3>4 DEF a, u
  <2>4. At(k + 1) = At(k) \o n(k + 1)
    BY <1>1, <1>2, <2>1, <2>3, FlattenAppend
  <2>5. At(k) \in Seq(Frames) /\ n(k + 1) \in Seq(Frames)
    BY <1>1, <1>2, <2>1
  <2> HIDE DEF At
  <2>6. Len(At(k + 1)) = Len(At(k)) + (Size[k + 1] + 2)
    <3>1. Len(At(k) \o n(k + 1)) = Len(At(k)) + Len(n(k + 1))
      BY <2>5, ConcatProperties
    <3> QED
      BY <1>1, <2>1, <2>4, <3>1
  <2>7. Len(Before(k + 1)) = Len(Before(k)) + (Size[k + 1] + 2)
    <3> DEFINE b == Before(k)
               f == Frame(Payload(k + 1))
    <3>1. b \in Seq(Bytes) /\ f \in Seq(Bytes) /\ Len(f) = Size[k + 1] + 2
      BY <2>1, BeforeType, FrameProperties
    <3>2. Before(k + 1) = b \o f
      BY <2>1, BeforeNext
    <3> HIDE DEF b, f
    <3>3. Len(b \o f) = Len(b) + Len(f)
      BY <3>1
    <3> QED
      BY <3>1, <3>2, <3>3 DEF b
  <2> QED
    BY <2>2, <2>6, <2>7
<1>5. Len(Size) \in P
  <2>1. P \in SUBSET Nat
    BY DEF P
  <2> HIDE DEF P
  <2>2. P = Nat
    BY <1>3, <1>4, <2>1, SetInduction
  <2> QED
    BY <1>0, <2>2
<1>6. FrameAt = At(Len(Size))
  BY <1>0 DEF FrameAt, NumbersUpTo
<1> QED
  <2>1. Len(At(Len(Size))) = Len(Before(Len(Size)))
    BY <1>0, <1>5
  <2>2. At(Len(Size)) \in Seq(Frames)
    BY <1>0, <1>2
  <2> HIDE DEF At
  <2> QED
    BY <1>6, <2>1, <2>2, StreamIsAllFrames

-----------------------------------------------------------------------------
(* The queue of transfers, and the types *)

Other == 3 - polled
InQueue(t) == \E i \in 1 .. Len(queued) : queued[i] = t

\* A transfer is either queued, or full, or in the hands of the polling task,
\* or never queued again.  The one the task waits for is the first in the queue.
TransferInv ==
  /\ readBuffer \in [Transfers -> Seq(Bytes)]
  /\ Len(line) <= Len(Stream)
  /\ \A t \in Transfers :
       /\ uartSemaphore[t] = 0 => readBuffer[t] = <<>>
       /\ uartSemaphore[t] = 1 => ~InQueue(t)
  /\ requeueing => uartSemaphore[polled] = 0 /\ ~InQueue(polled)
  /\ InQueue(polled) => Head(queued) = polled /\ uartSemaphore[Other] = 0

TypeInv == TypeOK /\ TransferInv

\* The invariant holds when both transfers have been queued.
LEMMA TypeInvInit ==
  ASSUME Init
  PROVE  TypeInv
<1> USE DEF Init
<1>1. <<>> \in Seq(Bytes) /\ MaxLosses \in Nat /\ Bytes = 0 .. ETX
  BY SerialConstants DEF Bytes
<1>2. queued \in Seq(Transfers) /\ IsInjective(queued) /\ Len(queued) = 2
  BY DEF Transfers, IsInjective
<1>3. TypeOK
  <2>1. \A bytes \in {line, ring, readBuffer[1], readBuffer[2]} :
          bytes \in Seq(0 .. ETX)
    BY <1>1, StreamType DEF Transfers
  <2>2. /\ uartSemaphore \in [Transfers -> {0, 1}]
        /\ transferStatus \in [Transfers -> {"done", "error"}]
        /\ polled \in Transfers /\ requeueing \in BOOLEAN
    BY DEF Transfers
  <2>3. currentBytesRead \in 0 .. Len(ring)
    BY EmptySeq
  <2>4. delivered \in Seq(Seq(0 .. ETX))
    BY EmptySeq
  <2>5. losses \in 0 .. MaxLosses
    BY <1>1
  <2>6. lost \subseteq Frames /\ silent \in BOOLEAN
    BY Zenon
  <2> QED
    BY <1>2, <2>1, <2>2, <2>3, <2>4, <2>5, <2>6 DEF TypeOK
<1>4. TransferInv
  <2>1. Len(Stream) \in Nat
    BY StreamType, LenProperties
  <2>2. readBuffer \in [Transfers -> Seq(Bytes)]
    BY <1>1
  <2>3. Head(queued) = polled /\ uartSemaphore[Other] = 0
    BY DEF Transfers, Other
  <2> QED
    BY <2>1, <2>2, <2>3 DEF TransferInv
<1> QED
  BY <1>3, <1>4 DEF TypeInv

\* The next n bytes belong to frames, so that bytes are lost from some frame.
LEMMA NextBytesHaveFrames ==
  ASSUME line \in Seq(Bytes), Len(line) <= Len(Stream), NEW n \in 1 .. Len(line)
  PROVE  FramesOfNext(n) \subseteq Frames /\ FramesOfNext(n) # {}
<1>1. /\ Len(line) \in Nat /\ Len(Stream) \in Nat /\ Come \in Nat
      /\ Come + Len(line) = Len(Stream)
  BY StreamType, LenProperties DEF Come
<1>2. \A i \in Come + 1 .. Come + n : i \in 1 .. Len(FrameAt)
  BY <1>1, FrameAtType
<1>3. \A i \in Come + 1 .. Come + n : FrameAt[i] \in Frames
  BY <1>2, FrameAtType, ElementOfSeq
<1>4. Come + 1 \in Come + 1 .. Come + n
  BY <1>1
<1> QED
  BY <1>3, <1>4 DEF FramesOfNext

\* The bytes of a chunk and those still to come.
LEMMA SplitAt ==
  ASSUME NEW S, NEW s \in Seq(S), NEW n \in 0 .. Len(s)
  PROVE  /\ SubSeq(s, 1, n) \in Seq(S) /\ Len(SubSeq(s, 1, n)) = n
         /\ SubSeq(s, n + 1, Len(s)) \in Seq(S)
         /\ Len(SubSeq(s, n + 1, Len(s))) = Len(s) - n
         /\ SubSeq(s, 1, n) \o SubSeq(s, n + 1, Len(s)) = s
<1>1. Len(s) \in Nat /\ n \in Nat /\ 1 \in 1 .. Len(s) + 1
  BY LenProperties
<1>2. \A i \in 1 .. Len(s) : s[i] \in S
  BY ElementOfSeq
<1>3. /\ \A i \in 1 .. n : s[i] \in S
      /\ \A i \in n + 1 .. Len(s) : s[i] \in S
  BY <1>1, <1>2
<1>4. /\ SubSeq(s, 1, n) \in Seq(S) /\ Len(SubSeq(s, 1, n)) = n
  BY <1>1, <1>3, SubSeqProperties
<1>5. /\ SubSeq(s, n + 1, Len(s)) \in Seq(S)
      /\ Len(SubSeq(s, n + 1, Len(s))) = Len(s) - n
  BY <1>1, <1>3, SubSeqProperties
<1>6. SubSeq(s, 1, n) \o SubSeq(s, n + 1, Len(s)) = SubSeq(s, 1, Len(s))
  <2>1. n \in (1 - 1) .. Len(s) /\ Len(s) \in n .. Len(s)
    BY <1>1
  <2> QED
    BY <1>1, <2>1, ConcatAdjacentSubSeq
<1> QED
  BY <1>4, <1>5, <1>6, SubSeqFull

\* What is left in the queue when its first transfer has ended.
LEMMA TailOfQueue ==
  ASSUME queued \in Seq(Transfers), IsInjective(queued), queued # <<>>
  PROVE  /\ Head(queued) \in Transfers /\ InQueue(Head(queued))
         /\ Tail(queued) \in Seq(Transfers) /\ IsInjective(Tail(queued))
         /\ \A t : (\E i \in 1 .. Len(Tail(queued)) : Tail(queued)[i] = t)
                     => InQueue(t) /\ t # Head(queued)
<1>1. /\ Head(queued) \in Transfers /\ Tail(queued) \in Seq(Transfers)
      /\ Len(Tail(queued)) = Len(queued) - 1
      /\ \A i \in 1 .. Len(Tail(queued)) : Tail(queued)[i] = queued[i + 1]
      /\ Len(queued) \in Nat \ {0}
      /\ DOMAIN queued = 1 .. Len(queued)
      /\ DOMAIN Tail(queued) = 1 .. Len(Tail(queued))
      /\ Head(queued) = queued[1]
  BY HeadTailProperties, EmptySeq, LenProperties
<1>2. \A i, j \in 1 .. Len(queued) : queued[i] = queued[j] => i = j
  BY <1>1 DEF IsInjective
<1>3. InQueue(Head(queued))
  BY <1>1 DEF InQueue
<1>4. IsInjective(Tail(queued))
  <2>1. ASSUME NEW i \in 1 .. Len(Tail(queued)),
               NEW j \in 1 .. Len(Tail(queued)),
               Tail(queued)[i] = Tail(queued)[j]
        PROVE  i = j
    <3>1. i + 1 \in 1 .. Len(queued) /\ j + 1 \in 1 .. Len(queued)
      BY <1>1
    <3>2. queued[i + 1] = queued[j + 1]
      BY <1>1, <2>1
    <3> QED
      BY <1>2, <3>1, <3>2
  <2> QED
    BY <1>1, <2>1 DEF IsInjective
<1>5. ASSUME NEW i \in 1 .. Len(Tail(queued))
      PROVE  InQueue(Tail(queued)[i]) /\ Tail(queued)[i] # Head(queued)
  <2>1. i + 1 \in 1 .. Len(queued) /\ 1 \in 1 .. Len(queued) /\ i + 1 # 1
    BY <1>1
  <2> QED
    BY <1>1, <1>2, <2>1 DEF InQueue
<1> QED
  BY <1>1, <1>3, <1>4, <1>5

\* What a transfer that has ended changes.
LEMMA TransferEffect ==
  ASSUME TypeInv, CompleteTransfer
  PROVE  \E n \in Nat \ {0}, t \in Transfers, status \in {"done", "error"} :
           /\ t = Head(queued) /\ InQueue(t) /\ n \in 1 .. Len(line)
           /\ line' \in Seq(Bytes) /\ Len(line') <= Len(Stream)
           /\ SubSeq(line, 1, n) \in Seq(Bytes)
           /\ SubSeq(line, 1, n) \o line' = line
           /\ readBuffer' = [readBuffer EXCEPT ![t] = SubSeq(line, 1, n)]
           /\ transferStatus' = [transferStatus EXCEPT ![t] = status]
           /\ uartSemaphore' = [uartSemaphore EXCEPT ![t] = 1]
           /\ IF status = "error"
              THEN losses' = losses + 1 /\ lost' = lost \cup FramesOfNext(n)
              ELSE UNCHANGED <<losses, lost>>
           /\ FramesOfNext(n) \subseteq Frames /\ FramesOfNext(n) # {}
<1>1. /\ line \in Seq(Bytes) /\ queued \in Seq(Transfers)
      /\ IsInjective(queued) /\ Len(line) <= Len(Stream) /\ Len(Stream) \in Nat
  BY StreamType DEF TypeInv, TypeOK, TransferInv, Bytes
<1>2. queued # <<>>
  BY DEF CompleteTransfer
<1>3. PICK n \in 1 .. ChunkSize, status \in {"done", "error"} :
        /\ n <= Len(line)
        /\ line' = SubSeq(line, n + 1, Len(line))
        /\ readBuffer' = [readBuffer EXCEPT ![Head(queued)] = SubSeq(line, 1, n)]
        /\ transferStatus' = [transferStatus EXCEPT ![Head(queued)] = status]
        /\ uartSemaphore' = [uartSemaphore EXCEPT ![Head(queued)] = 1]
        /\ IF status = "error"
           THEN losses' = losses + 1 /\ lost' = lost \cup FramesOfNext(n)
           ELSE UNCHANGED <<losses, lost>>
  BY Zenon DEF CompleteTransfer
<1>4. n \in Nat \ {0} /\ n \in 1 .. Len(line) /\ Len(line) \in Nat
  BY <1>1, <1>3, SerialConstants, LenProperties
<1>5. /\ SubSeq(line, 1, n) \in Seq(Bytes) /\ line' \in Seq(Bytes)
      /\ Len(line') = Len(line) - n /\ SubSeq(line, 1, n) \o line' = line
  <2>1. n \in 0 .. Len(line)
    BY <1>4
  <2> QED
    BY <1>1, <1>3, <2>1, SplitAt
<1>6. Head(queued) \in Transfers /\ InQueue(Head(queued))
  BY <1>1, <1>2, TailOfQueue
<1>7. FramesOfNext(n) \subseteq Frames /\ FramesOfNext(n) # {}
  BY <1>1, <1>4, NextBytesHaveFrames
<1>8. Len(line') <= Len(Stream)
  BY <1>1, <1>4, <1>5
<1> QED
  BY <1>3, <1>4, <1>5, <1>6, <1>7, <1>8, Zenon

\* The types, with the read buffers as one function.
LEMMA TypeInvFacts ==
  ASSUME TypeInv
  PROVE  /\ line \in Seq(Bytes) /\ ring \in Seq(Bytes)
         /\ readBuffer \in [Transfers -> Seq(Bytes)]
         /\ queued \in Seq(Transfers) /\ IsInjective(queued)
         /\ uartSemaphore \in [Transfers -> {0, 1}]
         /\ transferStatus \in [Transfers -> {"done", "error"}]
         /\ polled \in Transfers /\ requeueing \in BOOLEAN
         /\ Other \in Transfers /\ Other # polled
         /\ \A t \in Transfers : t # polled => t = Other
         /\ currentBytesRead \in 0 .. Len(ring)
         /\ delivered \in Seq(Seq(Bytes))
         /\ lost \subseteq Frames /\ losses \in 0 .. MaxLosses
         /\ silent \in BOOLEAN
<1>1. polled \in {1, 2}
  BY DEF TypeInv, TypeOK, Transfers
<1>2. /\ Other \in Transfers /\ Other # polled
      /\ \A t \in Transfers : t # polled => t = Other
  BY <1>1 DEF Other, Transfers
<1>3. line \in Seq(Bytes) /\ ring \in Seq(Bytes) /\ delivered \in Seq(Seq(Bytes))
  BY DEF TypeInv, TypeOK, Bytes
<1> QED
  BY <1>2, <1>3 DEF TypeInv, TypeOK, TransferInv

\* The same facts make up the type invariant after a step.
LEMMA TypeInvFromFacts ==
  ASSUME line' \in Seq(Bytes), ring' \in Seq(Bytes),
         readBuffer' \in [Transfers -> Seq(Bytes)],
         queued' \in Seq(Transfers), IsInjective(queued'),
         uartSemaphore' \in [Transfers -> {0, 1}],
         transferStatus' \in [Transfers -> {"done", "error"}],
         polled' \in Transfers, requeueing' \in BOOLEAN,
         currentBytesRead' \in 0 .. Len(ring'),
         delivered' \in Seq(Seq(Bytes)),
         lost' \subseteq Frames, losses' \in 0 .. MaxLosses,
         silent' \in BOOLEAN
  PROVE  TypeOK'
<1>1. readBuffer'[1] \in Seq(Bytes) /\ readBuffer'[2] \in Seq(Bytes)
  BY DEF Transfers
<1>2. \A bytes \in {line', ring', readBuffer'[1], readBuffer'[2]} :
        bytes \in Seq(0 .. ETX)
  BY <1>1 DEF Bytes
<1> QED
  BY <1>2 DEF TypeOK, Bytes

\* A transfer that ends.
LEMMA CompleteTransferKeepsTypes ==
  ASSUME TypeInv, CompleteTransfer
  PROVE  TypeInv'
<1>0. TypeInv
  OBVIOUS
<1>1. PICK n \in Nat \ {0}, t \in Transfers, status \in {"done", "error"} :
        /\ t = Head(queued) /\ InQueue(t) /\ n \in 1 .. Len(line)
        /\ line' \in Seq(Bytes) /\ Len(line') <= Len(Stream)
        /\ SubSeq(line, 1, n) \in Seq(Bytes)
        /\ readBuffer' = [readBuffer EXCEPT ![t] = SubSeq(line, 1, n)]
        /\ transferStatus' = [transferStatus EXCEPT ![t] = status]
        /\ uartSemaphore' = [uartSemaphore EXCEPT ![t] = 1]
        /\ IF status = "error"
           THEN losses' = losses + 1 /\ lost' = lost \cup FramesOfNext(n)
           ELSE UNCHANGED <<losses, lost>>
        /\ FramesOfNext(n) \subseteq Frames
  BY TransferEffect
<1>2. /\ queued' = Tail(queued) /\ queued # <<>> /\ losses' <= MaxLosses
      /\ UNCHANGED <<polled, requeueing, ring, currentBytesRead, delivered,
                     silent>>
  BY DEF CompleteTransfer, bridgeVars
<1>3. /\ queued' \in Seq(Transfers) /\ IsInjective(queued')
      /\ \A u : InQueue(u)' => InQueue(u) /\ u # t
  BY <1>0, <1>1, <1>2, TypeInvFacts, TailOfQueue DEF InQueue
<1>4. TypeOK'
  <2>1. /\ readBuffer' \in [Transfers -> Seq(Bytes)]
        /\ transferStatus' \in [Transfers -> {"done", "error"}]
        /\ uartSemaphore' \in [Transfers -> {0, 1}]
    BY <1>0, <1>1, TypeInvFacts
  <2>2. losses' \in 0 .. MaxLosses /\ lost' \subseteq Frames
    <3>1. losses \in 0 .. MaxLosses /\ lost \subseteq Frames /\ MaxLosses \in Nat
      BY <1>0, TypeInvFacts, SerialConstants
    <3>2. \/ losses' = losses + 1 /\ lost' = lost \cup FramesOfNext(n)
          \/ losses' = losses /\ lost' = lost
      BY <1>1
    <3>3. losses' <= MaxLosses /\ FramesOfNext(n) \subseteq Frames
      BY <1>1, <1>2
    <3> QED
      BY <3>1, <3>2, <3>3
  <2>3. /\ ring' \in Seq(Bytes) /\ polled' \in Transfers
        /\ requeueing' \in BOOLEAN /\ currentBytesRead' \in 0 .. Len(ring')
        /\ delivered' \in Seq(Seq(Bytes)) /\ silent' \in BOOLEAN
    BY <1>0, <1>2, TypeInvFacts
  <2> QED
    BY <1>1, <1>3, <2>1, <2>2, <2>3, TypeInvFromFacts
<1>5. TransferInv'
  <2>1. readBuffer' \in [Transfers -> Seq(Bytes)]
    BY <1>0, <1>1, TypeInvFacts
  <2>2. ASSUME NEW u \in Transfers
        PROVE  /\ uartSemaphore'[u] = 0 => readBuffer'[u] = <<>>
               /\ uartSemaphore'[u] = 1 => ~InQueue(u)'
    <3>1. CASE u = t
      BY <1>0, <1>1, <1>3, <3>1, TypeInvFacts
    <3>2. CASE u # t
      <4>1. uartSemaphore'[u] = uartSemaphore[u] /\ readBuffer'[u] = readBuffer[u]
        BY <1>0, <1>1, <3>2, TypeInvFacts
      <4> QED
        BY <1>0, <1>3, <4>1 DEF TypeInv, TransferInv
    <3> QED
      BY <3>1, <3>2
  <2>3. ~InQueue(polled)'
    <3> SUFFICES ASSUME InQueue(polled)' PROVE FALSE
      OBVIOUS
    <3>1. InQueue(polled) /\ polled # t
      BY <1>2, <1>3
    <3>2. Head(queued) = polled
      BY <1>0, <3>1 DEF TypeInv, TransferInv
    <3> QED
      BY <1>1, <3>1, <3>2
  <2>4. requeueing' => uartSemaphore'[polled'] = 0
    <3> SUFFICES ASSUME requeueing PROVE uartSemaphore'[polled] = 0
      BY <1>2
    <3>1. uartSemaphore[polled] = 0 /\ ~InQueue(polled)
      BY <1>0 DEF TypeInv, TransferInv
    <3>2. polled # t
      BY <1>1, <3>1
    <3> QED
      BY <1>0, <1>1, <3>1, <3>2, TypeInvFacts
  <2> QED
    BY <1>1, <2>1, <2>2, <2>3, <2>4 DEF TransferInv
<1> QED
  BY <1>4, <1>5 DEF TypeInv

\* The tasks which do not touch a transfer.
LEMMA TransferInvUnchanged ==
  ASSUME TypeInv, UNCHANGED <<queued, taskVars>>, Len(line') <= Len(Stream)
  PROVE  TransferInv'
<1>1. UNCHANGED <<queued, uartSemaphore, readBuffer, polled, requeueing>>
  BY DEF taskVars
<1> QED
  BY <1>1 DEF TypeInv, TransferInv, InQueue, Other

\* A byte that finds no transfer.
LEMMA OverrunKeepsTypes ==
  ASSUME TypeInv, Overrun
  PROVE  TypeInv'
<1>0. TypeInv
  OBVIOUS
<1>1. /\ line # <<>> /\ line' = Tail(line)
      /\ silent \/ losses < MaxLosses
      /\ lost' = lost \cup FramesOfNext(1)
      /\ losses' = IF silent THEN losses ELSE losses + 1
      /\ UNCHANGED <<queued, taskVars>>
      /\ UNCHANGED <<ring, currentBytesRead, delivered, silent>>
  BY DEF Overrun, bridgeVars
<1>2. /\ line' \in Seq(Bytes) /\ Len(line') = Len(line) - 1
      /\ Len(line) \in Nat \ {0}
  <2>1. line \in Seq(Bytes) /\ line # <<>>
    BY <1>0, <1>1, TypeInvFacts
  <2> QED
    BY <1>1, <2>1, HeadTailProperties, EmptySeq
<1>3. Len(line) <= Len(Stream) /\ Len(Stream) \in Nat /\ 1 \in 1 .. Len(line)
  BY <1>0, <1>2, StreamType, LenProperties DEF TypeInv, TransferInv
<1>4. Len(line') <= Len(Stream)
  BY <1>2, <1>3
<1>5. lost' \subseteq Frames
  BY <1>0, <1>1, <1>3, TypeInvFacts, NextBytesHaveFrames
<1>6. losses' \in 0 .. MaxLosses
  BY <1>0, <1>1, TypeInvFacts, SerialConstants
<1>7. TypeOK'
  <2>1. UNCHANGED <<uartSemaphore, readBuffer, transferStatus, polled, requeueing>>
    BY <1>1 DEF taskVars
  <2> QED
    BY <1>0, <1>1, <1>2, <1>5, <1>6, <2>1, TypeInvFacts, TypeInvFromFacts
<1> QED
  BY <1>0, <1>1, <1>4, <1>7, TransferInvUnchanged DEF TypeInv

\* The polling task empties a read buffer.
LEMMA HandleTransferCompletionKeepsTypes ==
  ASSUME TypeInv, HandleTransferCompletion
  PROVE  TypeInv'
<1>0. TypeInv
  OBVIOUS
<1>1. /\ uartSemaphore[polled] = 1
      /\ uartSemaphore' = [uartSemaphore EXCEPT ![polled] = 0]
      /\ ring' = IF transferStatus[polled] = "done"
                 THEN ring \o readBuffer[polled] ELSE ring
      /\ readBuffer' = [readBuffer EXCEPT ![polled] = <<>>]
      /\ requeueing' = TRUE
      /\ UNCHANGED <<line, queued, transferStatus, polled, currentBytesRead,
                     delivered, lost, losses, silent>>
  BY DEF HandleTransferCompletion, driverVars, bridgeVars
<1>2. ~InQueue(polled)
  BY <1>0, <1>1, TypeInvFacts DEF TypeInv, TransferInv
<1>3. /\ ring' \in Seq(Bytes) /\ currentBytesRead' \in 0 .. Len(ring')
  <2>1. ring \in Seq(Bytes) /\ readBuffer[polled] \in Seq(Bytes)
    BY <1>0, TypeInvFacts
  <2>2. currentBytesRead \in 0 .. Len(ring)
    BY <1>0, TypeInvFacts
  <2>3. /\ ring \o readBuffer[polled] \in Seq(Bytes)
        /\ Len(ring \o readBuffer[polled]) = Len(ring) + Len(readBuffer[polled])
        /\ Len(ring) \in Nat /\ Len(readBuffer[polled]) \in Nat
    BY <2>1, ConcatProperties, LenProperties
  <2>4. CASE transferStatus[polled] = "done"
    BY <1>1, <2>2, <2>3, <2>4
  <2>5. CASE transferStatus[polled] # "done"
    BY <1>1, <2>1, <2>2, <2>5
  <2> QED
    BY <2>4, <2>5
<1>4. /\ uartSemaphore' \in [Transfers -> {0, 1}]
      /\ readBuffer' \in [Transfers -> Seq(Bytes)]
  <2>1. <<>> \in Seq(Bytes)
    BY EmptySeq
  <2> QED
    BY <1>0, <1>1, <2>1, TypeInvFacts
<1>5. TypeOK'
  <2>1. requeueing' \in BOOLEAN
    BY <1>1, Zenon
  <2> QED
    BY <1>0, <1>1, <1>3, <1>4, <2>1, TypeInvFacts, TypeInvFromFacts
<1>6. TransferInv'
  <2>1. \A t : InQueue(t)' <=> InQueue(t)
    BY <1>1 DEF InQueue
  <2>2. ASSUME NEW t \in Transfers
        PROVE  /\ uartSemaphore'[t] = 0 => readBuffer'[t] = <<>>
               /\ uartSemaphore'[t] = 1 => ~InQueue(t)'
    <3>1. CASE t = polled
      BY <1>0, <1>1, <3>1, TypeInvFacts
    <3>2. CASE t # polled
      <4>1. uartSemaphore'[t] = uartSemaphore[t] /\ readBuffer'[t] = readBuffer[t]
        BY <1>0, <1>1, <3>2, TypeInvFacts
      <4> QED
        BY <1>0, <2>1, <4>1 DEF TypeInv, TransferInv
    <3> QED
      BY <3>1, <3>2
  <2>3. uartSemaphore'[polled'] = 0
    BY <1>0, <1>1, TypeInvFacts
  <2>4. ~InQueue(polled)'
    BY <1>1, <1>2, <2>1
  <2>5. Len(line') <= Len(Stream)
    BY <1>0, <1>1 DEF TypeInv, TransferInv
  <2> QED
    BY <1>4, <2>2, <2>3, <2>4, <2>5 DEF TransferInv
<1> QED
  BY <1>5, <1>6 DEF TypeInv

\* The polling task queues a transfer again, and turns to the other one.
LEMMA QueueAgainKeepsTypes ==
  ASSUME TypeInv, QueueAgain
  PROVE  TypeInv'
<1>0. TypeInv
  OBVIOUS
<1>1. /\ requeueing /\ polled' = Other /\ requeueing' = FALSE
      /\ UNCHANGED <<line, uartSemaphore, readBuffer, transferStatus, ring,
                     currentBytesRead, delivered, lost, losses>>
  BY DEF QueueAgain, bridgeVars, Other
<1>2. \/ queued' = Append(queued, polled) /\ silent' = silent
      \/ silent' = TRUE /\ queued' = queued
  BY DEF QueueAgain
<1>3. uartSemaphore[polled] = 0 /\ ~InQueue(polled)
  BY <1>0, <1>1 DEF TypeInv, TransferInv
<1>4. /\ Len(queued) \in Nat /\ DOMAIN queued = 1 .. Len(queued)
      /\ \A i, j \in 1 .. Len(queued) : queued[i] = queued[j] => i = j
      /\ \A i \in 1 .. Len(queued) : queued[i] \in Transfers /\ queued[i] # polled
  <2>1. queued \in Seq(Transfers) /\ IsInjective(queued)
    BY <1>0, TypeInvFacts
  <2>2. Len(queued) \in Nat /\ DOMAIN queued = 1 .. Len(queued)
    BY <2>1, LenProperties
  <2>3. \A i \in 1 .. Len(queued) : queued[i] \in Transfers
    BY <2>1, ElementOfSeq
  <2> QED
    BY <1>3, <2>1, <2>2, <2>3 DEF IsInjective, InQueue
<1>5. \A i \in 1 .. Len(queued) : queued[i] = Other /\ i = 1
  <2> SUFFICES ASSUME NEW i \in 1 .. Len(queued)
               PROVE  queued[i] = Other /\ i = 1
    OBVIOUS
  <2>1. queued[i] = Other
    BY <1>0, <1>4, TypeInvFacts
  <2>2. 1 \in 1 .. Len(queued)
    BY <1>4
  <2>3. queued[1] = Other
    BY <1>0, <1>4, <2>2, TypeInvFacts
  <2> QED
    BY <1>4, <2>1, <2>2, <2>3
<1>6. /\ queued' \in Seq(Transfers) /\ IsInjective(queued')
      /\ \A t : InQueue(t)' => InQueue(t) \/ t = polled
      /\ InQueue(Other) => Head(queued') = Other
  <2>1. CASE queued' = queued
    <3>1. queued' \in Seq(Transfers) /\ IsInjective(queued')
      BY <1>0, <2>1, TypeInvFacts
    <3>2. \A t : InQueue(t)' => InQueue(t) \/ t = polled
      BY <2>1 DEF InQueue
    <3>3. InQueue(Other) => Head(queued) = Other
      BY <1>4, <1>5 DEF InQueue
    <3> QED
      BY <2>1, <3>1, <3>2, <3>3
  <2>2. CASE queued' = Append(queued, polled)
    <3>1. /\ queued' \in Seq(Transfers) /\ Len(queued') = Len(queued) + 1
          /\ \A i \in 1 .. Len(queued) : queued'[i] = queued[i]
          /\ queued'[Len(queued) + 1] = polled
          /\ DOMAIN queued' = 1 .. Len(queued')
          /\ Head(queued') = queued'[1]
      BY <1>0, <2>2, TypeInvFacts, AppendProperties, LenProperties
    <3>2. ASSUME NEW i \in DOMAIN queued', NEW j \in DOMAIN queued',
                 queued'[i] = queued'[j]
          PROVE  i = j
      BY <1>4, <3>1, <3>2
    <3>3. IsInjective(queued')
      BY <3>2 DEF IsInjective
    <3>4. ASSUME NEW t, InQueue(t)' PROVE InQueue(t) \/ t = polled
      <4>1. PICK i \in 1 .. Len(queued') : queued'[i] = t
        BY <3>4 DEF InQueue
      <4>2. CASE i = Len(queued) + 1
        BY <3>1, <4>1, <4>2
      <4>3. CASE i # Len(queued) + 1
        BY <1>4, <3>1, <4>1, <4>3 DEF InQueue
      <4> QED
        BY <4>2, <4>3
    <3>5. ASSUME InQueue(Other) PROVE Head(queued') = Other
      <4>1. 1 \in 1 .. Len(queued) /\ queued[1] = Other
        BY <1>4, <1>5, <3>5 DEF InQueue
      <4> QED
        BY <3>1, <4>1
    <3> QED
      BY <3>1, <3>3, <3>4, <3>5
  <2> QED
    BY <1>2, <2>1, <2>2
<1>7. TypeOK'
  <2>1. silent' \in BOOLEAN /\ requeueing' \in BOOLEAN
    <3>1. silent \in BOOLEAN
      BY <1>0, TypeInvFacts
    <3> QED
      BY <1>1, <1>2, <3>1, Zenon
  <2> QED
    BY <1>0, <1>1, <1>6, <2>1, TypeInvFacts, TypeInvFromFacts
<1>8. TransferInv'
  <2>1. polled' = Other /\ Other' = polled /\ Other # polled
    <3>1. polled \in {1, 2}
      BY <1>0, TypeInvFacts DEF Transfers
    <3> QED
      BY <1>1, <3>1 DEF Other
  <2>2. ASSUME NEW t \in Transfers
        PROVE  /\ uartSemaphore'[t] = 0 => readBuffer'[t] = <<>>
               /\ uartSemaphore'[t] = 1 => ~InQueue(t)'
    BY <1>0, <1>1, <1>3, <1>6 DEF TypeInv, TransferInv
  <2>3. InQueue(polled)' => Head(queued)' = polled' /\ uartSemaphore'[Other'] = 0
    BY <1>1, <1>3, <1>6, <2>1
  <2>4. readBuffer' \in [Transfers -> Seq(Bytes)] /\ Len(line') <= Len(Stream)
    BY <1>0, <1>1 DEF TypeInv, TransferInv
  <2> QED
    BY <1>1, <2>2, <2>3, <2>4 DEF TransferInv
<1> QED
  BY <1>7, <1>8 DEF TypeInv

-----------------------------------------------------------------------------
(* The analyzer *)

\* A packet ends where the search stops, and begins before.
LEMMA StopProperties ==
  ASSUME ring \in Seq(Bytes), Stops(ring) # {}
  PROVE  /\ Min(Stops(ring)) \in Stops(ring)
         /\ \A i \in Stops(ring) : Min(Stops(ring)) <= i
         /\ Min(Stops(ring)) \in 1 .. Len(ring)
         /\ LossAt(ring) \in 0 .. Len(ring)
         /\ \A p \in PacketIn(ring) :
              /\ p = <<p[1], p[2]>> /\ p[2] = Min(Stops(ring))
              /\ p[1] \in 1 .. Len(ring) /\ p[1] < p[2]
              /\ ring[p[1]] = STX /\ ring[p[2]] = ETX
<1>1. DOMAIN ring = 1 .. Len(ring) /\ Len(ring) \in Nat
  BY LenProperties
<1>2. Stops(ring) \in SUBSET Nat /\ Stops(ring) \subseteq 1 .. Len(ring)
  BY <1>1 DEF Stops, Positions
<1>3. /\ Min(Stops(ring)) \in Stops(ring)
      /\ \A i \in Stops(ring) : Min(Stops(ring)) <= i
  BY <1>2, MinProperties
<1>4. Min(Stops(ring)) \in 1 .. Len(ring)
  BY <1>2, <1>3
<1>5. LossAt(ring) \in 0 .. Len(ring)
  BY <1>1, <1>4 DEF LossAt
<1>6. ASSUME NEW p \in PacketIn(ring)
      PROVE  /\ p = <<p[1], p[2]>> /\ p[2] = Min(Stops(ring))
             /\ p[1] \in 1 .. Len(ring) /\ p[1] < p[2]
             /\ ring[p[1]] = STX /\ ring[p[2]] = ETX
  <2>1. PICK j \in DOMAIN ring :
          /\ p = <<j, Min(Stops(ring))>> /\ ring[j] = STX
          /\ j < Min(Stops(ring)) /\ ring[Min(Stops(ring))] = ETX
    BY DEF PacketIn, Positions
  <2> QED
    BY <1>1, <2>1
<1> QED
  BY <1>3, <1>4, <1>5, <1>6

\* What is deleted and what is taken out of the ring buffer.
LEMMA PacketBytes ==
  ASSUME ring \in Seq(Bytes), Stops(ring) # {}, NEW p \in PacketIn(ring)
  PROVE  /\ p[2] - p[1] + 1 \in 0 .. Len(ring)
         /\ SubSeq(ring, p[1] + 1, p[2] - 1) \in Seq(Bytes)
<1>1. /\ Len(ring) \in Nat /\ p[1] \in 1 .. Len(ring) /\ p[2] \in 1 .. Len(ring)
      /\ p[1] < p[2]
  BY StopProperties, LenProperties
<1>2. \A i \in p[1] + 1 .. p[2] - 1 : ring[i] \in Bytes
  BY <1>1, ElementOfSeq
<1>3. p[1] + 1 \in Int /\ p[2] - 1 \in Int
  BY <1>1
<1> QED
  BY <1>1, <1>2, <1>3, SubSeqProperties

\* The types after a deletion from the front of the ring buffer.
LEMMA AnalyzerKeepsTypes ==
  ASSUME TypeInv, UNCHANGED <<driverVars, taskVars, losses, silent>>,
         ring' \in Seq(Bytes), currentBytesRead' \in 0 .. Len(ring'),
         delivered' \in Seq(Seq(Bytes)), lost' \subseteq Frames
  PROVE  TypeInv'
<1>1. /\ UNCHANGED <<queued, taskVars>>
      /\ UNCHANGED <<line, uartSemaphore, readBuffer, transferStatus, polled,
                     requeueing>>
  BY DEF driverVars, taskVars
<1>2. Len(line') <= Len(Stream)
  BY <1>1 DEF TypeInv, TransferInv
<1>3. TypeOK'
  BY <1>1, TypeInvFacts, TypeInvFromFacts
<1> QED
  BY <1>1, <1>2, <1>3, TransferInvUnchanged DEF TypeInv

\* The three results of the analyzer.
LEMMA AnalyzerTypes ==
  ASSUME TypeInv, checkForPackets
  PROVE  TypeInv'
<1>0. /\ TypeInv /\ ring \in Seq(Bytes) /\ Len(ring) \in Nat
      /\ delivered \in Seq(Seq(Bytes)) /\ lost \subseteq Frames
  BY TypeInvFacts, LenProperties
<1>1. CASE NoPacketFound
  <2>1. /\ currentBytesRead' = Len(ring)
        /\ UNCHANGED <<driverVars, taskVars, losses, silent>>
        /\ UNCHANGED <<ring, delivered, lost>>
    BY <1>1 DEF NoPacketFound
  <2>2. /\ ring' \in Seq(Bytes) /\ currentBytesRead' \in 0 .. Len(ring')
        /\ delivered' \in Seq(Seq(Bytes)) /\ lost' \subseteq Frames
    BY <1>0, <2>1
  <2> QED
    BY <1>0, <2>1, <2>2, AnalyzerKeepsTypes
<1>2. CASE PacketFound
  <2>1. PICK p \in PacketIn(ring) :
          /\ ring' = SubSeq(ring, p[2] - p[1] + 1 + 1, Len(ring))
          /\ \/ /\ delivered' = Append(delivered,
                                       SubSeq(ring, p[1] + 1, p[2] - 1))
                /\ UNCHANGED lost
             \/ /\ lost' = lost \cup {f \in Frames : Payload(f) =
                                        SubSeq(ring, p[1] + 1, p[2] - 1)}
                /\ UNCHANGED delivered
    BY <1>2 DEF PacketFound, deleteData
  <2>2. /\ Stops(ring) # {} /\ currentBytesRead' = 0
        /\ UNCHANGED <<driverVars, taskVars, losses, silent>>
    BY <1>2 DEF PacketFound
  <2>3. /\ p[2] - p[1] + 1 \in 0 .. Len(ring)
        /\ SubSeq(ring, p[1] + 1, p[2] - 1) \in Seq(Bytes)
    BY <1>0, <2>2, PacketBytes
  <2>4. ring' \in Seq(Bytes) /\ currentBytesRead' \in 0 .. Len(ring')
    <3> DEFINE m == p[2] - p[1] + 1
    <3>1. m \in 0 .. Len(ring) /\ ring' = SubSeq(ring, m + 1, Len(ring))
      BY <2>1, <2>3
    <3> HIDE DEF m
    <3>2. ring' \in Seq(Bytes)
      BY <1>0, <3>1, SplitAt
    <3> QED
      BY <2>2, <3>2, LenProperties
  <2>5. delivered' \in Seq(Seq(Bytes)) /\ lost' \subseteq Frames
    <3>1. Append(delivered, SubSeq(ring, p[1] + 1, p[2] - 1)) \in Seq(Seq(Bytes))
      BY <1>0, <2>3, AppendProperties
    <3> QED
      BY <1>0, <2>1, <3>1
  <2> QED
    BY <1>0, <2>2, <2>4, <2>5, AnalyzerKeepsTypes
<1>3. CASE PossiblePacketLoss
  <2>1. /\ ring' = SubSeq(ring, LossAt(ring) + 1, Len(ring))
        /\ Stops(ring) # {} /\ currentBytesRead' = 0
        /\ UNCHANGED <<driverVars, taskVars, losses, silent>>
        /\ UNCHANGED <<delivered, lost>>
    BY <1>3 DEF PossiblePacketLoss, deleteData
  <2>2. LossAt(ring) \in 0 .. Len(ring)
    BY <1>0, <2>1, StopProperties
  <2>3. ring' \in Seq(Bytes) /\ currentBytesRead' \in 0 .. Len(ring')
    BY <1>0, <2>1, <2>2, SplitAt, LenProperties
  <2>4. delivered' \in Seq(Seq(Bytes)) /\ lost' \subseteq Frames
    BY <1>0, <2>1
  <2> QED
    BY <1>0, <2>1, <2>3, <2>4, AnalyzerKeepsTypes
<1> QED
  BY <1>1, <1>2, <1>3 DEF checkForPackets

\* Nothing happens.
LEMMA StutterKeepsTypes ==
  ASSUME TypeInv, UNCHANGED vars
  PROVE  TypeInv'
<1>1. UNCHANGED <<driverVars, taskVars, losses, silent>>
  BY DEF vars
<1>2. UNCHANGED <<ring, currentBytesRead, delivered, lost>>
  BY DEF vars, bridgeVars
<1>3. /\ ring' \in Seq(Bytes) /\ currentBytesRead' \in 0 .. Len(ring')
      /\ delivered' \in Seq(Seq(Bytes)) /\ lost' \subseteq Frames
  BY <1>2, TypeInvFacts
<1> QED
  BY <1>1, <1>3, AnalyzerKeepsTypes

\* Every step keeps the types and the order of the transfers.
LEMMA TypeInvStep ==
  ASSUME TypeInv, [Next]_vars
  PROVE  TypeInv'
<1>1. CASE CompleteTransfer
  BY <1>1, CompleteTransferKeepsTypes
<1>2. CASE Overrun
  BY <1>2, OverrunKeepsTypes
<1>3. CASE HandleTransferCompletion
  BY <1>3, HandleTransferCompletionKeepsTypes
<1>4. CASE QueueAgain
  BY <1>4, QueueAgainKeepsTypes
<1>5. CASE checkForPackets
  BY <1>5, AnalyzerTypes
<1>6. CASE Quiet \/ UNCHANGED vars
  BY <1>6, StutterKeepsTypes DEF Quiet
<1> QED
  BY <1>1, <1>2, <1>3, <1>4, <1>5, <1>6 DEF Next, PollingTask

\* Every variable of the reception keeps its type, for any frames sent, any
\* size of a chunk and any number of losses; the analyzer never believes that
\* it has searched more than the ring buffer holds.
THEOREM TypeCorrect == Spec => []TypeOK
<1>1. Init => TypeInv
  BY TypeInvInit
<1>2. TypeInv /\ [Next]_vars => TypeInv'
  BY TypeInvStep
<1>3. TypeInv => TypeOK
  BY DEF TypeInv
<1> QED
  BY <1>1, <1>2, <1>3, PTL DEF Spec

-----------------------------------------------------------------------------
(* The stream *)

\* The first k frames have been passed on, and all the bytes behind them are in
\* the ring buffer, in the read buffers and on the line.
PassedOn(k) ==
  /\ delivered = [f \in 1 .. k |-> Payload(f)]
  /\ Before(k) \o (ring \o (InBuffers \o line)) = Stream

\* Before anything is lost no transfer has failed, the packets passed on are
\* the first frames sent, and the rest is under way.
StreamInv ==
  lost = {} =>
    /\ \A t \in Transfers : uartSemaphore[t] = 1 => transferStatus[t] = "done"
    /\ \E k \in 0 .. Len(Size) : PassedOn(k)

\* The beginnings of one sequence agree as far as both reach.
LEMMA Beginnings ==
  ASSUME NEW S, NEW a \in Seq(S), NEW b \in Seq(S), NEW c \in Seq(S),
         NEW d \in Seq(S), a \o b = c \o d
  PROVE  \A i \in 1 .. Len(a) : i <= Len(c) => a[i] = c[i]
<1>1. Len(a) \in Nat /\ Len(b) \in Nat /\ Len(c) \in Nat /\ Len(d) \in Nat
  OBVIOUS
<1> SUFFICES ASSUME NEW i \in 1 .. Len(a), i <= Len(c)
             PROVE  a[i] = c[i]
  OBVIOUS
<1>2. (a \o b)[i] = a[i]
  BY <1>1
<1>3. (c \o d)[i] = c[i]
  BY <1>1
<1> QED
  BY <1>2, <1>3

\* Read buffers with their types.
LEMMA BuffersType ==
  ASSUME TypeInv
  PROVE  /\ readBuffer[polled] \in Seq(Bytes) /\ readBuffer[Other] \in Seq(Bytes)
         /\ InBuffers = readBuffer[polled] \o readBuffer[Other]
         /\ InBuffers \in Seq(Bytes)
<1>1. readBuffer[polled] \in Seq(Bytes) /\ readBuffer[Other] \in Seq(Bytes)
  BY TypeInvFacts
<1>2. InBuffers = readBuffer[polled] \o readBuffer[Other]
  BY DEF InBuffers, Other
<1> QED
  BY <1>1, <1>2, ConcatProperties

\* The frames of the packets passed on, one after the other.
LEMMA FramesPassedOn ==
  ASSUME NEW k \in 0 .. Len(Size), delivered = [f \in 1 .. k |-> Payload(f)]
  PROVE  FlattenSeq([i \in DOMAIN delivered |-> Frame(delivered[i])]) = Before(k)
<1>1. DOMAIN delivered = 1 .. k /\ \A i \in 1 .. k : delivered[i] = Payload(i)
  OBVIOUS
<1>2. [i \in DOMAIN delivered |-> Frame(delivered[i])] = FramesUpTo(k)
  BY <1>1 DEF FramesUpTo
<1> QED
  BY <1>2 DEF Before

\* The invariant implies the property.
LEMMA StreamInvIsEnough ==
  ASSUME TypeInv, StreamInv
  PROVE  StreamIntact
<1> SUFFICES ASSUME lost = {}
             PROVE  FlattenSeq([i \in DOMAIN delivered |-> Frame(delivered[i])])
                      \o ring \o InBuffers \o line = Stream
  BY DEF StreamIntact
<1>1. PICK k \in 0 .. Len(Size) : PassedOn(k)
  BY DEF StreamInv
<1>2. FlattenSeq([i \in DOMAIN delivered |-> Frame(delivered[i])]) = Before(k)
  BY <1>1, FramesPassedOn DEF PassedOn
<1>3. Before(k) \o (ring \o (InBuffers \o line)) = Stream
  BY <1>1 DEF PassedOn
<1>4. /\ Before(k) \in Seq(Bytes) /\ ring \in Seq(Bytes)
      /\ InBuffers \in Seq(Bytes) /\ line \in Seq(Bytes)
  BY BeforeType, TypeInvFacts, BuffersType
<1>5. Before(k) \o ring \o InBuffers \o line
        = Before(k) \o (ring \o (InBuffers \o line))
  <2> DEFINE b == Before(k)
             i == InBuffers
  <2>1. b \in Seq(Bytes) /\ i \in Seq(Bytes)
    BY <1>4
  <2> HIDE DEF b, i
  <2> DEFINE x == b \o ring
             y == i \o line
  <2>2. x \in Seq(Bytes) /\ y \in Seq(Bytes)
    BY <1>4, <2>1
  <2> HIDE DEF x, y
  <2>3. (x \o i) \o line = x \o (i \o line)
    <3>1. x \in Seq(Bytes) /\ i \in Seq(Bytes) /\ line \in Seq(Bytes)
      BY <1>4, <2>1, <2>2
    <3> QED
      BY <3>1, Regroup
  <2>4. (b \o ring) \o y = b \o (ring \o y)
    <3>1. b \in Seq(Bytes) /\ ring \in Seq(Bytes) /\ y \in Seq(Bytes)
      BY <1>4, <2>1, <2>2
    <3> QED
      BY <3>1, Regroup
  <2>5. (x \o i) \o line = b \o (ring \o y)
    BY <2>3, <2>4 DEF x, y
  <2> QED
    BY <2>5 DEF x, y, b, i
<1> QED
  BY <1>2, <1>3, <1>5

\* Everything is still on the line.
LEMMA StreamInvInit ==
  ASSUME Init
  PROVE  StreamInv
<1>0. TypeInv
  BY TypeInvInit
<1>1. \A t \in Transfers : transferStatus[t] = "done"
  BY DEF Init
<1>2. delivered = [f \in 1 .. 0 |-> Payload(f)]
  BY DEF Init
<1>3. InBuffers = <<>>
  <2>1. readBuffer[polled] = <<>> /\ readBuffer[Other] = <<>>
    BY <1>0, TypeInvFacts DEF Init
  <2> QED
    BY <1>0, <2>1, BuffersType, ConcatEmptySeq
<1>4. Before(0) \o (ring \o (InBuffers \o line)) = Stream
  BY <1>3, BeforeFirst, StreamType, ConcatEmptySeq DEF Init
<1>5. 0 \in 0 .. Len(Size)
  BY SizeProperties
<1> QED
  BY <1>1, <1>2, <1>4, <1>5 DEF StreamInv, PassedOn

\* Steps which only move bytes on towards the analyzer.
LEMMA BytesMoveOn ==
  ASSUME TypeInv, StreamInv, lost = {}, UNCHANGED delivered,
         ring' \o (InBuffers' \o line') = ring \o (InBuffers \o line)
  PROVE  \E k \in 0 .. Len(Size) : PassedOn(k)'
<1>1. PICK k \in 0 .. Len(Size) : PassedOn(k)
  BY DEF StreamInv
<1>2. PassedOn(k)'
  BY <1>1 DEF PassedOn
<1> QED
  BY <1>2

\* A chunk goes behind all that is in the read buffers, or is lost.
LEMMA CompleteTransferKeepsStream ==
  ASSUME TypeInv, StreamInv, CompleteTransfer
  PROVE  StreamInv'
<1> SUFFICES ASSUME lost' = {}
             PROVE  /\ \A t \in Transfers :
                         uartSemaphore'[t] = 1 => transferStatus'[t] = "done"
                    /\ \E k \in 0 .. Len(Size) : PassedOn(k)'
  BY DEF StreamInv
<1>0. TypeInv /\ StreamInv /\ TypeInv'
  BY CompleteTransferKeepsTypes
<1>1. PICK n \in Nat \ {0}, t \in Transfers, status \in {"done", "error"} :
        /\ t = Head(queued) /\ InQueue(t) /\ n \in 1 .. Len(line)
        /\ line' \in Seq(Bytes)
        /\ SubSeq(line, 1, n) \in Seq(Bytes)
        /\ SubSeq(line, 1, n) \o line' = line
        /\ readBuffer' = [readBuffer EXCEPT ![t] = SubSeq(line, 1, n)]
        /\ transferStatus' = [transferStatus EXCEPT ![t] = status]
        /\ uartSemaphore' = [uartSemaphore EXCEPT ![t] = 1]
        /\ IF status = "error"
           THEN losses' = losses + 1 /\ lost' = lost \cup FramesOfNext(n)
           ELSE UNCHANGED <<losses, lost>>
        /\ FramesOfNext(n) # {}
  BY <1>0, TransferEffect
<1>2. UNCHANGED <<polled, ring, delivered>>
  BY DEF CompleteTransfer, bridgeVars
<1>3. status = "done" /\ lost = {}
  BY <1>1
<1>4. ASSUME NEW u \in Transfers, uartSemaphore'[u] = 1
      PROVE  transferStatus'[u] = "done"
  <2>1. CASE u = t
    BY <1>0, <1>1, <1>3, <2>1, TypeInvFacts
  <2>2. CASE u # t
    BY <1>0, <1>1, <1>3, <1>4, <2>2, TypeInvFacts DEF StreamInv
  <2> QED
    BY <2>1, <2>2
<1> DEFINE chunk == SubSeq(line, 1, n)
           first == readBuffer[polled]
<1>5. InBuffers = first /\ InBuffers' = first \o chunk
  <2>1. uartSemaphore[t] = 0 /\ readBuffer[t] = <<>>
    BY <1>0, <1>1, TypeInvFacts DEF TypeInv, TransferInv
  <2>2. /\ InBuffers = first \o readBuffer[Other]
        /\ InBuffers' = readBuffer'[polled] \o readBuffer'[Other]
    <3>1. Other' = Other
      BY <1>2 DEF Other
    <3> QED
      BY <1>0, <1>2, <3>1, BuffersType DEF InBuffers, Other
  <2>3. CASE t = polled
    <3>1. uartSemaphore[Other] = 0
      BY <1>0, <1>1, <2>3 DEF TypeInv, TransferInv
    <3>2. readBuffer[Other] = <<>>
      BY <1>0, <3>1, TypeInvFacts DEF TypeInv, TransferInv
    <3>3. readBuffer'[polled] = chunk /\ readBuffer'[Other] = <<>>
      BY <1>0, <1>1, <2>3, <3>2, TypeInvFacts
    <3>4. first = <<>>
      BY <2>1, <2>3
    <3> HIDE DEF first, chunk
    <3>5. chunk \in Seq(Bytes)
      BY <1>1 DEF chunk
    <3> QED
      BY <2>2, <3>2, <3>3, <3>4, <3>5, ConcatEmptySeq
  <2>4. CASE t # polled
    <3>1. t = Other
      BY <1>0, <2>4, TypeInvFacts
    <3>2. readBuffer'[polled] = first /\ readBuffer'[Other] = chunk
      BY <1>0, <1>1, <2>4, <3>1, TypeInvFacts
    <3>3. readBuffer[Other] = <<>>
      BY <2>1, <3>1
    <3>4. first \in Seq(Bytes)
      BY <1>0, BuffersType
    <3> HIDE DEF first, chunk
    <3> QED
      BY <2>2, <3>2, <3>3, <3>4, ConcatEmptySeq
  <2> QED
    BY <2>3, <2>4
<1>6. first \in Seq(Bytes) /\ chunk \in Seq(Bytes) /\ chunk \o line' = line
  BY <1>0, <1>1, BuffersType
<1> HIDE DEF first, chunk
<1>7. InBuffers' \o line' = InBuffers \o line
  <2>0. first \in Seq(Bytes) /\ chunk \in Seq(Bytes) /\ line' \in Seq(Bytes)
    BY <1>1, <1>6
  <2>1. (first \o chunk) \o line' = first \o (chunk \o line')
    BY <2>0, Regroup
  <2> QED
    BY <1>5, <1>6, <2>1
<1>8. \E k \in 0 .. Len(Size) : PassedOn(k)'
  BY <1>0, <1>2, <1>3, <1>7, BytesMoveOn
<1> QED
  BY <1>4, <1>8

\* A byte that finds no transfer is lost.
LEMMA OverrunKeepsStream ==
  ASSUME TypeInv, Overrun
  PROVE  StreamInv'
<1>1. line # <<>> /\ lost' = lost \cup FramesOfNext(1)
  BY DEF Overrun
<1>2. line \in Seq(Bytes) /\ Len(line) <= Len(Stream)
  BY TypeInvFacts DEF TypeInv, TransferInv
<1>3. 1 \in 1 .. Len(line)
  BY <1>1, <1>2, EmptySeq
<1>4. lost' # {}
  BY <1>1, <1>2, <1>3, NextBytesHaveFrames
<1> QED
  BY <1>4 DEF StreamInv

\* The polled read buffer is the older one, and goes behind the ring buffer.
LEMMA HandleTransferCompletionKeepsStream ==
  ASSUME TypeInv, StreamInv, HandleTransferCompletion
  PROVE  StreamInv'
<1> SUFFICES ASSUME lost' = {}
             PROVE  /\ \A t \in Transfers :
                         uartSemaphore'[t] = 1 => transferStatus'[t] = "done"
                    /\ \E k \in 0 .. Len(Size) : PassedOn(k)'
  BY DEF StreamInv
<1>0. TypeInv /\ StreamInv
  OBVIOUS
<1>1. /\ uartSemaphore[polled] = 1
      /\ uartSemaphore' = [uartSemaphore EXCEPT ![polled] = 0]
      /\ ring' = IF transferStatus[polled] = "done"
                 THEN ring \o readBuffer[polled] ELSE ring
      /\ readBuffer' = [readBuffer EXCEPT ![polled] = <<>>]
      /\ UNCHANGED <<line, transferStatus, polled, delivered, lost>>
  BY DEF HandleTransferCompletion, driverVars, bridgeVars
<1>2. ASSUME NEW t \in Transfers, uartSemaphore'[t] = 1
      PROVE  transferStatus'[t] = "done"
  BY <1>0, <1>1, <1>2, TypeInvFacts DEF StreamInv
<1> DEFINE first == readBuffer[polled]
           second == readBuffer[Other]
<1>3. ring' = ring \o first
  BY <1>0, <1>1, TypeInvFacts DEF StreamInv
<1>4. /\ first \in Seq(Bytes) /\ second \in Seq(Bytes) /\ ring \in Seq(Bytes)
      /\ line \in Seq(Bytes) /\ InBuffers = first \o second
  BY <1>0, BuffersType, TypeInvFacts
<1>5. InBuffers' = second
  <2>1. readBuffer'[polled] = <<>> /\ readBuffer'[Other] = second
    BY <1>0, <1>1, TypeInvFacts
  <2>2. InBuffers' = readBuffer'[polled] \o readBuffer'[Other]
    BY <1>1 DEF InBuffers, Other
  <2> HIDE DEF second
  <2> QED
    BY <1>4, <2>1, <2>2, ConcatEmptySeq
<1> HIDE DEF first, second
<1>6. ring' \o (InBuffers' \o line') = ring \o (InBuffers \o line)
  <2>1. (ring \o first) \o (second \o line) = ring \o (first \o (second \o line))
    <3> DEFINE rest == second \o line
    <3>1. ring \in Seq(Bytes) /\ first \in Seq(Bytes) /\ rest \in Seq(Bytes)
      BY <1>4
    <3> HIDE DEF rest
    <3>2. (ring \o first) \o rest = ring \o (first \o rest)
      BY <3>1, Regroup
    <3> QED
      BY <3>2 DEF rest
  <2>2. (first \o second) \o line = first \o (second \o line)
    BY <1>4, ConcatAssociative
  <2> QED
    BY <1>1, <1>3, <1>4, <1>5, <2>1, <2>2
<1>7. \E k \in 0 .. Len(Size) : PassedOn(k)'
  BY <1>0, <1>1, <1>6, BytesMoveOn
<1> QED
  BY <1>2, <1>7

\* The order of the read buffers changes when the polled one is empty.
LEMMA QueueAgainKeepsStream ==
  ASSUME TypeInv, StreamInv, QueueAgain
  PROVE  StreamInv'
<1> SUFFICES ASSUME lost' = {}
             PROVE  /\ \A t \in Transfers :
                         uartSemaphore'[t] = 1 => transferStatus'[t] = "done"
                    /\ \E k \in 0 .. Len(Size) : PassedOn(k)'
  BY DEF StreamInv
<1>0. TypeInv /\ StreamInv
  OBVIOUS
<1>1. /\ requeueing /\ polled' = Other
      /\ UNCHANGED <<line, uartSemaphore, readBuffer, transferStatus, ring,
                     delivered, lost>>
  BY DEF QueueAgain, bridgeVars, Other
<1>2. readBuffer[polled] = <<>>
  BY <1>0, <1>1, TypeInvFacts DEF TypeInv, TransferInv
<1>3. InBuffers' = InBuffers
  <2> DEFINE second == readBuffer[Other]
  <2>1. 3 - Other = polled
    BY <1>0, TypeInvFacts DEF Other, Transfers
  <2>2. InBuffers' = second \o <<>>
    BY <1>1, <1>2, <2>1 DEF InBuffers
  <2>3. InBuffers = <<>> \o second /\ second \in Seq(Bytes)
    BY <1>0, <1>2, BuffersType
  <2> HIDE DEF second
  <2> QED
    BY <2>2, <2>3, ConcatEmptySeq
<1>4. \E k \in 0 .. Len(Size) : PassedOn(k)'
  BY <1>0, <1>1, <1>3, BytesMoveOn
<1> QED
  BY <1>0, <1>1, <1>4 DEF StreamInv

\* What the analyzer finds while nothing is lost: the next frame, at the front.
LEMMA FrameAtFront ==
  ASSUME TypeInv, Stops(ring) # {}, NEW k \in 0 .. Len(Size), PassedOn(k)
  PROVE  LET f == k + 1
             n == Size[f] + 2
         IN  /\ k < Len(Size) /\ f \in Frames /\ n \in 1 .. Len(ring)
             /\ PacketIn(ring) = {<<1, n>>}
             /\ SubSeq(ring, 1, n) = Frame(Payload(f))
             /\ SubSeq(ring, 2, n - 1) = Payload(f)
<1> DEFINE f == k + 1
           n == Size[f] + 2
           stop == Min(Stops(ring))
           rest == InBuffers \o line
<1>1. /\ ring \in Seq(Bytes) /\ Len(ring) \in Nat /\ DOMAIN ring = 1 .. Len(ring)
      /\ rest \in Seq(Bytes) /\ Before(k) \in Seq(Bytes)
  BY TypeInvFacts, BuffersType, BeforeType, LenProperties, ConcatProperties
<1>2. /\ stop \in Stops(ring) /\ stop \in 1 .. Len(ring)
      /\ \A i \in Stops(ring) : stop <= i
  BY <1>1, StopProperties
<1>3. Before(k) \o (ring \o rest) = Stream
  BY DEF PassedOn
<1> HIDE DEF rest
<1>4. k < Len(Size)
  <2> SUFFICES ASSUME ~(k < Len(Size)) PROVE FALSE
    OBVIOUS
  <2>1. k = Len(Size)
    BY SizeProperties
  <2>2. Before(k) \o (ring \o rest) = Before(k)
    BY <1>3, <2>1, StreamIsAllFrames
  <2> DEFINE a == ring \o rest
  <2>3. a \in Seq(Bytes) /\ Len(a) = Len(ring) + Len(rest) /\ Len(rest) \in Nat
    BY <1>1
  <2> HIDE DEF a
  <2>4. a = <<>>
    BY <1>1, <2>2, <2>3, ConcatEqualIffEmpty DEF a
  <2>5. Len(a) = 0
    BY <2>4
  <2> QED
    BY <1>1, <1>2, <2>3, <2>5
<1>5. f \in Frames /\ f \in Nat /\ f # STX /\ f # ETX /\ STX # ETX
  BY <1>4, SizeProperties DEF STX
<1>6. n \in Nat /\ n >= 3
  BY <1>5, SizeProperties
<1> DEFINE frame == Frame(Payload(f))
<1>7. /\ frame \in Seq(Bytes) /\ Len(frame) = n
      /\ frame[1] = STX /\ frame[n] = ETX
      /\ \A i \in 2 .. n - 1 : frame[i] = f
      /\ SubSeq(frame, 2, n - 1) = Payload(f)
  <2>1. n - 1 = Size[f] + 1
    BY <1>5, SizeProperties
  <2> QED
    BY <1>5, <2>1, FrameProperties
<1>8. PICK r \in Seq(Bytes) : Stream = Before(k) \o (frame \o r)
  BY <1>4, NextFrameOfStream
<1> HIDE DEF f, n, stop, frame
<1>9. ring \o rest = frame \o r
  <2> DEFINE a == ring \o rest
             b == frame \o r
             c == Before(k)
  <2>1. a \in Seq(Bytes) /\ b \in Seq(Bytes) /\ c \in Seq(Bytes)
    BY <1>1, <1>7
  <2>2. c \o a = c \o b
    BY <1>3, <1>8
  <2> HIDE DEF a, b, c
  <2>3. a = b
    BY <2>1, <2>2, ConcatSimplifications
  <2> QED
    BY <2>3 DEF a, b
<1>10. \A i \in 1 .. Len(ring) : i <= n => ring[i] = frame[i]
  BY <1>1, <1>7, <1>9, Beginnings
<1>11. \A i \in 1 .. Len(ring) : i < n => ring[i] # ETX /\ (ring[i] = STX <=> i = 1)
  <2> SUFFICES ASSUME NEW i \in 1 .. Len(ring), i < n
               PROVE  ring[i] # ETX /\ (ring[i] = STX <=> i = 1)
    OBVIOUS
  <2>1. ring[i] = frame[i]
    BY <1>1, <1>6, <1>10
  <2>2. CASE i = 1
    BY <1>5, <1>7, <2>1, <2>2
  <2>3. CASE i # 1
    <3>1. i \in 2 .. n - 1
      BY <1>1, <1>6, <2>3
    <3> QED
      BY <1>5, <1>7, <2>1, <2>3, <3>1
  <2> QED
    BY <2>2, <2>3
<1>12. ~(stop < n)
  <2> SUFFICES ASSUME stop < n PROVE FALSE
    OBVIOUS
  <2>1. ring[stop] # ETX /\ (ring[stop] = STX => stop = 1)
    BY <1>2, <1>11
  <2>2. stop = 1 /\ \E j \in 1 .. Len(ring) : j < stop
    BY <1>1, <1>2, <2>1 DEF Stops, Positions
  <2> QED
    BY <1>1, <2>2
<1>13. n \in 1 .. Len(ring) /\ ring[n] = ETX
  <2>1. n \in 1 .. Len(ring)
    BY <1>1, <1>2, <1>6, <1>12
  <2> QED
    BY <1>6, <1>7, <1>10, <2>1
<1>14. stop = n
  <2>1. n \in Stops(ring)
    BY <1>1, <1>13 DEF Stops, Positions
  <2> QED
    BY <1>2, <1>6, <1>12, <2>1
<1>15. PacketIn(ring) = {<<1, n>>}
  <2>1. \A i \in DOMAIN ring : (ring[i] = STX /\ i < n) <=> i = 1
    BY <1>1, <1>6, <1>11, <1>13
  <2>2. 1 \in DOMAIN ring
    BY <1>1, <1>13
  <2>3. {i \in Positions(ring, STX) : i < n /\ ring[n] = ETX} = {1}
    BY <1>13, <2>1, <2>2 DEF Positions
  <2>4. PacketIn(ring) = {<<j, n>> : j \in {i \in Positions(ring, STX) :
                                              i < n /\ ring[n] = ETX}}
    BY <1>14 DEF PacketIn, stop
  <2> QED
    BY <2>3, <2>4
<1>16. SubSeq(ring, 1, n) = frame
  <2>1. /\ SubSeq(ring, 1, n) \in Seq(Bytes) /\ Len(SubSeq(ring, 1, n)) = n
        /\ \A i \in 1 .. n : SubSeq(ring, 1, n)[i] = ring[i]
    <3>1. \A i \in 1 .. n : ring[i] \in Bytes
      BY <1>1, <1>13, ElementOfSeq
    <3>2. /\ SubSeq(ring, 1, n) \in Seq(Bytes)
          /\ Len(SubSeq(ring, 1, n)) = IF 1 <= n THEN n - 1 + 1 ELSE 0
          /\ \A i \in 1 .. n - 1 + 1 : SubSeq(ring, 1, n)[i] = ring[1 + i - 1]
      BY <1>6, <3>1, SubSeqProperties
    <3> QED
      BY <1>6, <3>2
  <2>2. \A i \in 1 .. n : ring[i] = frame[i]
    BY <1>1, <1>10, <1>13
  <2> QED
    BY <1>7, <2>1, <2>2, SeqEqual
<1>17. SubSeq(ring, 2, n - 1) = Payload(f)
  <2>1. \A i \in 2 .. n - 1 : ring[i] = frame[i] /\ ring[i] \in Bytes
    BY <1>1, <1>10, <1>13, ElementOfSeq
  <2>2. SubSeq(ring, 2, n - 1) = SubSeq(frame, 2, n - 1)
    <3>1. \A i \in 2 .. n - 1 : frame[i] \in Bytes
      BY <2>1
    <3>2. /\ SubSeq(ring, 2, n - 1) \in Seq(Bytes)
          /\ Len(SubSeq(ring, 2, n - 1)) = n - 2
          /\ \A i \in 1 .. n - 2 : SubSeq(ring, 2, n - 1)[i] = ring[i + 1]
      BY <1>6, <2>1, SubSeqProperties
    <3>3. /\ SubSeq(frame, 2, n - 1) \in Seq(Bytes)
          /\ Len(SubSeq(frame, 2, n - 1)) = n - 2
          /\ \A i \in 1 .. n - 2 : SubSeq(frame, 2, n - 1)[i] = frame[i + 1]
      BY <1>6, <3>1, SubSeqProperties
    <3>4. \A i \in 1 .. n - 2 : ring[i + 1] = frame[i + 1]
      BY <1>6, <2>1
    <3> QED
      BY <3>2, <3>3, <3>4, SeqEqual
  <2> QED
    BY <1>7, <2>2
<1> QED
  BY <1>4, <1>5, <1>13, <1>15, <1>16, <1>17 DEF f, n, frame

\* The packet passed on is the next frame, and no other byte is deleted.
LEMMA PacketFoundKeepsStream ==
  ASSUME TypeInv, StreamInv, PacketFound
  PROVE  StreamInv'
<1> SUFFICES ASSUME lost' = {}
             PROVE  /\ \A t \in Transfers :
                         uartSemaphore'[t] = 1 => transferStatus'[t] = "done"
                    /\ \E k \in 0 .. Len(Size) : PassedOn(k)'
  BY DEF StreamInv
<1>0. TypeInv /\ StreamInv
  OBVIOUS
<1>1. /\ Stops(ring) # {}
      /\ UNCHANGED <<line, uartSemaphore, readBuffer, transferStatus, polled>>
  BY DEF PacketFound, driverVars, taskVars
<1>2. PICK p \in PacketIn(ring) :
        /\ ring' = SubSeq(ring, p[2] - p[1] + 1 + 1, Len(ring))
        /\ \/ /\ delivered' = Append(delivered,
                                     SubSeq(ring, p[1] + 1, p[2] - 1))
              /\ UNCHANGED lost
           \/ /\ lost' = lost \cup {f \in Frames : Payload(f) =
                                      SubSeq(ring, p[1] + 1, p[2] - 1)}
              /\ UNCHANGED delivered
  BY DEF PacketFound, deleteData
<1>3. lost = {}
  BY <1>2
<1>4. PICK k \in 0 .. Len(Size) : PassedOn(k)
  BY <1>0, <1>3 DEF StreamInv
<1> DEFINE f == k + 1
           n == Size[f] + 2
           frame == Frame(Payload(f))
           i == InBuffers \o line
<1>5. /\ k < Len(Size) /\ f \in Frames /\ n \in 1 .. Len(ring)
      /\ p = <<1, n>> /\ SubSeq(ring, 1, n) = frame
      /\ SubSeq(ring, 2, n - 1) = Payload(f)
  BY <1>0, <1>1, <1>2, <1>4, FrameAtFront
<1>6. /\ n \in Nat /\ p[1] = 1 /\ p[2] = n
      /\ p[2] - p[1] + 1 + 1 = n + 1 /\ p[1] + 1 = 2
  <2>1. n \in Nat
    BY <1>5, SizeProperties
  <2>2. p[1] = 1 /\ p[2] = n
    BY <1>5
  <2> HIDE DEF n
  <2> QED
    BY <2>1, <2>2
<1>7. delivered' = Append(delivered, Payload(f))
  <2>1. SubSeq(ring, p[1] + 1, p[2] - 1) = Payload(f)
    BY <1>5, <1>6
  <2> QED
    BY <1>2, <1>5, <2>1
<1>8. delivered' = [g \in 1 .. k + 1 |-> Payload(g)]
  <2> DEFINE d == [g \in 1 .. k + 1 |-> Payload(g)]
  <2>1. k \in Nat /\ \A g \in 1 .. k + 1 : Payload(g) \in Seq(Bytes)
    BY <1>5, SizeProperties, FrameProperties
  <2>2. d \in Seq(Seq(Bytes)) /\ Len(d) = k + 1
    BY <2>1
  <2>3. /\ delivered \in Seq(Seq(Bytes)) /\ Len(delivered) = k
        /\ \A g \in 1 .. k : delivered[g] = Payload(g)
    BY <1>4, <2>1 DEF PassedOn
  <2>4. Payload(f) \in Seq(Bytes)
    BY <1>5, FrameProperties
  <2>5. /\ delivered' \in Seq(Seq(Bytes)) /\ Len(delivered') = k + 1
        /\ \A g \in 1 .. k : delivered'[g] = Payload(g)
        /\ delivered'[k + 1] = Payload(k + 1)
    BY <1>7, <2>3, <2>4, AppendProperties
  <2>6. \A g \in 1 .. k + 1 : d[g] = Payload(g)
    OBVIOUS
  <2> HIDE DEF d
  <2>7. \A g \in 1 .. k + 1 : delivered'[g] = d[g]
    BY <2>1, <2>5, <2>6
  <2>8. delivered' = d
    BY <2>2, <2>5, <2>7, SeqEqual
  <2> QED
    BY <2>8 DEF d
<1>9. /\ frame \in Seq(Bytes) /\ ring' \in Seq(Bytes) /\ frame \o ring' = ring
  <2>1. n \in 0 .. Len(ring) /\ ring \in Seq(Bytes)
    BY <1>0, <1>5, <1>6, TypeInvFacts
  <2>2. ring' = SubSeq(ring, n + 1, Len(ring))
    BY <1>2, <1>6
  <2>3. SubSeq(ring, 1, n) = frame
    BY <1>5
  <2> HIDE DEF n, frame
  <2>4. /\ SubSeq(ring, 1, n) \in Seq(Bytes)
        /\ SubSeq(ring, n + 1, Len(ring)) \in Seq(Bytes)
        /\ SubSeq(ring, 1, n) \o SubSeq(ring, n + 1, Len(ring)) = ring
    BY <2>1, SplitAt
  <2> QED
    BY <2>2, <2>3, <2>4
<1>10. Before(k + 1) \o (ring' \o i) = Stream
  <2> DEFINE b == Before(k)
  <2>1. b \in Seq(Bytes) /\ i \in Seq(Bytes)
    BY <1>0, BeforeType, BuffersType, TypeInvFacts, ConcatProperties
  <2>2. Before(k + 1) = b \o frame
    BY <1>5, BeforeNext
  <2>3. b \o (ring \o i) = Stream
    BY <1>4 DEF PassedOn
  <2> HIDE DEF b, i, frame
  <2> DEFINE r == ring'
             x == r \o i
  <2>4. /\ r \in Seq(Bytes) /\ frame \in Seq(Bytes) /\ x \in Seq(Bytes)
        /\ frame \o r = ring
    BY <1>9, <2>1
  <2> HIDE DEF r
  <2>5. (frame \o r) \o i = frame \o (r \o i)
    <3>1. frame \in Seq(Bytes) /\ r \in Seq(Bytes) /\ i \in Seq(Bytes)
      BY <2>1, <2>4
    <3> QED
      BY <3>1, Regroup
  <2> HIDE DEF x
  <2>6. (b \o frame) \o x = b \o (frame \o x)
    <3>1. b \in Seq(Bytes) /\ frame \in Seq(Bytes) /\ x \in Seq(Bytes)
      BY <2>1, <2>4
    <3> QED
      BY <3>1, Regroup
  <2>7. b \o (frame \o x) = Stream
    BY <2>3, <2>4, <2>5 DEF x
  <2>8. Before(k + 1) \o x = Stream
    BY <2>2, <2>6, <2>7
  <2> QED
    BY <2>8 DEF x, r
<1>11. InBuffers' \o line' = i
  BY <1>1 DEF InBuffers
<1>12. k + 1 \in 0 .. Len(Size)
  BY <1>5, SizeProperties
<1> HIDE DEF f, n, frame, i
<1>13. PassedOn(k + 1)'
  BY <1>8, <1>10, <1>11 DEF PassedOn
<1> QED
  BY <1>0, <1>1, <1>3, <1>12, <1>13 DEF StreamInv

\* Without a loss no bytes are skipped.
LEMMA AnalyzerKeepsStream ==
  ASSUME TypeInv, StreamInv, checkForPackets
  PROVE  StreamInv'
<1>1. CASE PacketFound
  BY <1>1, PacketFoundKeepsStream
<1>2. CASE PossiblePacketLoss
  <2> SUFFICES ASSUME lost = {} PROVE FALSE
    BY <1>2 DEF StreamInv, PossiblePacketLoss
  <2>1. /\ Stops(ring) # {}
        /\ \A p \in PacketIn(ring) : \A f \in Frames :
             SubSeq(ring, p[1], p[2]) # Frame(Payload(f))
    BY <1>2 DEF PossiblePacketLoss
  <2>2. PICK k \in 0 .. Len(Size) : PassedOn(k)
    BY DEF StreamInv
  <2>3. /\ k + 1 \in Frames /\ PacketIn(ring) = {<<1, Size[k + 1] + 2>>}
        /\ SubSeq(ring, 1, Size[k + 1] + 2) = Frame(Payload(k + 1))
    BY <2>1, <2>2, FrameAtFront
  <2>4. <<1, Size[k + 1] + 2>> \in PacketIn(ring)
    BY <2>3
  <2> QED
    BY <2>1, <2>3, <2>4
<1>3. CASE NoPacketFound
  <2>1. UNCHANGED <<line, uartSemaphore, readBuffer, transferStatus, polled,
                    ring, delivered, lost>>
    BY <1>3 DEF NoPacketFound, driverVars, taskVars
  <2> QED
    BY <2>1 DEF StreamInv, PassedOn, InBuffers
<1> QED
  BY <1>1, <1>2, <1>3 DEF checkForPackets

\* Every step keeps the stream together.
LEMMA StreamInvStep ==
  ASSUME TypeInv, StreamInv, [Next]_vars
  PROVE  StreamInv'
<1>1. CASE CompleteTransfer
  BY <1>1, CompleteTransferKeepsStream
<1>2. CASE Overrun
  BY <1>2, OverrunKeepsStream
<1>3. CASE HandleTransferCompletion
  BY <1>3, HandleTransferCompletionKeepsStream
<1>4. CASE QueueAgain
  BY <1>4, QueueAgainKeepsStream
<1>5. CASE checkForPackets
  BY <1>5, AnalyzerKeepsStream
<1>6. CASE Quiet \/ UNCHANGED vars
  <2>1. UNCHANGED <<line, uartSemaphore, readBuffer, transferStatus, polled,
                    ring, delivered, lost>>
    BY <1>6 DEF Quiet, vars, driverVars, taskVars, bridgeVars
  <2> QED
    BY <2>1 DEF StreamInv, PassedOn, InBuffers
<1> QED
  BY <1>1, <1>2, <1>3, <1>4, <1>5, <1>6 DEF Next, PollingTask

\* While nothing is lost the packets passed on are the first frames sent, in
\* their order, and what follows them is complete: in the ring buffer, in the
\* read buffers of the two transfers, or still on the line.
THEOREM StreamInvariant == Spec => [](TypeInv /\ StreamInv)
<1>1. Init => TypeInv /\ StreamInv
  BY TypeInvInit, StreamInvInit
<1>2. TypeInv /\ StreamInv /\ [Next]_vars => (TypeInv /\ StreamInv)'
  BY TypeInvStep, StreamInvStep
<1> QED
  BY <1>1, <1>2, PTL DEF Spec

\* Nothing is dropped, repeated or swapped between the line and the distributor
\* as long as no transfer fails, for any frames, chunks and interleaving of the
\* driver, the polling task and the analyzer.
THEOREM StreamStaysIntact == Spec => []StreamIntact
<1>1. TypeInv /\ StreamInv => StreamIntact
  BY StreamInvIsEnough
<1> QED
  BY <1>1, StreamInvariant, PTL
=============================================================================
