---------------------------- MODULE BridgeProofs ----------------------------
(***************************************************************************)
(* What the bridge does to the two streams, for every controller, every    *)
(* sequence of packets and every size of the buffers: frames come out of   *)
(* the byte stream whole, in order and once, and no packet vanishes in a   *)
(* cancelled read.                                                         *)
(*                                                                         *)
(* Both properties speak of FlattenSeq, which is recursive.  The library's *)
(* induction theorems take a predicate; LeastNumber and what follows from  *)
(* it take a set, which says the same of one.                              *)
(***************************************************************************)
EXTENDS Bridge, SequenceTheorems, WellFoundedInduction, TLAPS

-----------------------------------------------------------------------------
(* Induction.                                                              *)

\* A set of numbers that is not empty has a least one.
LEMMA LeastNumber ==
  ASSUME NEW T, T \subseteq Nat, T # {}
  PROVE  \E x \in T : \A y \in T : ~(y < x)
  <1> DEFINE R == {ss \in Nat \X Nat : ss[1] < ss[2]}
  <1>1. IsWellFoundedOn({ss \in Nat \X Nat : ss[1] < ss[2]}, Nat)
    BY NatLessThanWellFounded DEF OpToRel
  <1>2. \E x \in T : \A y \in T : ~(<<y, x>> \in R)
    BY <1>1, WFMin
  <1>3. \A y, x \in Nat : y < x => <<y, x>> \in R
    OBVIOUS
  <1> QED BY <1>2, <1>3

\* Induction, for a set in place of a predicate.
LEMMA NumberInduction ==
  ASSUME NEW T, 0 \in T, \A n \in Nat : n \in T => n + 1 \in T
  PROVE  Nat \subseteq T
  <1> SUFFICES ASSUME Nat \ T # {} PROVE FALSE
    OBVIOUS
  <1>1. PICK x \in Nat \ T : \A y \in Nat \ T : ~(y < x)
    BY LeastNumber
  <1>2. x # 0 /\ x - 1 \in Nat /\ x - 1 < x /\ (x - 1) + 1 = x
    BY <1>1
  <1> QED BY <1>1, <1>2

\* The same for sequences.
LEMMA SequenceInduction ==
  ASSUME NEW S, NEW T, <<>> \in T,
         \A s \in Seq(S), e \in S : s \in T => Append(s, e) \in T
  PROVE  Seq(S) \subseteq T
  <1> DEFINE N == {n \in Nat : \A s \in Seq(S) : Len(s) = n => s \in T}
  <1>1. 0 \in N
    BY EmptySeq
  <1>2. ASSUME NEW n \in Nat, n \in N PROVE n + 1 \in N
    <2> SUFFICES ASSUME NEW s \in Seq(S), Len(s) = n + 1 PROVE s \in T
      OBVIOUS
    <2>1. s # <<>>
      BY EmptySeq
    <2>2. PICK t \in Seq(S), e \in S : s = Append(t, e)
      BY <2>1, SequenceEmptyOrAppend
    <2>3. Len(t) = n
      BY <2>2, AppendProperties, LenProperties
    <2> QED BY <1>2, <2>2, <2>3
  <1>3. Nat \subseteq N
    <2> HIDE DEF N
    <2> QED BY <1>1, <1>2, NumberInduction
  <1> QED BY <1>3, LenProperties

-----------------------------------------------------------------------------
(* FlattenSeq.                                                             *)

\* The function in FlattenSeq, as a predicate.
Flattens(f, s) == f = [i \in 1..Len(s) |-> IF i = 1 THEN s[i] ELSE f[i - 1] \o s[i]]
Flat(s) == CHOOSE f : f = [i \in 1..Len(s) |-> IF i = 1 THEN s[i] ELSE f[i - 1] \o s[i]]

\* FlattenSeq is the function of the library's recursive definition, read at the end.
LEMMA FlattenIsFlat ==
  ASSUME NEW s
  PROVE  FlattenSeq(s) = IF Len(s) = 0 THEN s ELSE Flat(s)[Len(s)]
  BY DEF FlattenSeq, Flat

\* With one more at the end the function is the same up to there.
LEMMA FlatExtends ==
  ASSUME NEW B, NEW s \in Seq(B), NEW e \in B, NEW f, Flattens(f, s)
  PROVE  Flattens([i \in 1..(Len(s) + 1) |->
                     IF i <= Len(s) THEN f[i] ELSE IF Len(s) = 0 THEN e ELSE f[Len(s)] \o e],
                  Append(s, e))
  <1> DEFINE t == Append(s, e)
             g == [i \in 1..(Len(s) + 1) |->
                     IF i <= Len(s) THEN f[i] ELSE IF Len(s) = 0 THEN e ELSE f[Len(s)] \o e]
  <1>1. /\ Len(t) = Len(s) + 1 /\ Len(s) \in Nat
        /\ \A i \in 1..Len(s) : t[i] = s[i]
        /\ t[Len(s) + 1] = e
    BY AppendProperties, LenProperties
  <1>2. \A i \in 1..Len(s) : f[i] = IF i = 1 THEN s[i] ELSE f[i - 1] \o s[i]
    BY DEF Flattens
  <1>3. \A i \in 1..Len(t) : g[i] = IF i = 1 THEN t[i] ELSE g[i - 1] \o t[i]
    <2> SUFFICES ASSUME NEW i \in 1..Len(t) PROVE g[i] = IF i = 1 THEN t[i] ELSE g[i - 1] \o t[i]
      OBVIOUS
    <2>1. CASE i <= Len(s)
      BY <1>1, <1>2, <2>1
    <2>2. CASE i = Len(s) + 1
      BY <1>1, <2>2
    <2> QED BY <1>1, <2>1, <2>2
  <1> HIDE DEF t
  <1>4. g = [i \in 1..Len(t) |-> IF i = 1 THEN t[i] ELSE g[i - 1] \o t[i]]
    <2>1. g = [i \in 1..Len(t) |-> g[i]]
      BY <1>1
    <2> HIDE DEF g
    <2> QED BY <1>3, <2>1
  <1> QED BY <1>4 DEF Flattens, t

\* Two functions that flatten the same sequence agree.
LEMMA FlatUnique ==
  ASSUME NEW s, Len(s) \in Nat, NEW f, NEW g, Flattens(f, s), Flattens(g, s)
  PROVE  f = g
  <1> DEFINE N == {n \in Nat : n \in 1..Len(s) => f[n] = g[n]}
  <1>1. \A i \in 1..Len(s) : /\ f[i] = IF i = 1 THEN s[i] ELSE f[i - 1] \o s[i]
                             /\ g[i] = IF i = 1 THEN s[i] ELSE g[i - 1] \o s[i]
    BY DEF Flattens
  <1>2. 0 \in N
    OBVIOUS
  <1>3. ASSUME NEW n \in Nat, n \in N PROVE n + 1 \in N
    <2> SUFFICES ASSUME n + 1 \in 1..Len(s) PROVE f[n + 1] = g[n + 1]
      OBVIOUS
    <2>1. CASE n = 0
      BY <1>1, <2>1
    <2>2. CASE n # 0
      <3>1. n \in 1..Len(s) /\ n + 1 # 1 /\ (n + 1) - 1 = n
        BY <2>2
      <3>2. f[n] = g[n]
        BY <1>3, <3>1
      <3>3. f[n + 1] = f[n] \o s[n + 1] /\ g[n + 1] = g[n] \o s[n + 1]
        BY <1>1, <3>1
      <3> QED BY <3>2, <3>3
    <2> QED BY <2>1, <2>2
  <1>4. Nat \subseteq N
    <2> HIDE DEF N
    <2> QED BY <1>2, <1>3, NumberInduction
  <1>5. \A i \in 1..Len(s) : f[i] = g[i]
    BY <1>4
  <1> QED
    <2>1. f = [i \in 1..Len(s) |-> f[i]] /\ g = [i \in 1..Len(s) |-> g[i]]
      BY DEF Flattens
    <2> QED BY <1>5, <2>1

\* The function exists for every sequence of sequences.
LEMMA FlatExists ==
  ASSUME NEW B
  PROVE  \A s \in Seq(B) : Flattens(Flat(s), s)
  <1> DEFINE T == {s \in Seq(B) : \E f : Flattens(f, s)}
  <1>1. <<>> \in T
    <2>1. Flattens(<<>>, <<>>)
      BY EmptySeq DEF Flattens
    <2> QED BY <2>1, EmptySeq
  <1>2. ASSUME NEW s \in Seq(B), NEW e \in B, s \in T PROVE Append(s, e) \in T
    BY <1>2, FlatExtends, AppendProperties
  <1>3. Seq(B) \subseteq T
    <2> HIDE DEF T
    <2> QED BY <1>1, <1>2, SequenceInduction
  <1>4. \A s : (\E f : Flattens(f, s)) => Flattens(Flat(s), s)
    BY DEF Flattens, Flat
  <1> QED BY <1>3, <1>4

\* What follows is all that is known of FlattenSeq: for no sequence, and for one more.
LEMMA FlattenEmpty == FlattenSeq(<<>>) = <<>>
  BY DEF FlattenSeq

\* Flattening a sequence is flattening all but its last, then the last.
LEMMA FlattenLast ==
  ASSUME NEW B, NEW s \in Seq(B), NEW e \in B
  PROVE  FlattenSeq(Append(s, e)) = IF s = <<>> THEN e ELSE FlattenSeq(s) \o e
  <1> DEFINE t == Append(s, e)
             f == Flat(s)
             g == [i \in 1..(Len(s) + 1) |->
                     IF i <= Len(s) THEN f[i] ELSE IF Len(s) = 0 THEN e ELSE f[Len(s)] \o e]
  <1>1. t \in Seq(B) /\ Len(t) = Len(s) + 1 /\ Len(s) \in Nat
    BY AppendProperties, LenProperties
  <1>2. Flattens(f, s) /\ Flattens(Flat(t), t)
    BY <1>1, FlatExists
  <1>3. Flattens(g, t)
    <2> HIDE DEF f
    <2> QED BY <1>2, FlatExtends
  <1>4. Flat(t) = g
    <2> HIDE DEF g, t
    <2> QED BY <1>1, <1>2, <1>3, FlatUnique
  <1>5. FlattenSeq(t) = g[Len(s) + 1]
    <2> HIDE DEF g, t
    <2> QED BY <1>1, <1>4, FlattenIsFlat
  <1>6. g[Len(s) + 1] = IF Len(s) = 0 THEN e ELSE f[Len(s)] \o e
    <2> HIDE DEF f
    <2> QED BY <1>1
  <1>7. Len(s) # 0 => FlattenSeq(s) = f[Len(s)]
    BY FlattenIsFlat
  <1>8. s = <<>> <=> Len(s) = 0
    BY EmptySeq
  <1> HIDE DEF f, g, t
  <1> QED BY <1>5, <1>6, <1>7, <1>8 DEF t

\* The members of the members.
LEMMA FlattenType ==
  ASSUME NEW S
  PROVE  \A s \in Seq(Seq(S)) : FlattenSeq(s) \in Seq(S)
  <1> DEFINE T == {s \in Seq(Seq(S)) : FlattenSeq(s) \in Seq(S)}
  <1>1. <<>> \in T
    BY FlattenEmpty, EmptySeq
  <1>2. ASSUME NEW s \in Seq(Seq(S)), NEW e \in Seq(S), s \in T PROVE Append(s, e) \in T
    BY <1>2, FlattenLast, AppendProperties, ConcatProperties
  <1>3. Seq(Seq(S)) \subseteq T
    <2> HIDE DEF T
    <2> QED BY <1>1, <1>2, SequenceInduction
  <1> QED BY <1>3

\* Appending a sequence to what is flattened appends its elements.
LEMMA FlattenAppend ==
  ASSUME NEW S, NEW s \in Seq(Seq(S)), NEW e \in Seq(S)
  PROVE  FlattenSeq(Append(s, e)) = FlattenSeq(s) \o e
  <1>1. FlattenSeq(Append(s, e)) = IF s = <<>> THEN e ELSE FlattenSeq(s) \o e
    BY FlattenLast
  <1>2. <<>> \o e = e
    BY ConcatEmptySeq
  <1> QED BY <1>1, <1>2, FlattenEmpty

\* A single sequence flattens to itself.
LEMMA FlattenOne ==
  ASSUME NEW S, NEW e \in Seq(S)
  PROVE  FlattenSeq(<<e>>) = e
  <1>1. <<e>> = Append(<<>>, e) /\ <<>> \in Seq(Seq(S))
    BY EmptySeq
  <1> QED BY <1>1, FlattenLast

\* Flattening one sequence after another.
LEMMA FlattenConcat ==
  ASSUME NEW S, NEW s \in Seq(Seq(S))
  PROVE  \A t \in Seq(Seq(S)) : FlattenSeq(s \o t) = FlattenSeq(s) \o FlattenSeq(t)
  <1>1. \A x, y, z \in Seq(Seq(S)) : (x \o y) \o z = x \o (y \o z)
    BY ConcatAssociative
  <1> DEFINE T == {t \in Seq(Seq(S)) : FlattenSeq(s \o t) = FlattenSeq(s) \o FlattenSeq(t)}
  <1>2. <<>> \in T
    BY FlattenEmpty, FlattenType, ConcatEmptySeq, EmptySeq
  <1>3. ASSUME NEW t \in Seq(Seq(S)), NEW e \in Seq(S), t \in T PROVE Append(t, e) \in T
    <2>1. s \o Append(t, e) = Append(s \o t, e)
      <3>1. /\ Append(t, e) = t \o <<e>> /\ Append(s \o t, e) = (s \o t) \o <<e>>
            /\ <<e>> \in Seq(Seq(S))
        BY AppendIsConcat, ConcatProperties
      <3>2. (s \o t) \o <<e>> = s \o (t \o <<e>>)
        <4> DEFINE one == <<e>>
        <4>1. s \in Seq(Seq(S)) /\ t \in Seq(Seq(S)) /\ one \in Seq(Seq(S))
          BY <3>1
        <4> HIDE DEF one
        <4>2. (s \o t) \o one = s \o (t \o one)
          BY ONLY <1>1, <4>1
        <4> QED BY <4>2 DEF one
      <3> QED BY <3>1, <3>2
    <2>2. FlattenSeq(Append(s \o t, e)) = FlattenSeq(s \o t) \o e
      BY FlattenAppend, ConcatProperties
    <2>3. FlattenSeq(Append(t, e)) = FlattenSeq(t) \o e
      BY FlattenAppend
    <2>4. (FlattenSeq(s) \o FlattenSeq(t)) \o e = FlattenSeq(s) \o (FlattenSeq(t) \o e)
      BY FlattenType, ConcatAssociative
    <2> QED BY <1>3, <2>1, <2>2, <2>3, <2>4, AppendProperties
  <1>4. Seq(Seq(S)) \subseteq T
    <2> HIDE DEF T
    <2> QED BY <1>2, <1>3, SequenceInduction
  <1> QED BY <1>4

-----------------------------------------------------------------------------
(* Sequences and numbers.                                                  *)

LEMMA SplitAt ==
  ASSUME NEW S, NEW s \in Seq(S), NEW n \in 0..Len(s)
  PROVE  /\ SubSeq(s, 1, n) \in Seq(S) /\ SubSeq(s, n + 1, Len(s)) \in Seq(S)
         /\ s = SubSeq(s, 1, n) \o SubSeq(s, n + 1, Len(s))
  <1>1. Len(s) \in Nat /\ \A i \in 1..Len(s) : s[i] \in S
    BY LenProperties, ElementOfSeq
  <1>2. SubSeq(s, 1, n) \in Seq(S) /\ SubSeq(s, n + 1, Len(s)) \in Seq(S)
    BY <1>1, SubSeqProperties
  <1>3. SubSeq(s, 1, n) \o SubSeq(s, n + 1, Len(s)) = SubSeq(s, 1, Len(s))
    <2>1. 1 \in 1..(Len(s) + 1) /\ n \in (1 - 1)..Len(s) /\ Len(s) \in n..Len(s)
      BY <1>1
    <2> QED BY <2>1, ConcatAdjacentSubSeq
  <1> QED BY <1>2, <1>3, SubSeqFull

\* Buffers one after the other, in whatever grouping, are the same stream.
LEMMA BytesRegroup == \A x, y, z \in Seq(Bytes) : (x \o y) \o z = x \o (y \o z)
  BY ConcatAssociative

\* Streams of bytes may be joined.
LEMMA BytesConcat == \A x, y \in Seq(Bytes) : x \o y \in Seq(Bytes)
  BY ConcatProperties

\* A sequence is its first element, then the rest.
LEMMA HeadThenTail ==
  ASSUME NEW S, NEW s \in Seq(S), s # <<>>
  PROVE  /\ Head(s) \in S /\ Tail(s) \in Seq(S)
         /\ s = <<Head(s)>> \o Tail(s)
  <1>1. Len(s) \in Nat \ {0} /\ Head(s) \in S /\ Tail(s) \in Seq(S)
    BY EmptySeq, HeadTailProperties
  <1>2. Head(s) = s[1] /\ Tail(s) = SubSeq(s, 2, Len(s))
    BY TailIsSubSeq
  <1>3. SubSeq(s, 1, Len(s)) = <<s[1]>> \o SubSeq(s, 2, Len(s))
    BY <1>1, SubSeqRecursiveFirst
  <1> QED BY <1>1, <1>2, <1>3, SubSeqFull

\* The amount Fill takes.
LEMMA LeastOfThree ==
  ASSUME NEW a \in Int, NEW b \in Int, NEW c \in Int
  PROVE  Min({a, b, c}) \in Int /\ Min({a, b, c}) <= a
  <1>1. \E x \in {a, b, c} : \A y \in {a, b, c} : x =< y
    <2>1. CASE a =< b /\ a =< c
      BY <2>1
    <2>2. CASE b =< a /\ b =< c
      BY <2>2
    <2>3. CASE c =< a /\ c =< b
      BY <2>3
    <2> QED BY <2>1, <2>2, <2>3
  <1>2. Min({a, b, c}) \in {a, b, c} /\ \A y \in {a, b, c} : Min({a, b, c}) =< y
    BY <1>1 DEF Min
  <1> QED BY <1>2

-----------------------------------------------------------------------------
(* Framing.                                                                *)

\* The script reads a header as H4 means it.
LEMMA ReadsH4 ==
  ASSUME NEW f, f[1] \in H4_COMMAND..H4_ISO
  PROVE  HeaderLength(f[1]) = Header(f) /\ BodyLength(f) = Stated(f)
  <1> USE DEF H4_COMMAND, H4_ACL, H4_SCO, H4_EVENT, H4_ISO
  <1>1. f[1] \in {1, 2, 3, 4, 5}
    OBVIOUS
  <1> QED BY <1>1 DEF HeaderLength, BodyLength, Header, Stated

\* Two streams that are equal begin with the same bytes.
LEMMA SameStart ==
  ASSUME NEW S, NEW a \in Seq(S), NEW t \in Seq(S), NEW f \in Seq(S), NEW r \in Seq(S),
         a \o t = f \o r
  PROVE  \A i \in 1..Len(a) : i <= Len(f) => a[i] = f[i]
  <1>1. Len(a) \in Nat /\ Len(f) \in Nat /\ Len(t) \in Nat /\ Len(r) \in Nat
    BY LenProperties
  <1>2. \A i \in 1..(Len(a) + Len(t)) : (a \o t)[i] = IF i <= Len(a) THEN a[i] ELSE t[i - Len(a)]
    BY ConcatProperties
  <1>3. \A i \in 1..(Len(f) + Len(r)) : (f \o r)[i] = IF i <= Len(f) THEN f[i] ELSE r[i - Len(f)]
    BY ConcatProperties
  <1>4. ASSUME NEW i \in 1..Len(a), i <= Len(f) PROVE a[i] = f[i]
    <2>1. i \in 1..(Len(a) + Len(t)) /\ i <= Len(a)
      BY <1>1
    <2>2. i \in 1..(Len(f) + Len(r))
      BY <1>1, <1>4
    <2>3. (a \o t)[i] = a[i]
      BY <1>2, <2>1
    <2>4. (f \o r)[i] = f[i]
      BY <1>3, <1>4, <2>2
    <2> QED BY <2>3, <2>4
  <1> QED BY <1>4

\* A frame the script sees at the start of its accumulator is the one the controller
\* sent, whatever has arrived behind it.
LEMMA CutsTheFrame ==
  ASSUME NEW a \in Seq(Bytes), NEW t \in Seq(Bytes), NEW f \in Seq(Bytes), NEW r \in Seq(Bytes),
         a \o t = f \o r,
         a # <<>>, Known(a), H4FrameLength(a) > 0,
         f # <<>>,
         f[1] \in H4_COMMAND..H4_ISO => Whole(f) \/ (r = <<>> /\ Begun(f))
  PROVE  /\ H4FrameLength(a) \in 0..Len(a)
         /\ SubSeq(a, 1, H4FrameLength(a)) = f
  <1> DEFINE n == H4FrameLength(a)
             h == Header(f)
  <1>1. /\ Len(a) \in Nat \ {0} /\ Len(f) \in Nat \ {0} /\ Len(t) \in Nat /\ Len(r) \in Nat
        /\ \A i \in 1..Len(a) : a[i] \in Nat
    <2>1. \A i \in 1..Len(a) : a[i] \in Bytes
      BY ElementOfSeq
    <2>2. Len(a) \in Nat \ {0} /\ Len(f) \in Nat \ {0}
      BY EmptySeq
    <2>3. Len(t) \in Nat /\ Len(r) \in Nat
      BY LenProperties
    <2>4. Bytes \subseteq Nat
      BY DEF Bytes
    <2> QED BY <2>1, <2>2, <2>3, <2>4
  <1>2. \A i \in 1..Len(a) : i <= Len(f) => a[i] = f[i]
    BY SameStart
  <1>3. a[1] = f[1] /\ f[1] \in H4_COMMAND..H4_ISO
    <2>1. a[1] = f[1]
      BY <1>1, <1>2
    <2> QED BY <2>1 DEF Known, H4_COMMAND, H4_ACL, H4_SCO, H4_EVENT, H4_ISO
  <1>4. h \in 3..5 /\ HeaderLength(a[1]) = h /\ HeaderLength(f[1]) = h /\ BodyLength(f) = Stated(f)
    <2>1. f[1] \in {1, 2, 3, 4, 5}
      BY <1>3 DEF H4_COMMAND, H4_ISO
    <2>2. Header(f) \in 3..5
      BY <2>1 DEF Header, H4_COMMAND, H4_ACL, H4_SCO, H4_EVENT, H4_ISO
    <2> QED BY <1>3, <2>2, ReadsH4
  <1>5. Len(a) >= h /\ BodyLength(a) \in Nat /\ n = h + BodyLength(a) /\ Len(a) >= n
    <2>1. Len(a) >= h
      BY <1>1, <1>4 DEF H4FrameLength
    <2>2. BodyLength(a) \in Nat
      <3>1. a[h] \in Nat /\ (h = 5 => a[4] \in Nat /\ a[5] \in Nat)
        <4>1. h \in 1..Len(a) /\ (h = 5 => 4 \in 1..Len(a) /\ 5 \in 1..Len(a))
          BY <1>1, <1>4, <2>1
        <4> HIDE DEF h
        <4> QED BY <1>1, <4>1
      <3>2. h = 5 => a[4] + 256 * a[5] \in Nat /\ (a[4] + 256 * a[5]) % 16384 \in Nat
        <4> DEFINE word == a[4] + 256 * a[5]
        <4>1. \A w \in Nat : w % 16384 \in Nat
          OBVIOUS
        <4>2. h = 5 => word \in Nat
          <5>1. \A x, y \in Nat : x + 256 * y \in Nat
            OBVIOUS
          <5> HIDE DEF h
          <5> QED BY <3>1, <5>1
        <4> HIDE DEF h, word
        <4>3. h = 5 => word \in Nat /\ word % 16384 \in Nat
          BY <4>1, <4>2
        <4> QED BY <4>3 DEF word
      <3>3. a[1] \in {H4_ACL, H4_ISO} => h = 5
        BY <1>4 DEF HeaderLength
      <3> HIDE DEF h
      <3>4. CASE a[1] = H4_ACL
        BY <3>2, <3>3, <3>4 DEF BodyLength
      <3>5. CASE a[1] = H4_ISO /\ a[1] # H4_ACL
        BY <3>2, <3>3, <3>5 DEF BodyLength
      <3>6. CASE a[1] \notin {H4_ACL, H4_ISO}
        <4>1. BodyLength(a) = a[HeaderLength(a[1])]
          BY <3>6 DEF BodyLength
        <4> QED BY <1>4, <3>1, <4>1
      <3> QED BY <3>4, <3>5, <3>6
    <2> QED BY <1>1, <1>4, <2>1, <2>2 DEF H4FrameLength
  <1>6. Len(f) >= h => BodyLength(a) = BodyLength(f)
    <2> SUFFICES ASSUME Len(f) >= h PROVE BodyLength(a) = BodyLength(f)
      OBVIOUS
    <2>1. a[h] = f[h] /\ (h = 5 => a[4] = f[4] /\ a[5] = f[5])
      <3>1. h \in 1..Len(a) /\ h <= Len(f) /\ (h = 5 => 4 \in 1..Len(a) /\ 5 \in 1..Len(a) /\ 4 <= Len(f))
        BY <1>1, <1>4, <1>5
      <3> HIDE DEF h
      <3> QED BY <1>2, <3>1
    <2>2. HeaderLength(f[1]) = h
      BY <1>4
    <2> HIDE DEF h
    <2> QED BY <1>3, <2>1, <2>2 DEF BodyLength, HeaderLength, H4_COMMAND, H4_ACL, H4_SCO, H4_EVENT, H4_ISO
  <1>7. Len(f) = n
    <2>1. CASE Whole(f)
      BY <1>4, <1>5, <1>6, <2>1 DEF Whole
    <2>2. CASE r = <<>> /\ Begun(f)
      <3>1. f = a \o t /\ Len(f) = Len(a) + Len(t)
        BY <2>2, ConcatEmptySeq, ConcatProperties
      <3>2. Len(f) >= h /\ Len(f) >= h + Stated(f)
        <4>1. Len(f) >= h
          <5>1. Len(f) = Len(a) + Len(t) /\ Len(a) >= h
            BY <1>5, <3>1
          <5> HIDE DEF h
          <5> QED BY <1>1, <1>4, <5>1
        <4>2. Stated(f) = BodyLength(a)
          BY <1>4, <1>6, <4>1
        <4> HIDE DEF h, n
        <4> QED BY <1>1, <1>4, <1>5, <3>1, <4>1, <4>2
      <3>3. Stated(f) \in Nat
        BY <1>4, <1>5, <1>6, <3>2, <1>1
      <3> QED BY <1>1, <1>4, <2>2, <3>2, <3>3 DEF Begun
    <2> QED BY <1>3, <2>1, <2>2
  <1>8. n \in 0..Len(a)
    BY <1>1, <1>5, <1>7
  <1>9. SubSeq(a, 1, n) = f
    <2> HIDE DEF n
    <2>1. /\ SubSeq(a, 1, n) \in Seq(Bytes)
          /\ Len(SubSeq(a, 1, n)) = n
          /\ \A i \in 1..n : SubSeq(a, 1, n)[i] = a[i]
      <3>1. \A i \in 1..n : a[i] \in Bytes
        BY <1>1, <1>8, ElementOfSeq
      <3>2. /\ SubSeq(a, 1, n) \in Seq(Bytes)
            /\ Len(SubSeq(a, 1, n)) = IF 1 <= n THEN n - 1 + 1 ELSE 0
            /\ \A i \in 1..(n - 1 + 1) : SubSeq(a, 1, n)[i] = a[1 + i - 1]
        BY <1>8, <3>1, SubSeqProperties
      <3> QED BY <1>1, <1>7, <3>2
    <2>2. \A i \in 1..n : a[i] = f[i]
      BY <1>1, <1>2, <1>7, <1>8
    <2> QED BY <1>7, <2>1, <2>2, SeqEqual
  <1> QED BY <1>8, <1>9

-----------------------------------------------------------------------------
(* The inductive invariant.                                                *)

\* Where the bytes are, and what Parse has seen when a frame is written.
StreamInv ==
  /\ Len(handed) <= Len(script) /\ handed = SubSeq(script, 1, Len(handed))
  /\ FlattenSeq(handed) \o acc \o socket \o unsent = FlattenSeq(script)
  /\ at = "write" => acc # <<>> /\ Known(acc) /\ H4FrameLength(acc) > 0

\* Which states of the read go with which place of the loop, and when it holds a packet.
ReadInv ==
  /\ devBuf # NoPacket <=> request \in {"taken", "done"}
  /\ request = "pending" => queued = <<>>
  /\ at \in {"poll", "read", "fill", "parse", "write"} => request = "none"
  /\ at = "wait" => request \in {"pending", "taken", "done"}
  /\ at = "reap" => request \in {"taken", "done", "aborted"}
  /\ at = "forward" => request = "done"
  /\ at = "closed" <=> ended # "no"

IInv == TypeOK /\ StreamInv /\ ReadInv /\ NothingVanishes

\* The script that runs is one of the constant's, a sequence of frames of bytes.
LEMMA ScriptType == TypeOK => script \in Seq(Seq(Bytes)) /\ Len(script) \in Nat
  <1> SUFFICES ASSUME TypeOK PROVE script \in Seq(Seq(Bytes)) /\ Len(script) \in Nat
    OBVIOUS
  <1>1. script \in Seq(Seq(Bytes))
    BY BridgeAssumption DEF TypeOK, Bytes
  <1> QED BY <1>1, LenProperties

\* When a frame is written it is the script's next one.
LEMMA NextFrame ==
  ASSUME TypeOK, StreamInv, at = "write"
  PROVE  /\ H4FrameLength(acc) \in 0..Len(acc)
         /\ Len(handed) + 1 \in 1..Len(script)
         /\ SubSeq(acc, 1, H4FrameLength(acc)) = script[Len(handed) + 1]
         /\ script[Len(handed) + 1] \in Seq(Bytes)
  <1> DEFINE k == Len(handed)
             sent == FlattenSeq(handed)
             frame == script[k + 1]
             rest == SubSeq(script, k + 1, Len(script))
             later == SubSeq(script, k + 2, Len(script))
             t == socket \o unsent
  <1>1. /\ script \in Seq(Seq(Bytes)) /\ Len(script) \in Nat
        /\ k \in 0..Len(script)
        /\ handed = SubSeq(script, 1, k)
    BY ScriptType, LenProperties DEF TypeOK, StreamInv
  <1>2. /\ acc \in Seq(Bytes) /\ socket \in Seq(Bytes) /\ unsent \in Seq(Bytes) /\ t \in Seq(Bytes)
        /\ handed \in Seq(Seq(Bytes)) /\ sent \in Seq(Bytes)
    BY FlattenType, ConcatProperties DEF TypeOK
  <1>3. rest \in Seq(Seq(Bytes)) /\ FlattenSeq(rest) \in Seq(Bytes) /\ FlattenSeq(script) = sent \o FlattenSeq(rest)
    <2>1. rest \in Seq(Seq(Bytes)) /\ script = handed \o rest
      <3> HIDE DEF k
      <3> QED BY <1>1, SplitAt
    <2> HIDE DEF rest
    <2> QED BY <1>2, <2>1, FlattenConcat, FlattenType
  <1>4. acc \o t = FlattenSeq(rest)
    <2>1. sent \o (acc \o t) = ((sent \o acc) \o socket) \o unsent
      <3> HIDE DEF sent
      <3>1. sent \o (acc \o t) = (sent \o acc) \o t
        <4>1. sent \in Seq(Bytes) /\ acc \in Seq(Bytes) /\ t \in Seq(Bytes)
          BY <1>2
        <4> HIDE DEF t
        <4> QED BY <4>1, BytesRegroup
      <3>2. (sent \o acc) \o t = ((sent \o acc) \o socket) \o unsent
        <4> DEFINE x == sent \o acc
        <4>1. x \in Seq(Bytes)
          BY <1>2, BytesConcat
        <4> HIDE DEF x
        <4>2. socket \in Seq(Bytes) /\ unsent \in Seq(Bytes)
          BY <1>2
        <4>3. (x \o socket) \o unsent = x \o (socket \o unsent)
          BY ONLY <4>1, <4>2, BytesRegroup
        <4> QED BY <4>3 DEF x
      <3> QED BY <3>1, <3>2
    <2>2. sent \o (acc \o t) = sent \o FlattenSeq(rest)
      BY <1>3, <2>1 DEF StreamInv
    <2>3. acc \o t \in Seq(Bytes)
      BY <1>2, ConcatProperties
    <2>4. \A u, v, w \in Seq(Bytes) : u \o v = u \o w => v = w
      BY ConcatSimplifications
    <2> HIDE DEF sent, rest, t
    <2> QED BY <1>2, <1>3, <2>2, <2>3, <2>4
  <1>5. k + 1 \in 1..Len(script)
    <2>1. acc \o t # <<>>
      <3> HIDE DEF t
      <3> QED BY <1>2, ConcatEqualIffEmpty DEF StreamInv
    <2>2. rest # <<>>
      <3> HIDE DEF rest
      <3> QED BY <1>4, <2>1, FlattenEmpty
    <2>3. k = Len(script) => rest = <<>>
      BY <1>1, SubSeqEmpty
    <2> QED BY <1>1, <2>2, <2>3
  <1>6. frame \in Seq(Bytes)
    <2> HIDE DEF k
    <2> QED BY <1>1, <1>5, ElementOfSeq
  <1>7. later \in Seq(Seq(Bytes)) /\ (k + 1 = Len(script) => later = <<>>) /\ rest = <<frame>> \o later
    <2>1. later \in Seq(Seq(Bytes))
      <3>1. \A i \in (k + 2)..Len(script) : script[i] \in Seq(Bytes)
        BY <1>1, ElementOfSeq
      <3> HIDE DEF k
      <3> QED BY <1>1, <3>1, SubSeqProperties
    <2>2. k + 1 = Len(script) => later = <<>>
      BY <1>1, SubSeqEmpty
    <2>3. rest = <<frame>> \o later
      <3>1. k + 1 \in 1..Len(script) /\ Len(script) \in (k + 1)..Len(script) /\ (k + 1) + 1 = k + 2
        BY <1>1, <1>5
      <3> HIDE DEF k
      <3>2. SubSeq(script, k + 1, Len(script)) = <<script[k + 1]>> \o SubSeq(script, (k + 1) + 1, Len(script))
        BY <1>1, <3>1, SubSeqRecursiveFirst
      <3> QED BY <3>1, <3>2
    <2> QED BY <2>1, <2>2, <2>3
  <1>8. acc \o t = frame \o FlattenSeq(later) /\ FlattenSeq(later) \in Seq(Bytes)
    <2> HIDE DEF rest, later, frame
    <2>1. <<frame>> \in Seq(Seq(Bytes))
      BY <1>6
    <2>2. FlattenSeq(rest) = FlattenSeq(<<frame>>) \o FlattenSeq(later)
      BY <1>7, <2>1, FlattenConcat
    <2> QED BY <1>4, <1>6, <1>7, <2>2, FlattenOne, FlattenType
  <1>9. /\ frame # <<>>
        /\ frame[1] \in H4_COMMAND..H4_ISO => Whole(frame) \/ (FlattenSeq(later) = <<>> /\ Begun(frame))
    <2>1. /\ frame # <<>>
          /\ frame[1] \in H4_COMMAND..H4_ISO => Whole(frame) \/ (k + 1 = Len(script) /\ Begun(frame))
      <3> HIDE DEF k
      <3> QED BY <1>5, ScriptAssumption DEF TypeOK
    <2> HIDE DEF frame, later, k
    <2> QED BY <1>7, <2>1, FlattenEmpty
  <1> HIDE DEF frame, later, t
  <1>10. H4FrameLength(acc) \in 0..Len(acc) /\ SubSeq(acc, 1, H4FrameLength(acc)) = frame
    BY <1>2, <1>6, <1>8, <1>9, CutsTheFrame DEF StreamInv
  <1> QED BY <1>5, <1>6, <1>10 DEF frame

-----------------------------------------------------------------------------
(* The invariant holds initially and is kept.                              *)

\* What the network and Fill take from one buffer to the next.
LEMMA FillTakes ==
  ASSUME TypeOK, NEW n, n = Min({Len(socket), Accumulator - Len(acc), NetBuffer}), n > 0
  PROVE  n \in 0..Len(socket)
  <1>1. Len(socket) \in Nat /\ Len(acc) \in Nat
    BY LenProperties DEF TypeOK
  <1>2. Accumulator - Len(acc) \in Int /\ NetBuffer \in Int
    BY <1>1, BridgeAssumption
  <1>3. n \in Int /\ n <= Len(socket)
    <2> DEFINE x == Len(socket)
               y == Accumulator - Len(acc)
    <2>1. x \in Int /\ y \in Int /\ NetBuffer \in Int
      BY <1>1, <1>2
    <2> HIDE DEF x, y
    <2>2. Min({x, y, NetBuffer}) \in Int /\ Min({x, y, NetBuffer}) <= x
      BY <2>1, LeastOfThree, Zenon
    <2> QED BY <2>2 DEF x, y
  <1> QED BY <1>1, <1>3

\* The initial states are of the type, and nothing is being read.
LEMMA InitType == Init => TypeOK /\ ReadInv
  <1> SUFFICES ASSUME Init PROVE TypeOK /\ ReadInv
    OBVIOUS
  <1>1. script \in Seq(Seq(Bytes))
    BY BridgeAssumption DEF Init, Bytes
  <1>2. unsent \in Seq(Bytes)
    BY <1>1, FlattenType DEF Init
  <1>3. Offers \in Seq(Packets)
    BY BridgeAssumption DEF Packets
  <1>4. \A S : <<>> \in Seq(S)
    OBVIOUS
  <1>5. TypeOK
    BY <1>2, <1>3, <1>4 DEF Init, TypeOK
  <1>6. ReadInv
    BY DEF Init, ReadInv
  <1> QED BY <1>5, <1>6

\* At the start the whole script is still unsent.
LEMMA InitStream == Init => StreamInv
  <1> SUFFICES ASSUME Init PROVE StreamInv
    OBVIOUS
  <1>1. Len(handed) = 0 /\ Len(handed) <= Len(script) /\ FlattenSeq(handed) = <<>>
    BY InitType, ScriptType, FlattenEmpty, EmptySeq DEF Init
  <1>2. SubSeq(script, 1, 0) = <<>>
    BY SubSeqEmpty
  <1>3. unsent \in Seq(Bytes) /\ FlattenSeq(script) = unsent
    BY InitType DEF TypeOK, Init
  <1>4. ((<<>> \o <<>>) \o <<>>) \o unsent = unsent
    BY <1>3, ConcatEmptySeq, EmptySeq
  <1> QED BY <1>1, <1>2, <1>3, <1>4 DEF Init, StreamInv

\* Which packets there are, and which the request holds.
LEMMA TypeStep ==
  ASSUME TypeOK, StreamInv, ReadInv, [Next]_vars
  PROVE  TypeOK'
  <1> USE DEF network, driver, framing
  <1>1. CASE PeerSends
    <2>1. PICK n \in 1..Len(unsent) :
            /\ socket' = socket \o SubSeq(unsent, 1, n)
            /\ unsent' = SubSeq(unsent, n + 1, Len(unsent))
      BY <1>1 DEF PeerSends
    <2>2. n \in 0..Len(unsent) /\ unsent \in Seq(Bytes) /\ socket \in Seq(Bytes)
      BY DEF TypeOK
    <2>3. unsent' \in Seq(Bytes) /\ socket' \in Seq(Bytes)
      BY <2>1, <2>2, SplitAt, ConcatProperties
    <2> QED BY <1>1, <2>3 DEF PeerSends, TypeOK
  <1>2. CASE PeerCloses
    BY <1>2 DEF PeerCloses, TypeOK
  <1>3. CASE StackSends
    <2>1. offers # <<>> /\ Head(offers) \in Packets /\ offers' \in Seq(Packets)
      BY <1>3, HeadThenTail DEF StackSends, TypeOK
    <2>2. Append(queued, Head(offers)) \in Seq(Packets)
      BY <2>1, AppendProperties DEF TypeOK
    <2> QED BY <1>3, <2>1, <2>2 DEF StackSends, TypeOK
  <1>4. CASE DriverCompletes
    BY <1>4 DEF DriverCompletes, TypeOK
  <1>5. CASE Poll
    BY <1>5 DEF Poll, End, GoTo, TypeOK
  <1>6. CASE ReadFile
    <2>1. queued # <<>> => Head(queued) \in Packets /\ Tail(queued) \in Seq(Packets)
      BY HeadThenTail DEF TypeOK
    <2> QED BY <1>6, <2>1 DEF ReadFile, GoTo, TypeOK
  <1>7. CASE WaitSucceeds \/ TimeOut \/ Reap
    BY <1>7 DEF WaitSucceeds, TimeOut, Reap, GoTo, TypeOK
  <1>8. CASE Forward
    <2>1. devBuf \in Packets
      BY <1>8 DEF Forward, ReadInv, TypeOK
    <2>2. Append(toController, devBuf) \in Seq(Packets)
      BY <2>1, AppendProperties DEF TypeOK
    <2> QED BY <1>8, <2>2 DEF Forward, GoTo, TypeOK
  <1>9. CASE DeviceFails \/ SocketFails
    BY <1>9 DEF DeviceFails, SocketFails, End, TypeOK
  <1>10. CASE Fill
    <2> DEFINE n == Min({Len(socket), Accumulator - Len(acc), NetBuffer})
    <2>1. CASE n > 0
      <3>1. n \in 0..Len(socket)
        BY <2>1, FillTakes
      <3>2. acc' = acc \o SubSeq(socket, 1, n) /\ socket' = SubSeq(socket, n + 1, Len(socket)) /\ progress' = TRUE
        BY <1>10, <2>1 DEF Fill
      <3> HIDE DEF n
      <3>3. acc' \in Seq(Bytes) /\ socket' \in Seq(Bytes)
        BY <3>1, <3>2, SplitAt, ConcatProperties DEF TypeOK
      <3>4. UNCHANGED <<script, unsent, peer, driver, handed, toController, at>>
        BY <1>10, <2>1 DEF Fill, n
      <3> QED BY <3>2, <3>3, <3>4 DEF TypeOK
    <2>2. CASE ~(n > 0)
      BY <1>10, <2>2 DEF Fill, GoTo, TypeOK
    <2> QED BY <2>1, <2>2
  <1>11. CASE Parse
    BY <1>11 DEF Parse, End, GoTo, TypeOK
  <1>12. CASE WriteFrame
    <2> DEFINE n == H4FrameLength(acc)
    <2>1. n \in 0..Len(acc) /\ SubSeq(acc, 1, n) \in Seq(Bytes)
      BY <1>12, NextFrame DEF WriteFrame
    <2>2. handed' = Append(handed, SubSeq(acc, 1, n)) /\ acc' = SubSeq(acc, n + 1, Len(acc))
      BY <1>12 DEF WriteFrame
    <2> HIDE DEF n
    <2>3. handed' \in Seq(Seq(Bytes)) /\ acc' \in Seq(Bytes)
      BY <2>1, <2>2, SplitAt, AppendProperties DEF TypeOK
    <2> QED BY <1>12, <2>3 DEF WriteFrame, GoTo, TypeOK
  <1>13. CASE UNCHANGED vars
    BY <1>13 DEF vars, TypeOK
  <1> QED BY <1>1, <1>2, <1>3, <1>4, <1>5, <1>6, <1>7, <1>8, <1>9, <1>10, <1>11, <1>12, <1>13 DEF Next, Loop

\* Every step keeps what is known of the overlapped read at each place of the loop.
LEMMA ReadStep ==
  ASSUME TypeOK, ReadInv, [Next]_vars
  PROVE  ReadInv'
  <1> USE DEF network, driver, framing
  <1>1. CASE PeerSends \/ PeerCloses
    BY <1>1 DEF PeerSends, PeerCloses, ReadInv
  <1>2. CASE StackSends
    <2>1. Head(offers) \in Packets /\ Head(offers) # NoPacket
      BY <1>2, HeadThenTail, BridgeAssumption DEF StackSends, TypeOK, Packets
    <2> QED BY <1>2, <2>1 DEF StackSends, ReadInv
  <1>3. CASE DriverCompletes
    BY <1>3 DEF DriverCompletes, ReadInv
  <1>4. CASE Poll
    BY <1>4 DEF Poll, End, GoTo, ReadInv, TypeOK
  <1>5. CASE ReadFile
    <2>1. queued # <<>> => Head(queued) # NoPacket
      BY HeadThenTail, BridgeAssumption DEF TypeOK, Packets
    <2> QED BY <1>5, <2>1 DEF ReadFile, GoTo, ReadInv
  <1>6. CASE WaitSucceeds \/ TimeOut \/ Reap
    BY <1>6 DEF WaitSucceeds, TimeOut, Reap, GoTo, ReadInv
  <1>7. CASE Forward
    BY <1>7 DEF Forward, GoTo, ReadInv
  <1>8. CASE DeviceFails \/ SocketFails
    BY <1>8 DEF DeviceFails, SocketFails, End, ReadInv
  <1>9. CASE Fill
    BY <1>9 DEF Fill, GoTo, ReadInv
  <1>10. CASE Parse
    BY <1>10 DEF Parse, End, GoTo, ReadInv
  <1>11. CASE WriteFrame
    BY <1>11 DEF WriteFrame, GoTo, ReadInv
  <1>12. CASE UNCHANGED vars
    BY <1>12 DEF vars, ReadInv
  <1> QED BY <1>1, <1>2, <1>3, <1>4, <1>5, <1>6, <1>7, <1>8, <1>9, <1>10, <1>11, <1>12 DEF Next, Loop

\* Bytes only move between the buffers, and whole frames leave the accumulator.
LEMMA StreamStep ==
  ASSUME TypeOK, StreamInv, [Next]_vars
  PROVE  StreamInv'
  <1> DEFINE sent == FlattenSeq(handed)
  <1>1. /\ acc \in Seq(Bytes) /\ socket \in Seq(Bytes) /\ unsent \in Seq(Bytes)
        /\ handed \in Seq(Seq(Bytes)) /\ sent \in Seq(Bytes)
        /\ sent \o acc \in Seq(Bytes)
    BY FlattenType, BytesConcat DEF TypeOK
  <1> USE DEF network, driver, framing
  <1>2. CASE PeerSends
    <2>1. PICK n \in 1..Len(unsent) :
            /\ socket' = socket \o SubSeq(unsent, 1, n)
            /\ unsent' = SubSeq(unsent, n + 1, Len(unsent))
      BY <1>2 DEF PeerSends
    <2>2. n \in 0..Len(unsent)
      OBVIOUS
    <2>3. unsent = SubSeq(unsent, 1, n) \o unsent' /\ SubSeq(unsent, 1, n) \in Seq(Bytes) /\ unsent' \in Seq(Bytes)
      BY <1>1, <2>1, <2>2, SplitAt
    <2>4. UNCHANGED <<script, acc, handed, at>>
      BY <1>2 DEF PeerSends
    <2>5. ((sent \o acc) \o socket') \o unsent' = ((sent \o acc) \o socket) \o unsent
      <3> DEFINE prior == sent \o acc
                 more == SubSeq(unsent, 1, n)
                 left == SubSeq(unsent, n + 1, Len(unsent))
      <3>1. prior \in Seq(Bytes) /\ more \in Seq(Bytes) /\ socket \in Seq(Bytes) /\ left \in Seq(Bytes)
        BY <1>1, <2>1, <2>3
      <3>2. socket' = socket \o more /\ unsent = more \o left /\ unsent' = left
        BY <2>1, <2>3
      <3> HIDE DEF prior, more, left
      <3>3. (prior \o socket) \o more = prior \o (socket \o more)
        BY ONLY <3>1, BytesRegroup
      <3>4. prior \o socket \in Seq(Bytes)
        BY ONLY <3>1, BytesConcat
      <3>5. ((prior \o socket) \o more) \o left = (prior \o socket) \o (more \o left)
        <4> DEFINE full == prior \o socket
        <4>1. full \in Seq(Bytes)
          BY <3>4
        <4> HIDE DEF full
        <4>2. (full \o more) \o left = full \o (more \o left)
          BY ONLY <3>1, <4>1, BytesRegroup
        <4> QED BY <4>2 DEF full
      <3> QED BY <3>2, <3>3, <3>5 DEF prior
    <2> QED BY <2>4, <2>5 DEF StreamInv
  <1>3. CASE Fill
    <2> DEFINE n == Min({Len(socket), Accumulator - Len(acc), NetBuffer})
    <2>1. CASE n > 0
      <3>1. n \in 0..Len(socket)
        BY <2>1, FillTakes
      <3>2. /\ acc' = acc \o SubSeq(socket, 1, n) /\ socket' = SubSeq(socket, n + 1, Len(socket))
            /\ UNCHANGED <<script, unsent, handed, at>> /\ at = "fill"
        BY <1>3, <2>1 DEF Fill
      <3> HIDE DEF n
      <3>3. socket = SubSeq(socket, 1, n) \o socket' /\ SubSeq(socket, 1, n) \in Seq(Bytes) /\ socket' \in Seq(Bytes)
        BY <1>1, <3>1, <3>2, SplitAt
      <3>4. (sent \o acc') \o socket' = (sent \o acc) \o socket
        <4> DEFINE moved == SubSeq(socket, 1, n)
        <4>1. moved \in Seq(Bytes) /\ sent \in Seq(Bytes) /\ acc \in Seq(Bytes) /\ socket' \in Seq(Bytes)
          BY <1>1, <3>3
        <4>2. acc' = acc \o moved /\ socket = moved \o socket'
          BY <3>2, <3>3
        <4> HIDE DEF sent, moved
        <4>3. (sent \o acc) \o moved = sent \o (acc \o moved)
          BY <4>1, BytesRegroup
        <4>4. ((sent \o acc) \o moved) \o socket' = (sent \o acc) \o (moved \o socket')
          <5> DEFINE full == sent \o acc
          <5>1. full \in Seq(Bytes)
            BY <4>1, BytesConcat
          <5> HIDE DEF full
          <5>2. (full \o moved) \o socket' = full \o (moved \o socket')
            BY ONLY <4>1, <5>1, BytesRegroup
          <5> QED BY <5>2 DEF full
        <4> QED BY <4>2, <4>3, <4>4
      <3> QED BY <3>2, <3>4 DEF StreamInv
    <2>2. CASE ~(n > 0)
      BY <1>3, <2>2 DEF Fill, GoTo, StreamInv
    <2> QED BY <2>1, <2>2
  <1>4. CASE Parse
    <2>1. UNCHANGED <<script, unsent, socket, acc, handed>>
      BY <1>4 DEF Parse
    <2>2. at' = "write" => acc # <<>> /\ Known(acc) /\ H4FrameLength(acc) > 0
      <3>1. at' = "write" => (acc # <<>> => Known(acc)) /\ H4FrameLength(acc) > 0
        BY <1>4 DEF Parse, End, GoTo
      <3>2. acc = <<>> => H4FrameLength(acc) = 0
        BY DEF H4FrameLength
      <3> QED BY <3>1, <3>2
    <2> QED BY <2>1, <2>2 DEF StreamInv, Known, H4FrameLength, HeaderLength, BodyLength
  <1>5. CASE WriteFrame
    <2> DEFINE n == H4FrameLength(acc)
               k == Len(handed)
               frame == script[k + 1]
    <2>1. /\ n \in 0..Len(acc) /\ k + 1 \in 1..Len(script)
          /\ SubSeq(acc, 1, n) = frame /\ frame \in Seq(Bytes)
      BY <1>5, NextFrame DEF WriteFrame
    <2>2. /\ handed' = Append(handed, frame) /\ acc' = SubSeq(acc, n + 1, Len(acc))
          /\ UNCHANGED <<script, socket, unsent>> /\ at' = "parse"
      BY <1>5, <2>1 DEF WriteFrame, GoTo
    <2> HIDE DEF n
    <2>3. acc = frame \o acc' /\ acc' \in Seq(Bytes)
      BY <1>1, <2>1, <2>2, SplitAt
    <2> HIDE DEF frame
    <2>4. FlattenSeq(handed') = sent \o frame /\ Len(handed') = k + 1
      BY <1>1, <2>1, <2>2, FlattenAppend, AppendProperties
    <2>5. handed' = SubSeq(script, 1, k + 1)
      <3>1. script \in Seq(Seq(Bytes)) /\ Len(script) \in Nat /\ handed = SubSeq(script, 1, k) /\ k \in Nat
        BY <1>1, ScriptType, LenProperties DEF StreamInv
      <3>2. 1 \in 1..Len(script) /\ k + 1 \in 1..Len(script) /\ (k + 1) - 1 = k
        BY <2>1, <3>1
      <3>3. Append(handed, frame) = handed \o <<frame>>
        BY <1>1, <2>1, AppendIsConcat
      <3> HIDE DEF k
      <3>4. SubSeq(script, 1, k + 1) = SubSeq(script, 1, (k + 1) - 1) \o <<script[k + 1]>>
        BY <3>1, <3>2, SubSeqRecursiveSecond
      <3> QED BY <2>2, <3>1, <3>2, <3>3, <3>4 DEF frame
    <2>6. (sent \o frame) \o acc' = sent \o acc
      <3> HIDE DEF sent
      <3>1. (sent \o frame) \o acc' = sent \o (frame \o acc')
        <4>1. sent \in Seq(Bytes) /\ frame \in Seq(Bytes) /\ acc' \in Seq(Bytes)
          BY <1>1, <2>1, <2>3
        <4> QED BY <4>1, BytesRegroup
      <3> QED BY <2>3, <3>1
    <2>7. Len(handed') <= Len(script') /\ handed' = SubSeq(script', 1, Len(handed'))
      BY <2>1, <2>2, <2>4, <2>5
    <2>8. ((FlattenSeq(handed') \o acc') \o socket') \o unsent' = FlattenSeq(script')
      BY <2>2, <2>4, <2>6 DEF StreamInv
    <2> QED BY <2>2, <2>7, <2>8 DEF StreamInv
  <1>6. CASE PeerCloses \/ StackSends \/ DriverCompletes
    BY <1>6 DEF PeerCloses, StackSends, DriverCompletes, StreamInv
  <1>7. CASE Poll \/ ReadFile \/ WaitSucceeds \/ TimeOut \/ Reap \/ Forward \/ SocketFails \/ DeviceFails
    BY <1>7 DEF Poll, ReadFile, WaitSucceeds, TimeOut, Reap, Forward, SocketFails, DeviceFails, End, GoTo, StreamInv
  <1>8. CASE UNCHANGED vars
    BY <1>8 DEF vars, StreamInv
  <1> QED BY <1>2, <1>3, <1>4, <1>5, <1>6, <1>7, <1>8 DEF Next, Loop

-----------------------------------------------------------------------------
(* Packets.                                                                *)

\* What Hci makes of one packet.
ForHci(p) == IF p \in ControlPackets \cup {NoPacket} THEN <<>> ELSE <<p>>
Held == Packets \cup {NoPacket}

\* Hci's places as a sequence: empty for a control packet, the packet otherwise.
LEMMA HciMap ==
  ASSUME NEW s \in Seq(Held)
  PROVE  /\ Hci(s) = FlattenSeq([i \in 1..Len(s) |-> ForHci(s[i])])
         /\ [i \in 1..Len(s) |-> ForHci(s[i])] \in Seq(Seq(Packets))
         /\ Hci(s) \in Seq(Packets)
  <1> DEFINE m == [i \in 1..Len(s) |-> ForHci(s[i])]
  <1>1. Len(s) \in Nat /\ \A i \in 1..Len(s) : s[i] \in Held
    BY LenProperties, ElementOfSeq
  <1>2. \A p \in Held : ForHci(p) \in Seq(Packets)
    BY DEF ForHci, Held
  <1>3. m \in [1..Len(s) -> Seq(Packets)]
    BY <1>1, <1>2
  <1>4. m \in Seq(Seq(Packets))
    <2> HIDE DEF m
    <2> QED BY <1>1, <1>3
  <1>5. Hci(s) = FlattenSeq(m)
    BY DEF Hci, ForHci
  <1> HIDE DEF m
  <1>6. Hci(s) \in Seq(Packets)
    BY <1>4, <1>5, FlattenType
  <1> QED BY <1>4, <1>5, <1>6 DEF m

\* The stack's packets of two sequences joined are those of one, then of the other.
LEMMA HciConcat ==
  ASSUME NEW s \in Seq(Held), NEW t \in Seq(Held)
  PROVE  Hci(s \o t) = Hci(s) \o Hci(t)
  <1> DEFINE ms == [i \in 1..Len(s) |-> ForHci(s[i])]
             mt == [i \in 1..Len(t) |-> ForHci(t[i])]
             mst == [i \in 1..Len(s \o t) |-> ForHci((s \o t)[i])]
  <1>1. /\ s \o t \in Seq(Held) /\ Len(s) \in Nat /\ Len(t) \in Nat
        /\ Len(s \o t) = Len(s) + Len(t)
        /\ \A i \in 1..(Len(s) + Len(t)) : (s \o t)[i] = IF i <= Len(s) THEN s[i] ELSE t[i - Len(s)]
    BY ConcatProperties, LenProperties
  <1>2. /\ ms \in Seq(Seq(Packets)) /\ mt \in Seq(Seq(Packets)) /\ mst \in Seq(Seq(Packets))
        /\ Hci(s) = FlattenSeq(ms) /\ Hci(t) = FlattenSeq(mt) /\ Hci(s \o t) = FlattenSeq(mst)
    BY <1>1, HciMap
  <1>3. /\ Len(ms) = Len(s) /\ Len(mt) = Len(t) /\ Len(mst) = Len(s) + Len(t)
        /\ \A i \in 1..Len(s) : ms[i] = ForHci(s[i])
        /\ \A i \in 1..Len(t) : mt[i] = ForHci(t[i])
        /\ \A i \in 1..(Len(s) + Len(t)) : mst[i] = ForHci((s \o t)[i])
    BY <1>1
  <1> HIDE DEF ms, mt, mst
  <1>4. /\ ms \o mt \in Seq(Seq(Packets))
        /\ Len(ms \o mt) = Len(s) + Len(t)
        /\ \A i \in 1..(Len(s) + Len(t)) :
             (ms \o mt)[i] = IF i <= Len(s) THEN ms[i] ELSE mt[i - Len(s)]
    <2>1. /\ ms \o mt \in Seq(Seq(Packets))
          /\ Len(ms \o mt) = Len(ms) + Len(mt)
          /\ \A i \in 1..(Len(ms) + Len(mt)) :
               (ms \o mt)[i] = IF i <= Len(ms) THEN ms[i] ELSE mt[i - Len(ms)]
      BY <1>2, ConcatProperties
    <2>2. Len(ms) = Len(s) /\ Len(mt) = Len(t)
      BY <1>3
    <2> QED BY <2>1, <2>2
  <1>5. \A i \in 1..(Len(s) + Len(t)) : mst[i] = (ms \o mt)[i]
    <2> SUFFICES ASSUME NEW i \in 1..(Len(s) + Len(t)) PROVE mst[i] = (ms \o mt)[i]
      OBVIOUS
    <2>1. CASE i <= Len(s)
      <3>1. i \in 1..Len(s)
        BY <1>1, <2>1
      <3> QED BY <1>1, <1>3, <1>4, <2>1, <3>1
    <2>2. CASE ~(i <= Len(s))
      <3>1. i - Len(s) \in 1..Len(t)
        BY <1>1, <2>2
      <3> QED BY <1>1, <1>3, <1>4, <2>2, <3>1
    <2> QED BY <2>1, <2>2
  <1>6. mst = ms \o mt
    BY <1>2, <1>3, <1>4, <1>5, SeqEqual
  <1>7. FlattenSeq(ms \o mt) = FlattenSeq(ms) \o FlattenSeq(mt)
    BY <1>2, FlattenConcat
  <1> QED BY <1>2, <1>6, <1>7

\* A single packet counts unless it is a control packet.
LEMMA HciOne ==
  /\ Hci(<<>>) = <<>>
  /\ \A p \in Held : Hci(<<p>>) = ForHci(p)
  <1>1. Hci(<<>>) = <<>>
    <2>1. [i \in 1..Len(<<>>) |-> ForHci(<<>>[i])] = <<>>
      OBVIOUS
    <2>2. <<>> \in Seq(Held)
      OBVIOUS
    <2> QED BY <2>1, <2>2, HciMap, FlattenEmpty
  <1>2. ASSUME NEW p \in Held PROVE Hci(<<p>>) = ForHci(p)
    <2>1. [i \in 1..Len(<<p>>) |-> ForHci(<<p>>[i])] = <<ForHci(p)>>
      OBVIOUS
    <2>2. Hci(<<p>>) = FlattenSeq(<<ForHci(p)>>)
      BY <2>1 DEF Hci, ForHci
    <2>3. ForHci(p) \in Seq(Packets)
      BY DEF ForHci, Held
    <2> QED BY <2>2, <2>3, FlattenOne
  <1> QED BY <1>1, <1>2

\* What is on its way to the controller, the three places apart.
LEMMA HciPlaces ==
  ASSUME NEW d \in Held, NEW q \in Seq(Packets), NEW o \in Seq(Packets)
  PROVE  /\ Hci(<<d>> \o q \o o) = ForHci(d) \o (Hci(q) \o Hci(o))
         /\ ForHci(d) \in Seq(Packets) /\ Hci(q) \in Seq(Packets) /\ Hci(o) \in Seq(Packets)
  <1>1. <<d>> \in Seq(Held) /\ q \in Seq(Held) /\ o \in Seq(Held)
    BY SeqMonotonic DEF Held
  <1>2. <<d>> \o q \in Seq(Held)
    BY <1>1, ConcatProperties
  <1>3. ForHci(d) \in Seq(Packets) /\ Hci(q) \in Seq(Packets) /\ Hci(o) \in Seq(Packets)
    <2>1. ForHci(d) \in Seq(Packets)
      BY DEF ForHci, Held
    <2>2. Hci(q) \in Seq(Packets) /\ Hci(o) \in Seq(Packets)
      BY <1>1, HciMap
    <2> QED BY <2>1, <2>2
  <1>4. Hci(<<d>> \o q \o o) = (ForHci(d) \o Hci(q)) \o Hci(o)
    <2>1. Hci(<<d>> \o q) = Hci(<<d>>) \o Hci(q)
      BY <1>1, HciConcat
    <2>2. Hci((<<d>> \o q) \o o) = Hci(<<d>> \o q) \o Hci(o)
      BY <1>1, <1>2, HciConcat
    <2> QED BY <2>1, <2>2, HciOne
  <1> DEFINE x == ForHci(d)
             y == Hci(q)
             z == Hci(o)
  <1>5. (x \o y) \o z = x \o (y \o z)
    <2>1. x \in Seq(Packets) /\ y \in Seq(Packets) /\ z \in Seq(Packets)
      BY <1>3
    <2> HIDE DEF x, y, z
    <2> QED BY ONLY <2>1, ConcatAssociative
  <1> QED BY <1>3, <1>4, <1>5

\* The stack's packets of a sequence, taken at its head or appended at its end.
LEMMA HciEnds ==
  ASSUME NEW s \in Seq(Packets)
  PROVE  /\ Hci(s) \in Seq(Packets)
         /\ s # <<>> => /\ Head(s) \in Packets /\ Tail(s) \in Seq(Packets)
                       /\ ForHci(Head(s)) \in Seq(Packets) /\ Hci(Tail(s)) \in Seq(Packets)
                       /\ Hci(s) = ForHci(Head(s)) \o Hci(Tail(s))
         /\ \A p \in Packets : Hci(Append(s, p)) = Hci(s) \o ForHci(p)
  <1>1. s \in Seq(Held) /\ Packets \subseteq Held
    BY SeqMonotonic DEF Held
  <1>2. Hci(s) \in Seq(Packets)
    BY <1>1, HciMap
  <1>3. ASSUME s # <<>>
        PROVE  /\ Head(s) \in Packets /\ Tail(s) \in Seq(Packets)
               /\ ForHci(Head(s)) \in Seq(Packets) /\ Hci(Tail(s)) \in Seq(Packets)
               /\ Hci(s) = ForHci(Head(s)) \o Hci(Tail(s))
    <2> DEFINE h == Head(s)
               t == Tail(s)
    <2>1. h \in Packets /\ t \in Seq(Packets) /\ s = <<h>> \o t
      BY <1>3, HeadThenTail
    <2> HIDE DEF h, t
    <2>2. h \in Held /\ <<h>> \in Seq(Held) /\ t \in Seq(Held)
      BY <1>1, <2>1, SeqMonotonic
    <2>3. Hci(s) = ForHci(h) \o Hci(t)
      BY <2>1, <2>2, HciConcat, HciOne
    <2>4. ForHci(h) \in Seq(Packets)
      BY <2>1 DEF ForHci
    <2>5. Hci(t) \in Seq(Packets)
      BY <2>2, HciMap
    <2> QED BY <2>1, <2>3, <2>4, <2>5 DEF h, t
  <1>4. ASSUME NEW p \in Packets PROVE Hci(Append(s, p)) = Hci(s) \o ForHci(p)
    <2>1. p \in Held /\ <<p>> \in Seq(Held)
      BY <1>1
    <2>2. Append(s, p) = s \o <<p>>
      BY AppendIsConcat
    <2> QED BY <1>1, <2>1, <2>2, HciConcat, HciOne
  <1> QED BY <1>2, <1>3, <1>4

\* Joining packets is associative.
LEMMA PacketsRegroup == \A x, y, z \in Seq(Packets) : (x \o y) \o z = x \o (y \o z)
  BY ConcatAssociative

\* Sequences of packets may be joined.
LEMMA PacketsConcat == \A x, y \in Seq(Packets) : x \o y \in Seq(Packets)
  BY ConcatProperties

\* Joining to nothing changes nothing.
LEMMA NothingBefore == \A x \in Seq(Packets) : <<>> \o x = x
  BY ConcatEmptySeq

\* The promise in the terms of the three places.
LEMMA PlacesHold ==
  ASSUME TypeOK
  PROVE  /\ NothingVanishes <=>
              toController \o (ForHci(devBuf) \o (Hci(queued) \o Hci(offers))) = Hci(Offers)
         /\ ForHci(devBuf) \in Seq(Packets) /\ Hci(queued) \in Seq(Packets) /\ Hci(offers) \in Seq(Packets)
  BY HciPlaces DEF TypeOK, NothingVanishes, Held

\* The places a packet can be in hold packets after a step, too.
LEMMA PlacesHoldNext ==
  ASSUME TypeOK'
  PROVE  /\ NothingVanishes' <=>
              toController' \o (ForHci(devBuf') \o (Hci(queued') \o Hci(offers'))) = Hci(Offers)
  BY HciPlaces DEF TypeOK, NothingVanishes, Held

\* At the start every packet is still with the stack.
LEMMA InitPackets == Init => NothingVanishes
  <1> SUFFICES ASSUME Init PROVE NothingVanishes
    OBVIOUS
  <1>1. TypeOK /\ toController = <<>> /\ ForHci(devBuf) = <<>> /\ Hci(queued) = <<>> /\ offers = Offers
    BY InitType, HciOne DEF Init, ForHci
  <1>2. Hci(Offers) \in Seq(Packets)
    BY <1>1, PlacesHold
  <1>3. <<>> \o (<<>> \o (<<>> \o Hci(Offers))) = Hci(Offers)
    BY <1>2, NothingBefore
  <1> QED BY <1>1, <1>3, PlacesHold

\* A packet goes from one place to the next, and a packet is only taken out of the
\* read once it has been sent.
LEMMA PacketStep ==
  ASSUME TypeOK, ReadInv, NothingVanishes, [Next]_vars, TypeOK'
  PROVE  NothingVanishes'
  <1> DEFINE d == ForHci(devBuf)
             q == Hci(queued)
             o == Hci(offers)
             sent == toController
  <1>1. sent \o (d \o (q \o o)) = Hci(Offers)
    BY PlacesHold
  <1>2. d \in Seq(Packets) /\ q \in Seq(Packets) /\ o \in Seq(Packets) /\ sent \in Seq(Packets)
    BY PlacesHold DEF TypeOK
  <1>3. ForHci(NoPacket) = <<>> /\ Hci(<<>>) = <<>>
    BY HciOne DEF ForHci
  <1>4. NothingVanishes' <=> sent' \o (d' \o (q' \o o')) = Hci(Offers)
    BY PlacesHoldNext
  <1> USE DEF network, driver, framing
  <1>5. CASE StackSends
    <2> DEFINE h == ForHci(Head(offers))
               t == Hci(Tail(offers))
    <2>1. Head(offers) \in Packets /\ h \in Seq(Packets) /\ t \in Seq(Packets) /\ o = h \o t
      BY <1>5, HciEnds DEF StackSends, TypeOK
    <2>2. o' = t /\ sent' = sent
      BY <1>5 DEF StackSends
    <2>3. CASE request = "pending"
      <3>1. d = <<>> /\ q = <<>> /\ d' = h /\ q' = <<>>
        BY <1>3, <1>5, <2>3 DEF StackSends, ReadInv
      <3> HIDE DEF d, q, o, sent, h, t
      <3>2. <<>> \o (<<>> \o o) = h \o (<<>> \o t)
        BY <1>2, <2>1, NothingBefore
      <3> QED BY <1>1, <1>4, <2>2, <3>1, <3>2
    <2>4. CASE request # "pending"
      <3>1. d' = d /\ queued' = Append(queued, Head(offers))
        BY <1>5, <2>4 DEF StackSends
      <3>2. q' = q \o h
        BY <2>1, <3>1, HciEnds DEF TypeOK
      <3> HIDE DEF d, q, o, sent, h, t
      <3>3. (q \o h) \o t = q \o o
        BY ONLY <1>2, <2>1, PacketsRegroup
      <3> QED BY <1>1, <1>4, <2>2, <3>1, <3>2, <3>3
    <2> QED BY <2>3, <2>4
  <1>6. CASE ReadFile
    <2>1. CASE queued # <<>>
      <3> DEFINE h == ForHci(Head(queued))
                 t == Hci(Tail(queued))
      <3>1. h \in Seq(Packets) /\ t \in Seq(Packets) /\ q = h \o t
        BY <2>1, HciEnds DEF TypeOK
      <3>2. d = <<>> /\ d' = h /\ q' = t /\ o' = o /\ sent' = sent
        BY <1>3, <1>6, <2>1 DEF ReadFile, ReadInv
      <3> HIDE DEF d, q, o, sent, h, t
      <3>3. <<>> \o (q \o o) = h \o (t \o o)
        <4>1. q \o o \in Seq(Packets)
          BY ONLY <1>2, PacketsConcat
        <4>2. <<>> \o (q \o o) = q \o o
          BY ONLY <4>1, NothingBefore
        <4>3. (h \o t) \o o = h \o (t \o o)
          <5>1. h \in Seq(Packets) /\ t \in Seq(Packets) /\ o \in Seq(Packets)
            BY <1>2, <3>1
          <5> QED BY ONLY <5>1, PacketsRegroup
        <4> QED BY ONLY <3>1, <4>2, <4>3
      <3> QED BY <1>1, <1>4, <3>2, <3>3
    <2>2. CASE queued = <<>>
      <3>1. UNCHANGED <<devBuf, queued, offers, toController>>
        BY <1>6, <2>2 DEF ReadFile
      <3> QED BY <3>1 DEF NothingVanishes
    <2> QED BY <2>1, <2>2
  <1>7. CASE Forward
    <2>1. devBuf \in Packets /\ devBuf # NoPacket
      BY <1>7 DEF Forward, ReadInv, TypeOK
    <2>2. sent' = sent \o d
      <3>1. CASE devBuf \in ControlPackets
        <4>1. d = <<>> /\ sent' = sent
          BY <1>7, <3>1 DEF Forward, ForHci
        <4> HIDE DEF d, sent
        <4> QED BY <1>2, <4>1, ConcatEmptySeq
      <3>2. CASE devBuf \notin ControlPackets
        <4>1. d = <<devBuf>> /\ sent' = Append(sent, devBuf)
          BY <1>7, <2>1, <3>2 DEF Forward, ForHci
        <4> HIDE DEF d
        <4> QED BY <1>2, <2>1, <4>1, AppendIsConcat
      <3> QED BY <3>1, <3>2
    <2>3. d' = <<>> /\ q' = q /\ o' = o
      BY <1>3, <1>7 DEF Forward
    <2> HIDE DEF d, q, o, sent
    <2>4. (sent \o d) \o (<<>> \o (q \o o)) = sent \o (d \o (q \o o))
      <3>1. q \o o \in Seq(Packets)
        BY ONLY <1>2, PacketsConcat
      <3>2. <<>> \o (q \o o) = q \o o
        BY ONLY <3>1, NothingBefore
      <3> DEFINE r == q \o o
      <3>3. (sent \o d) \o r = sent \o (d \o r)
        <4>1. r \in Seq(Packets)
          BY <3>1
        <4> HIDE DEF r
        <4> QED BY ONLY <1>2, <4>1, PacketsRegroup
      <3> QED BY <3>2, <3>3
    <2> QED BY <1>1, <1>4, <2>2, <2>3, <2>4
  <1>8. CASE PeerSends \/ PeerCloses \/ DriverCompletes
    BY <1>8 DEF PeerSends, PeerCloses, DriverCompletes, NothingVanishes
  <1>9. CASE Poll \/ WaitSucceeds \/ TimeOut \/ Reap \/ SocketFails \/ DeviceFails
    BY <1>9 DEF Poll, WaitSucceeds, TimeOut, Reap, SocketFails, DeviceFails, NothingVanishes
  <1>10. CASE Fill \/ Parse \/ WriteFrame
    BY <1>10 DEF Fill, Parse, WriteFrame, NothingVanishes
  <1>11. CASE UNCHANGED vars
    BY <1>11 DEF vars, NothingVanishes
  <1> QED BY <1>5, <1>6, <1>7, <1>8, <1>9, <1>10, <1>11 DEF Next, Loop

-----------------------------------------------------------------------------
(* The theorems.                                                           *)

\* The shape of the bridge's state, the bytes and the packets, and what goes with the
\* place the loop is at.
THEOREM Invariance == Spec => []IInv
  <1>1. Init => IInv
    BY InitType, InitStream, InitPackets DEF IInv
  <1>2. IInv /\ [Next]_vars => IInv'
    BY TypeStep, StreamStep, ReadStep, PacketStep DEF IInv
  <1> QED BY <1>1, <1>2, PTL DEF Spec

\* What the driver is given are the controller's frames, whole, in order and once, for
\* every script, however TCP cuts the stream and whatever the sizes of the buffers.
THEOREM FramesComeWhole == Spec => []FramesAreTheStream
  <1>1. IInv => FramesAreTheStream
    BY DEF IInv, StreamInv, FramesAreTheStream, IsPrefix
  <1> QED BY <1>1, Invariance, PTL

\* No packet of the stack vanishes, whenever the read's time is up, and no control
\* reply gets through, for every sequence of packets.
THEOREM NoPacketVanishes == Spec => []NothingVanishes
  <1>1. IInv => NothingVanishes
    BY DEF IInv
  <1> QED BY <1>1, Invariance, PTL

\* Get-H4FrameLength answers as H4 does, for every frame and every beginning of one: the
\* frame's length when it is whole, and 0 as long as bytes are missing.
THEOREM FrameLengthIsH4 ==
  ASSUME NEW f \in Seq(Bytes), f # <<>>, f[1] \in H4_COMMAND..H4_ISO
  PROVE  /\ Whole(f) => H4FrameLength(f) = Len(f)
         /\ Begun(f) => H4FrameLength(f) = 0
  <1> DEFINE h == Header(f)
             b == Stated(f)
  <1>1. HeaderLength(f[1]) = h /\ BodyLength(f) = b
    BY ReadsH4
  <1>2. H4FrameLength(f) = IF Len(f) < h THEN 0 ELSE IF Len(f) < h + b THEN 0 ELSE h + b
    BY <1>1 DEF H4FrameLength
  <1>3. h \in Nat /\ Len(f) \in Nat
    <2>1. f[1] \in {1, 2, 3, 4, 5}
      BY DEF H4_COMMAND, H4_ISO
    <2> QED BY <2>1, LenProperties DEF Header, H4_COMMAND, H4_ACL, H4_SCO, H4_EVENT, H4_ISO
  <1> HIDE DEF h, b
  <1>4. Whole(f) => H4FrameLength(f) = Len(f)
    BY <1>2, <1>3 DEF Whole, h, b
  <1>5. Begun(f) => H4FrameLength(f) = 0
    BY <1>2, <1>3 DEF Begun, h, b
  <1> QED BY <1>4, <1>5
=============================================================================
