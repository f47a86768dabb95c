----------------------------- MODULE ListLemmas -----------------------------
(***************************************************************************)
(* Facts about the driver's lists of packets that the proofs about both    *)
(* rendezvous need: which packets a list holds, and that it holds each     *)
(* once, before and after InsertTailList and RemoveHeadList.               *)
(***************************************************************************)
EXTENDS SequencesExt, SequenceTheorems, FiniteSetTheorems, TLAPS

\* What an empty list holds.
LEMMA EmptyList == ToSet(<<>>) = {} /\ IsInjective(<<>>)
  BY DEF ToSet, IsInjective

\* A packet put at the tail is in the list, besides those that were.
LEMMA PutAtTail ==
  ASSUME NEW S, NEW s \in Seq(S), NEW e \in S
  PROVE  /\ Append(s, e) \in Seq(S)
         /\ ToSet(Append(s, e)) = ToSet(s) \cup {e}
         /\ IsInjective(s) /\ e \notin ToSet(s) => IsInjective(Append(s, e))
  <1> DEFINE t == Append(s, e)
  <1>1. /\ t \in Seq(S)
        /\ Len(t) = Len(s) + 1
        /\ \A i \in 1..Len(s) : t[i] = s[i]
        /\ t[Len(s) + 1] = e
    BY AppendProperties
  <1>2. /\ DOMAIN s = 1..Len(s)
        /\ DOMAIN t = 1..(Len(s) + 1)
        /\ Len(s) \in Nat
    BY <1>1, LenProperties
  <1>3. ToSet(t) = ToSet(s) \cup {e}
    BY <1>1, <1>2 DEF ToSet
  <1>4. ASSUME IsInjective(s), e \notin ToSet(s) PROVE IsInjective(t)
    BY <1>1, <1>2, <1>4 DEF ToSet, IsInjective
  <1> QED BY <1>1, <1>3, <1>4

\* The head of a list that holds each packet once, and what is left without it.
LEMMA TakeHead ==
  ASSUME NEW S, NEW s \in Seq(S), s # <<>>
  PROVE  /\ Head(s) \in S
         /\ Head(s) \in ToSet(s)
         /\ Tail(s) \in Seq(S)
         /\ Len(s) \in Nat \ {0}
         /\ Len(Tail(s)) = Len(s) - 1
         /\ IsInjective(s) => IsInjective(Tail(s)) /\ ToSet(Tail(s)) = ToSet(s) \ {Head(s)}
  <1>1. /\ Head(s) \in S
        /\ Tail(s) \in Seq(S)
        /\ Len(Tail(s)) = Len(s) - 1
        /\ \A i \in 1..Len(Tail(s)) : Tail(s)[i] = s[i + 1]
        /\ Len(s) \in Nat \ {0}
    BY HeadTailProperties, EmptySeq
  <1>2. /\ DOMAIN s = 1..Len(s)
        /\ DOMAIN Tail(s) = 1..(Len(s) - 1)
        /\ Head(s) = s[1]
    BY <1>1, LenProperties
  <1>3. Head(s) \in ToSet(s)
    BY <1>1, <1>2 DEF ToSet
  <1>4. ASSUME IsInjective(s) PROVE IsInjective(Tail(s))
    BY <1>1, <1>2, <1>4 DEF IsInjective
  <1>5. ASSUME IsInjective(s) PROVE ToSet(Tail(s)) = ToSet(s) \ {Head(s)}
    <2>1. \A i \in 1..(Len(s) - 1) : s[i + 1] \in ToSet(s) /\ s[i + 1] # s[1]
      BY <1>1, <1>2, <1>5 DEF ToSet, IsInjective
    <2>2. \A i \in 1..Len(s) : s[i] # s[1] => i - 1 \in 1..(Len(s) - 1) /\ Tail(s)[i - 1] = s[i]
      BY <1>1, <1>2
    <2>3. ASSUME NEW x \in ToSet(Tail(s)) PROVE x \in ToSet(s) \ {Head(s)}
      BY <1>1, <1>2, <2>1, <2>3 DEF ToSet
    <2>4. ASSUME NEW x \in ToSet(s), x # Head(s) PROVE x \in ToSet(Tail(s))
      BY <1>2, <2>2, <2>4 DEF ToSet
    <2> QED BY <2>3, <2>4
  <1> QED BY <1>1, <1>3, <1>4, <1>5

\* The packets of a list are packets.
LEMMA HeldType ==
  ASSUME NEW S, NEW s \in Seq(S)
  PROVE  ToSet(s) \subseteq S
  BY LenProperties, ElementOfSeq DEF ToSet

\* A list holds finitely many packets; if it holds each once, as many as it is long.
LEMMA HeldCount ==
  ASSUME NEW S, NEW s \in Seq(S), IsInjective(s)
  PROVE  IsFiniteSet(ToSet(s)) /\ Cardinality(ToSet(s)) = Len(s)
  <1>1. Len(s) \in Nat /\ DOMAIN s = 1..Len(s) /\ s \in [1..Len(s) -> S]
    BY LenProperties
  <1>2. s \in Bijection(1..Len(s), ToSet(s))
    <2>1. s \in [1..Len(s) -> ToSet(s)]
      BY <1>1 DEF ToSet
    <2>2. \A e \in ToSet(s) : \E i \in 1..Len(s) : s[i] = e
      BY <1>1 DEF ToSet
    <2> QED BY <1>1, <2>1, <2>2 DEF Bijection, Injection, Surjection, IsInjective
  <1>3. ExistsBijection(1..Len(s), ToSet(s))
    BY <1>2 DEF ExistsBijection
  <1> QED BY <1>1, <1>3, FS_NatBijection, FS_CountingElements

\* A sequence is a prefix of itself and of itself with one more at its end.
LEMMA PrefixOfAppend ==
  ASSUME NEW S, NEW s \in Seq(S)
  PROVE  /\ IsPrefix(s, s)
         /\ \A e \in S : IsPrefix(s, Append(s, e))
  <1>1. IsPrefix(s, s)
    BY LenProperties DEF IsPrefix
  <1>2. ASSUME NEW e \in S PROVE IsPrefix(s, Append(s, e))
    <2> DEFINE t == Append(s, e)
    <2>1. /\ t \in Seq(S)
          /\ Len(t) = Len(s) + 1
          /\ \A i \in 1..Len(s) : t[i] = s[i]
      BY AppendProperties
    <2>2. Len(s) \in Nat
      BY LenProperties
    <2>3. SubSeq(s, 1, Len(s)) = s
      BY SubSeqFull
    <2>4. /\ SubSeq(t, 1, Len(s)) \in Seq(S)
          /\ Len(SubSeq(t, 1, Len(s))) = Len(s)
          /\ \A i \in 1..Len(s) : SubSeq(t, 1, Len(s))[i] = s[i]
      <3>1. \A i \in 1..Len(s) : t[i] \in S
        BY <2>1, <2>2, ElementOfSeq
      <3> HIDE DEF t
      <3>2. /\ SubSeq(t, 1, Len(s)) \in Seq(S)
            /\ Len(SubSeq(t, 1, Len(s))) = IF 1 <= Len(s) THEN Len(s) - 1 + 1 ELSE 0
            /\ \A i \in 1..(Len(s) - 1 + 1) : SubSeq(t, 1, Len(s))[i] = t[1 + i - 1]
        BY <2>2, <3>1, SubSeqProperties
      <3> QED BY <2>1, <2>2, <3>2
    <2>5. SubSeq(t, 1, Len(s)) = s
      BY <2>2, <2>4, SeqEqual
    <2> QED BY <2>1, <2>2, <2>3, <2>5 DEF IsPrefix
  <1> QED BY <1>1, <1>2
=============================================================================
