--------------------------- MODULE SequenceLemmas ---------------------------
(***************************************************************************)
(* What the proofs need to know of the FIFO channels: the types of their   *)
(* operations, and that moving messages from one part of a stream to the   *)
(* next leaves the stream as a whole as it was.                            *)
(*                                                                         *)
(* The induction theorems of the library have an operator as parameter,    *)
(* which no backend instantiates.  NatSets and SeqSets have a set in its   *)
(* place: the values of which the fact to be proved is true.               *)
(***************************************************************************)
EXTENDS Integers, Sequences, SequenceTheorems, WellFoundedInduction, TLAPS

LEMMA TailType ==
  ASSUME NEW S, NEW s \in Seq(S), s # <<>>
  PROVE  Tail(s) \in Seq(S) /\ Head(s) \in S /\ s[1] \in S /\ Len(s) > 0
  OBVIOUS

LEMMA AppendType ==
  ASSUME NEW S, NEW s \in Seq(S), NEW e \in S
  PROVE  Append(s, e) \in Seq(S)
  OBVIOUS

LEMMA AppendSome ==
  ASSUME NEW S, NEW s \in Seq(S), NEW e \in S
  PROVE  Append(s, e) # <<>>
<1>1. Len(Append(s, e)) = Len(s) + 1 /\ Len(s) \in Nat /\ Len(<<>>) = 0
  OBVIOUS
<1> QED
  BY <1>1

LEMMA PartType ==
  ASSUME NEW S, NEW s \in Seq(S), NEW k \in 1 .. Len(s)
  PROVE  SubSeq(s, 1, k) \in Seq(S) /\ SubSeq(s, k + 1, Len(s)) \in Seq(S)
  OBVIOUS

LEMMA ConcatType ==
  ASSUME NEW S, NEW s \in Seq(S), NEW t \in Seq(S)
  PROVE  s \o t \in Seq(S)
  OBVIOUS

LEMMA OneType ==
  ASSUME NEW S, NEW e \in S
  PROVE  <<e>> \in Seq(S) /\ Len(<<e>>) = 1 /\ <<e>>[1] = e
  OBVIOUS

LEMMA EmptyType ==
  ASSUME NEW S
  PROVE  <<>> \in Seq(S) /\ Len(<<>>) = 0
  OBVIOUS

LEMMA SingleLen ==
  \A S : \A s \in Seq(S) : s # <<>> /\ Len(s) <= 1 => Len(s) = 1
<1> SUFFICES ASSUME NEW S, NEW s \in Seq(S), s # <<>>, Len(s) <= 1
             PROVE  Len(s) = 1
  OBVIOUS
<1>1. Len(s) \in Nat \ {0}
  BY EmptySeq
<1> QED
  BY <1>1

LEMMA ConcatRegroup ==
  \A S : \A s \in Seq(S), t \in Seq(S), u \in Seq(S) :
    s \o (t \o u) = (s \o t) \o u
  BY ConcatAssociative, SMTT(60)

\* A message moves from the end of one part to the end of the part before.
LEMMA StreamWritten ==
  ASSUME NEW S, NEW g \in Seq(S), NEW q \in Seq(S), NEW o \in Seq(S),
         Len(o) = 1
  PROVE  (g \o Append(q, o[1])) \o <<>> = (g \o q) \o o
<1>1. o[1] \in S /\ o = <<o[1]>>
  <2>1. o[1] \in S
    OBVIOUS
  <2>2. <<o[1]>> \in Seq(S) /\ Len(<<o[1]>>) = 1 /\ <<o[1]>>[1] = o[1]
    BY <2>1, OneType
  <2>3. \A i \in 1 .. Len(o) : o[i] = <<o[1]>>[i]
    BY <2>2
  <2> QED
    BY <2>1, <2>2, <2>3, SeqEqual
<1>2. Append(q, o[1]) = q \o o
  BY <1>1, AppendIsConcat
<1>3. g \o (q \o o) = (g \o q) \o o
  BY ConcatRegroup
<1>4. (g \o q) \o o \in Seq(S)
  BY ConcatType
<1> QED
  BY <1>2, <1>3, <1>4, ConcatEmptySeq

\* A sequence that was cut in two is whole again when the parts are joined.
LEMMA PartsJoin ==
  ASSUME NEW S, NEW q \in Seq(S), NEW k \in 1 .. Len(q)
  PROVE  SubSeq(q, 1, k) \o SubSeq(q, k + 1, Len(q)) = q
<1>1. /\ 1 \in 1 .. Len(q) + 1 /\ k \in 1 - 1 .. Len(q)
      /\ Len(q) \in k .. Len(q)
  OBVIOUS
<1>2. SubSeq(q, 1, k) \o SubSeq(q, k + 1, Len(q)) = SubSeq(q, 1, Len(q))
  BY <1>1, ConcatAdjacentSubSeq
<1> QED
  BY <1>2, SubSeqFull

\* One element moves from the head of a part to the end of the part before.
LEMMA HeadMoves ==
  ASSUME NEW S, NEW b \in Seq(S), NEW p \in Seq(S), p # <<>>
  PROVE  Append(b, Head(p)) \o Tail(p) = b \o p
<1>1. Head(p) \in S /\ Tail(p) \in Seq(S) /\ p = <<Head(p)>> \o Tail(p)
  OBVIOUS
<1>2. Append(b, Head(p)) = b \o <<Head(p)>>
  BY <1>1, AppendIsConcat
<1>3. <<Head(p)>> \in Seq(S)
  BY <1>1, OneType
<1>4. (b \o <<Head(p)>>) \o Tail(p) = b \o (<<Head(p)>> \o Tail(p))
  BY <1>1, <1>3, ConcatAssociative, SMTT(60)
<1> QED
  BY <1>1, <1>2, <1>4

LEMMA UnitMoves ==
  \A S : \A a, b, c \in Seq(S), e \in S :
    (a \o b) \o (<<e>> \o c) = (a \o Append(b, e)) \o c
  BY SMTT(60)

\* What comes last in a part comes last in the whole.
LEMMA ConcatAppend ==
  \A S : \A s \in Seq(S), t \in Seq(S), e \in S :
    s \o Append(t, e) = Append(s \o t, e)
  OBVIOUS

\* The units 1, 2, ... n, and one more.
LEMMA CountingAppend ==
  ASSUME NEW n \in Nat
  PROVE  Append([i \in 1 .. n |-> i], n + 1) = [i \in 1 .. n + 1 |-> i]
  OBVIOUS

-----------------------------------------------------------------------------
(***************************************************************************)
(* Induction, over the natural numbers and over sequences.                 *)
(***************************************************************************)
Less == {pair \in Nat \X Nat : pair[1] < pair[2]}

LEMMA LessFounded == IsWellFoundedOn(Less, Nat)
  BY NatLessThanWellFounded DEF OpToRel, Less

LEMMA NatSets ==
  ASSUME NEW T, 0 \in T, \A n \in Nat : n \in T => n + 1 \in T
  PROVE  Nat \subseteq T
<1> DEFINE U == Nat \ T
<1> SUFFICES ASSUME U # {} PROVE FALSE
  OBVIOUS
<1>1. PICK n \in U : \A m \in U : ~(<<m, n>> \in Less)
  BY LessFounded, WFMin
<1>2. n # 0 /\ n - 1 \in Nat
  BY <1>1
<1>3. <<n - 1, n>> \in Less
  BY <1>2 DEF Less
<1>4. n - 1 \in T
  BY <1>1, <1>2, <1>3
<1> QED
  BY <1>1, <1>2, <1>4

LEMMA SeqSets ==
  ASSUME NEW S, NEW T, <<>> \in T,
         \A s \in Seq(S), e \in S : s \in T => Append(s, e) \in T
  PROVE  Seq(S) \subseteq T
<1> DEFINE U == {n \in Nat : \A s \in Seq(S) : Len(s) = n => s \in T}
<1>1. 0 \in U
  BY EmptySeq
<1>2. ASSUME NEW n \in Nat, n \in U PROVE n + 1 \in U
  <2>1. ASSUME NEW s \in Seq(S), Len(s) = n + 1 PROVE s \in T
    <3>1. s # <<>>
      BY <2>1, EmptySeq
    <3>2. PICK t \in Seq(S), e \in S : s = Append(t, e)
      BY <3>1, SequenceEmptyOrAppend
    <3>3. Len(t) = n
      BY <2>1, <3>2, AppendProperties, LenProperties
    <3> QED
      BY <1>2, <3>2, <3>3
  <2> QED
    BY <2>1
<1>3. Nat \subseteq U
  <2> HIDE DEF U
  <2> QED
    BY <1>1, <1>2, NatSets
<1> QED
  BY <1>3, LenProperties
=============================================================================
