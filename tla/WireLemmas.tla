------------------------------ MODULE WireLemmas ------------------------------
(***************************************************************************)
(* What the proofs need to know of Bodies, the data of one type in a       *)
(* stream of messages: it takes up a message at the end of the stream, it  *)
(* gives one up at the head, and a stream may be cut anywhere.             *)
(***************************************************************************)
EXTENDS Wire, SequenceLemmas, TLAPS

\* The recursion in Bodies, as a function on 0 .. k.
Step(ms, type, f, n) ==
  IF n = 0 THEN <<>>
  ELSE IF ms[n].type = type THEN Append(f[n - 1], ms[n].body)
  ELSE f[n - 1]

Unfolds(ms, type, f, k) == f = [n \in 0 .. k |-> Step(ms, type, f, n)]

LEMMA UnfoldsExists ==
  ASSUME NEW ms, NEW type
  PROVE  \A k \in Nat : \E f : Unfolds(ms, type, f, k)
<1> DEFINE T == {k \in Nat : \E f : Unfolds(ms, type, f, k)}
<1>1. 0 \in T
  <2>1. Unfolds(ms, type, [n \in 0 .. 0 |-> <<>>], 0)
    BY DEF Unfolds, Step
  <2> QED
    BY <2>1
<1>2. ASSUME NEW k \in Nat, k \in T PROVE k + 1 \in T
  <2>1. PICK f : Unfolds(ms, type, f, k)
    BY <1>2
  <2> DEFINE g == [n \in 0 .. k + 1 |-> IF n <= k THEN f[n] ELSE Step(ms, type, f, n)]
  <2>2. \A n \in 0 .. k + 1 : n <= k => f[n] = Step(ms, type, f, n)
    BY <2>1 DEF Unfolds
  <2>3. \A n \in 0 .. k + 1 : Step(ms, type, g, n) = Step(ms, type, f, n)
    BY DEF Step
  <2>4. g = [n \in 0 .. k + 1 |-> IF n <= k THEN f[n] ELSE Step(ms, type, f, n)]
    OBVIOUS
  <2>5. g = [n \in 0 .. k + 1 |-> Step(ms, type, g, n)]
    <3> HIDE DEF g
    <3> QED
      BY <2>2, <2>3, <2>4
  <2>6. Unfolds(ms, type, g, k + 1)
    BY <2>5 DEF Unfolds
  <2> QED
    BY <2>6
<1>3. Nat \subseteq T
  <2> HIDE DEF T
  <2> QED
    BY <1>1, <1>2, NatSets
<1> QED
  BY <1>3

LEMMA UnfoldsAgree ==
  ASSUME NEW ms, NEW ns, NEW type, NEW k \in Nat, NEW l \in Nat, k <= l,
         \A n \in 1 .. k : ms[n] = ns[n],
         NEW f, Unfolds(ms, type, f, k), NEW g, Unfolds(ns, type, g, l)
  PROVE  f[k] = g[k]
<1> DEFINE T == {n \in Nat : n <= k => f[n] = g[n]}
<1>1. \A n \in 0 .. k : f[n] = Step(ms, type, f, n)
  BY DEF Unfolds
<1>2. \A n \in 0 .. l : g[n] = Step(ns, type, g, n)
  BY DEF Unfolds
<1>3. 0 \in T
  BY <1>1, <1>2 DEF Step
<1>4. ASSUME NEW n \in Nat, n \in T PROVE n + 1 \in T
  BY <1>1, <1>2, <1>4 DEF Step
<1>5. Nat \subseteq T
  <2> HIDE DEF T
  <2> QED
    BY <1>3, <1>4, NatSets
<1> QED
  BY <1>5

LEMMA BodiesUnfold ==
  ASSUME NEW ms, NEW type, Len(ms) \in Nat
  PROVE  \E f : Unfolds(ms, type, f, Len(ms)) /\ Bodies(ms, type) = f[Len(ms)]
<1> DEFINE F == CHOOSE f : Unfolds(ms, type, f, Len(ms))
<1>1. Bodies(ms, type) = F[Len(ms)]
  BY DEF Bodies, Unfolds, Step
<1>2. Unfolds(ms, type, F, Len(ms))
  BY UnfoldsExists
<1> QED
  BY <1>1, <1>2

-----------------------------------------------------------------------------
LEMMA BodiesEmpty == \A type : Bodies(<<>>, type) = <<>>
<1> SUFFICES ASSUME NEW type PROVE Bodies(<<>>, type) = <<>>
  OBVIOUS
<1>1. Len(<<>>) = 0
  OBVIOUS
<1>2. PICK f : Unfolds(<<>>, type, f, 0) /\ Bodies(<<>>, type) = f[0]
  BY <1>1, BodiesUnfold
<1> QED
  BY <1>2 DEF Unfolds, Step

LEMMA BodiesAppend ==
  ASSUME NEW S, NEW ms \in Seq(S), NEW m \in S, NEW type
  PROVE  Bodies(Append(ms, m), type)
           = IF m.type = type THEN Append(Bodies(ms, type), m.body)
             ELSE Bodies(ms, type)
<1> DEFINE ns == Append(ms, m)
           k == Len(ms)
<1>1. k \in Nat /\ Len(ns) = k + 1 /\ ns[k + 1] = m /\ \A n \in 1 .. k : ms[n] = ns[n]
  BY LenProperties, AppendProperties
<1> HIDE DEF ns, k
<1>2. PICK f : Unfolds(ms, type, f, k) /\ Bodies(ms, type) = f[k]
  BY <1>1, BodiesUnfold DEF k
<1>3. PICK g : Unfolds(ns, type, g, k + 1) /\ Bodies(ns, type) = g[k + 1]
  BY <1>1, BodiesUnfold
<1>4. f[k] = g[k]
  BY <1>1, <1>2, <1>3, UnfoldsAgree
<1>5. g[k + 1] = Step(ns, type, g, k + 1)
  BY <1>1, <1>3, SMTT(60) DEF Unfolds
<1>6. Step(ns, type, g, k + 1) = IF m.type = type THEN Append(g[k], m.body) ELSE g[k]
  BY <1>1 DEF Step
<1> QED
  BY <1>2, <1>3, <1>4, <1>5, <1>6 DEF ns

LEMMA BodiesType ==
  ASSUME NEW type PROVE \A ms \in Seq(Message) : Bodies(ms, type) \in Seq(Nat)
<1> DEFINE T == {ms \in Seq(Message) : Bodies(ms, type) \in Seq(Nat)}
<1>1. <<>> \in T
  BY BodiesEmpty, EmptySeq
<1>2. ASSUME NEW ms \in Seq(Message), NEW m \in Message, ms \in T
      PROVE  Append(ms, m) \in T
  <2>1. m.body \in Nat
    BY DEF Message
  <2>2. Append(ms, m) \in Seq(Message)
    BY AppendType
  <2>3. Append(Bodies(ms, type), m.body) \in Seq(Nat) /\ Bodies(ms, type) \in Seq(Nat)
    BY <1>2, <2>1, AppendType
  <2>4. Bodies(Append(ms, m), type)
          = IF m.type = type THEN Append(Bodies(ms, type), m.body)
            ELSE Bodies(ms, type)
    BY BodiesAppend
  <2> QED
    BY <2>2, <2>3, <2>4
<1>3. Seq(Message) \subseteq T
  <2> HIDE DEF T
  <2> QED
    BY <1>1, <1>2, SeqSets
<1> QED
  BY <1>3

LEMMA BodiesConcat ==
  ASSUME NEW type, NEW us \in Seq(Message)
  PROVE  \A ms \in Seq(Message) :
           Bodies(us \o ms, type) = Bodies(us, type) \o Bodies(ms, type)
<1> DEFINE Splits(ms) == Bodies(us \o ms, type) = Bodies(us, type) \o Bodies(ms, type)
           T == {ms \in Seq(Message) : Splits(ms)}
<1>1. <<>> \in T
  <2>1. us \o <<>> = us
    BY ConcatEmptySeq
  <2>2. Bodies(us, type) \o <<>> = Bodies(us, type)
    BY BodiesType, ConcatEmptySeq
  <2> QED
    BY <2>1, <2>2, BodiesEmpty, EmptySeq
<1>2. ASSUME NEW ms \in Seq(Message), NEW m \in Message, ms \in T
      PROVE  Append(ms, m) \in T
  <2> DEFINE U == Bodies(us, type)
             B == Bodies(ms, type)
  <2>1. Append(ms, m) \in Seq(Message) /\ us \o ms \in Seq(Message)
    BY AppendType, ConcatType
  <2>2. us \o Append(ms, m) = Append(us \o ms, m)
    OBVIOUS
  <2>3. Bodies(us \o Append(ms, m), type)
          = IF m.type = type THEN Append(Bodies(us \o ms, type), m.body)
            ELSE Bodies(us \o ms, type)
    <3>1. Bodies(Append(us \o ms, m), type)
            = IF m.type = type THEN Append(Bodies(us \o ms, type), m.body)
              ELSE Bodies(us \o ms, type)
      BY <2>1, BodiesAppend
    <3> QED
      BY <2>2, <3>1
  <2>4. Bodies(Append(ms, m), type) = IF m.type = type THEN Append(B, m.body) ELSE B
    BY BodiesAppend
  <2>5. U \in Seq(Nat) /\ B \in Seq(Nat) /\ m.body \in Nat
    BY BodiesType DEF Message
  <2>6. U \o Append(B, m.body) = Append(U \o B, m.body)
    <3> HIDE DEF U, B
    <3> QED
      BY <2>5, SMTT(60)
  <2>7. Bodies(us \o ms, type) = U \o B
    BY <1>2
  <2> QED
    BY <2>1, <2>3, <2>4, <2>6, <2>7
<1>3. Seq(Message) \subseteq T
  <2> HIDE DEF T
  <2> QED
    BY <1>1, <1>2, SeqSets
<1> QED
  BY <1>3

LEMMA BodiesOne ==
  ASSUME NEW m \in Message, NEW type
  PROVE  Bodies(<<m>>, type) = IF m.type = type THEN <<m.body>> ELSE <<>>
<1>1. <<m>> = Append(<<>>, m) /\ <<>> \in Seq(Message)
  OBVIOUS
<1>2. Bodies(<<m>>, type) = IF m.type = type THEN Append(<<>>, m.body) ELSE <<>>
  <2>1. Bodies(Append(<<>>, m), type) = IF m.type = type
                                          THEN Append(Bodies(<<>>, type), m.body)
                                          ELSE Bodies(<<>>, type)
    BY <1>1, BodiesAppend
  <2> QED
    BY <1>1, <2>1, BodiesEmpty
<1> QED
  BY <1>2

\* A message taken from the head of a stream.
LEMMA BodiesTail ==
  ASSUME NEW ms \in Seq(Message), ms # <<>>, NEW type
  PROVE  Bodies(ms, type) = IF ms[1].type = type
                              THEN <<ms[1].body>> \o Bodies(Tail(ms), type)
                              ELSE Bodies(Tail(ms), type)
<1>1. ms[1] \in Message /\ Tail(ms) \in Seq(Message)
  BY TailType
<1>2. ms = <<ms[1]>> \o Tail(ms)
  OBVIOUS
<1>3. <<ms[1]>> \in Seq(Message)
  BY <1>1, OneType
<1>4. Bodies(ms, type) = Bodies(<<ms[1]>>, type) \o Bodies(Tail(ms), type)
  BY <1>1, <1>2, <1>3, BodiesConcat, ZenonT(60)
<1>5. <<>> \o Bodies(Tail(ms), type) = Bodies(Tail(ms), type)
  BY <1>1, BodiesType, ConcatEmptySeq
<1> QED
  BY <1>1, <1>4, <1>5, BodiesOne
=============================================================================
