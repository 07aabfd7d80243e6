--------------------------- MODULE Framing_proofs ---------------------------
(***************************************************************************)
(* Messages of every length up to MaxLength, in any number and cut in any  *)
(* way, come out as they went in, and there is always room to read.        *)
(***************************************************************************)
EXTENDS Framing, TLAPS

Msgs == [at : Nat, length : HeaderSize .. MaxLength]

FramingTypeOK ==
  /\ msgs \in Seq(Msgs) /\ handled \in Seq(Msgs)
  /\ arrived \in Nat /\ buflen \in Nat
  /\ rpc \in {"select", "messages", "ended"}

\* Messages follow each other in the stream, without a gap and without overlap.
Contiguous ==
  \A i \in 1 .. Len(msgs) :
    /\ i = 1 => msgs[i].at = 0
    /\ i > 1 => msgs[i].at = msgs[i - 1].at + msgs[i - 1].length
    /\ \A j \in 1 .. Len(msgs) : i < j => msgs[i].at + msgs[i].length <= msgs[j].at

\* What was handled is what was written first, and the buffer begins where
\* the next message does.
Aligned ==
  /\ Len(handled) <= Len(msgs)
  /\ \A i \in 1 .. Len(handled) : handled[i] = msgs[i]
  /\ Len(handled) = Len(msgs) => Start = Written
  /\ Len(handled) < Len(msgs) => Start = msgs[Len(handled) + 1].at

\* The buffer holds nothing that was not written, and no whole message when
\* the loop goes to read.
Partial ==
  /\ buflen <= arrived /\ arrived <= Written /\ buflen <= BufferSize
  /\ rpc # "ended"
  /\ rpc = "select" => 
       /\ Len(handled) = Len(msgs) => buflen = 0
       /\ Len(handled) < Len(msgs) => buflen < msgs[Len(handled) + 1].length

FInv == FramingTypeOK /\ Contiguous /\ Aligned /\ Partial

USE FramingAssumption

\* The end of the stream written so far is a number, and no message is beyond.
LEMMA WrittenBounds ==
  ASSUME FramingTypeOK, Contiguous
  PROVE  /\ Written \in Nat
         /\ \A i \in 1 .. Len(msgs) : msgs[i].at + msgs[i].length <= Written
  <1> msgs = <<>> <=> Len(msgs) = 0
    BY DEF FramingTypeOK
  <1>1. CASE Len(msgs) = 0
    BY <1>1 DEF FramingTypeOK, Written
  <1>2. CASE Len(msgs) # 0
    <2>1. Len(msgs) \in 1 .. Len(msgs) /\ msgs[Len(msgs)] \in Msgs
      BY <1>2 DEF FramingTypeOK
    <2>2. Written = msgs[Len(msgs)].at + msgs[Len(msgs)].length
      BY <1>2 DEF Written
    <2>3. \A i \in 1 .. Len(msgs) : msgs[i] \in Msgs
      BY DEF FramingTypeOK
    <2>4. ASSUME NEW i \in 1 .. Len(msgs)
          PROVE  msgs[i].at + msgs[i].length <= Written
      <3>1. CASE i = Len(msgs)
        BY <2>1, <2>2, <3>1 DEF Msgs
      <3>2. CASE i < Len(msgs)
        <4>1. msgs[i].at + msgs[i].length <= msgs[Len(msgs)].at
          BY <2>1, <3>2 DEF Contiguous
        <4> QED BY <2>1, <2>2, <2>3, <4>1 DEF Msgs
      <3> QED BY <3>1, <3>2
    <2> QED BY <2>1, <2>2, <2>4 DEF Msgs
  <1> QED BY <1>1, <1>2

\* Where the buffer begins there is the next message and no other: with its
\* header come, the front of the buffer is taken for nothing else.
LEMMA FrontIsNext ==
  ASSUME FInv, Len(handled) < Len(msgs), buflen >= HeaderSize
  PROVE  Front = {msgs[Len(handled) + 1]}
  <1> DEFINE k == Len(handled) + 1
  <1>1. k \in 1 .. Len(msgs) /\ Start = msgs[k].at
    BY DEF FInv, FramingTypeOK, Aligned
  <1>2. \A i \in 1 .. Len(msgs) : msgs[i] \in Msgs
    BY DEF FInv, FramingTypeOK
  <1>3. ASSUME NEW i \in 1 .. Len(msgs), msgs[i].at = msgs[k].at
        PROVE  i = k
    <2>1. CASE i < k
      <3>1. msgs[i].at + msgs[i].length <= msgs[k].at
        BY <1>1, <2>1 DEF FInv, Contiguous
      <3> QED BY <1>1, <1>2, <1>3, <3>1 DEF Msgs
    <2>2. CASE k < i
      <3>1. msgs[k].at + msgs[k].length <= msgs[i].at
        BY <1>1, <2>2 DEF FInv, Contiguous
      <3> QED BY <1>1, <1>2, <1>3, <3>1 DEF Msgs
    <2> QED BY <1>1, <2>1, <2>2 DEF FInv, FramingTypeOK
  <1>4. {j \in 1 .. Len(msgs) : msgs[j].at = Start} = {k}
    BY <1>1, <1>3
  <1> HIDE DEF k
  <1>5. {msgs[i] : i \in {j \in 1 .. Len(msgs) : msgs[j].at = Start}} = {msgs[k]}
    BY <1>4
  <1> QED BY <1>5 DEF Front, k

\* When everything written was handled nothing is left in the buffer.
LEMMA AllHandled ==
  ASSUME FInv, Len(handled) = Len(msgs)
  PROVE  buflen = 0
  BY WrittenBounds DEF FInv, FramingTypeOK, Aligned, Partial, Start

\* A message that is whole in the buffer is the next one.
LEMMA WholeIsNext ==
  ASSUME FInv, NEW m \in Front, Whole(m)
  PROVE  Len(handled) < Len(msgs) /\ m = msgs[Len(handled) + 1]
  <1>1. buflen >= HeaderSize
    BY DEF Whole
  <1>2. Len(handled) # Len(msgs)
    BY <1>1, AllHandled DEF FInv, FramingTypeOK
  <1>3. Len(handled) < Len(msgs)
    BY <1>2 DEF FInv, Aligned, FramingTypeOK
  <1> QED BY <1>1, <1>3, FrontIsNext

LEMMA FInit == FramingInit => FInv
  BY DEF FramingInit, FInv, FramingTypeOK, Contiguous, Aligned, Partial, Start,
         Written

LEMMA FSend == ASSUME FInv, NEW l \in Lengths, Send(l) PROVE FInv'
  <1> DEFINE m == [at |-> Written, length |-> l]
  <1>0. /\ Written \in Nat
        /\ \A i \in 1 .. Len(msgs) : msgs[i].at + msgs[i].length <= Written
        /\ m \in Msgs
    BY WrittenBounds DEF FInv, Msgs
  <1>1. /\ msgs' = Append(msgs, m) /\ Len(msgs') = Len(msgs) + 1
        /\ \A i \in 1 .. Len(msgs) : msgs'[i] = msgs[i]
        /\ msgs'[Len(msgs) + 1] = m
        /\ UNCHANGED <<arrived, buflen, handled, rpc>>
    BY <1>0 DEF Send, FInv, FramingTypeOK
  <1> Len(msgs) \in Nat /\ Len(handled) \in Nat /\ msgs' \in Seq(Msgs)
    BY <1>0, <1>1 DEF FInv, FramingTypeOK
  <1> m.at = Written /\ m.length = l /\ l \in Nat /\ HeaderSize <= l
    OBVIOUS
  <1> HIDE DEF m
  <1>2. FramingTypeOK'
    BY <1>1 DEF FInv, FramingTypeOK
  <1>3. Written' = Written + l
    BY <1>0, <1>1 DEF Written
  <1>4. Contiguous'
    <2> SUFFICES ASSUME NEW i \in 1 .. Len(msgs')
                 PROVE  /\ i = 1 => msgs'[i].at = 0
                        /\ i > 1 => msgs'[i].at = msgs'[i - 1].at + msgs'[i - 1].length
                        /\ \A j \in 1 .. Len(msgs') :
                             i < j => msgs'[i].at + msgs'[i].length <= msgs'[j].at
      BY DEF Contiguous
    <2>1. CASE i <= Len(msgs)
      <3>1. i \in 1 .. Len(msgs) /\ (i > 1 => i - 1 \in 1 .. Len(msgs))
        BY <2>1
      <3>2. ASSUME NEW j \in 1 .. Len(msgs'), i < j
            PROVE  msgs'[i].at + msgs'[i].length <= msgs'[j].at
        <4>1. CASE j <= Len(msgs)
          BY <1>1, <3>1, <3>2, <4>1 DEF FInv, Contiguous
        <4>2. CASE j = Len(msgs) + 1
          BY <1>0, <1>1, <3>1, <4>2
        <4> QED BY <1>1, <4>1, <4>2
      <3> QED BY <1>1, <3>1, <3>2 DEF FInv, Contiguous
    <2>2. CASE i = Len(msgs) + 1
      <3>1. i = 1 => msgs = <<>>
        BY <2>2 DEF FInv, FramingTypeOK
      <3>2. i > 1 => msgs # <<>> /\ i - 1 = Len(msgs)
        BY <2>2 DEF FInv, FramingTypeOK
      <3> QED BY <1>1, <2>2, <3>1, <3>2 DEF Written
    <2> QED BY <1>1, <2>1, <2>2
  <1>5. Aligned'
    <2>1. Start' = Start
      BY <1>1 DEF Start
    <2>2. CASE Len(handled) = Len(msgs)
      BY <1>1, <2>1, <2>2 DEF FInv, Aligned
    <2>3. CASE Len(handled) < Len(msgs)
      BY <1>1, <2>1, <2>3 DEF FInv, Aligned
    <2> QED BY <2>2, <2>3 DEF FInv, Aligned
  <1>6. Partial'
    <2>1. buflen' <= arrived' /\ arrived' <= Written' /\ buflen' <= BufferSize /\ rpc' # "ended"
      BY <1>0, <1>1, <1>3 DEF FInv, FramingTypeOK, Partial
    <2>2. CASE Len(handled) = Len(msgs)
      BY <1>1, <2>1, <2>2, AllHandled DEF FInv, Partial
    <2>3. CASE Len(handled) < Len(msgs)
      BY <1>1, <2>1, <2>3 DEF FInv, Partial
    <2> QED BY <2>2, <2>3 DEF FInv, Aligned
  <1> QED BY <1>2, <1>4, <1>5, <1>6 DEF FInv

\* A loop that goes to read has room, since what is in the buffer is less than
\* one message.
LEMMA RoomLeft ==
  ASSUME FInv, rpc = "select"
  PROVE  Space > 0
  <1>1. CASE Len(handled) = Len(msgs)
    BY <1>1 DEF FInv, Partial, Space
  <1>2. CASE Len(handled) < Len(msgs)
    <2>1. Len(handled) + 1 \in 1 .. Len(msgs)
      BY <1>2 DEF FInv, FramingTypeOK
    <2>2. msgs[Len(handled) + 1] \in Msgs
      BY <2>1 DEF FInv, FramingTypeOK
    <2> QED BY <1>2, <2>2 DEF FInv, FramingTypeOK, Partial, Space, Msgs
  <1> QED BY <1>1, <1>2 DEF FInv, FramingTypeOK, Aligned

LEMMA FReadMore == ASSUME FInv, ReadMore PROVE FInv'
  <1>1. PICK n \in 1 .. Space :
          /\ arrived + n <= Written
          /\ arrived' = arrived + n /\ buflen' = buflen + n
          /\ rpc' = "messages"
    BY RoomLeft DEF ReadMore
  <1>2. UNCHANGED <<msgs, handled>>
    BY DEF ReadMore
  <1>3. Written' = Written
    BY <1>2 DEF Written
  <1>4. Start' = Start
    BY <1>1 DEF Start, FInv, FramingTypeOK, Space
  <1>5. FramingTypeOK'
    BY <1>1, <1>2 DEF FInv, FramingTypeOK, Space
  <1>6. Contiguous'
    BY <1>2 DEF FInv, Contiguous
  <1>7. Aligned'
    BY <1>2, <1>3, <1>4 DEF FInv, Aligned
  <1>8. Partial'
    BY <1>1, <1>2, <1>3 DEF FInv, FramingTypeOK, Partial, Space
  <1> QED BY <1>5, <1>6, <1>7, <1>8 DEF FInv

LEMMA FHandle == ASSUME FInv, Handle PROVE FInv'
  <1> DEFINE k == Len(handled) + 1
  <1>1. PICK m \in Front : Whole(m) /\ handled' = Append(handled, m)
                           /\ buflen' = LeftAfter(m)
    BY DEF Handle
  <1>2. /\ UNCHANGED <<msgs, arrived>> /\ rpc' = "messages"
        /\ k \in 1 .. Len(msgs) /\ m = msgs[k] /\ m \in Msgs
    BY <1>1, WholeIsNext DEF Handle, AfterMessage, FInv, FramingTypeOK
  <1>3. /\ Len(handled') = k /\ handled'[k] = m /\ handled' \in Seq(Msgs)
        /\ \A i \in 1 .. Len(handled) : handled'[i] = handled[i]
    BY <1>1, <1>2 DEF FInv, FramingTypeOK
  <1>4. buflen' = buflen - m.length /\ m.length <= buflen /\ m.length \in Nat
    BY <1>1, <1>2 DEF LeftAfter, Whole, Msgs
  <1>5. Written' = Written /\ Start' = Start + m.length /\ Start = m.at
    BY <1>2, <1>4 DEF Written, Start, FInv, FramingTypeOK, Aligned
  <1>6. FramingTypeOK'
    BY <1>2, <1>3, <1>4 DEF FInv, FramingTypeOK
  <1>7. Contiguous'
    BY <1>2 DEF FInv, Contiguous
  <1>8. Aligned'
    <2>1. \A i \in 1 .. Len(handled') : handled'[i] = msgs'[i]
      BY <1>2, <1>3 DEF FInv, FramingTypeOK, Aligned
    <2>2. k = Len(msgs) => Start' = Written'
      <3>1. msgs = <<>> => Len(msgs) = 0
        OBVIOUS
      <3> QED BY <1>2, <1>5, <3>1 DEF Written
    <2>3. ASSUME k < Len(msgs) PROVE Start' = msgs'[k + 1].at
      <3>1. k + 1 \in 1 .. Len(msgs) /\ k + 1 > 1 /\ (k + 1) - 1 = k
        BY <1>2, <2>3 DEF FInv, FramingTypeOK
      <3>2. msgs[k + 1].at = msgs[(k + 1) - 1].at + msgs[(k + 1) - 1].length
        BY <3>1 DEF FInv, Contiguous
      <3> QED BY <1>2, <1>5, <3>1, <3>2
    <2> QED BY <1>2, <1>3, <2>1, <2>2, <2>3 DEF Aligned
  <1>9. Partial'
    BY <1>2, <1>4, <1>5 DEF FInv, FramingTypeOK, Partial
  <1> QED BY <1>6, <1>7, <1>8, <1>9 DEF FInv

LEMMA FNotYet == ASSUME FInv, NotYet PROVE FInv'
  <1>1. UNCHANGED <<msgs, arrived, buflen, handled>> /\ rpc' = "select"
    BY DEF NotYet
  <1>2. Len(handled) = Len(msgs) => buflen = 0
    BY AllHandled
  <1>3. ASSUME Len(handled) < Len(msgs)
        PROVE  buflen < msgs[Len(handled) + 1].length
    <2>1. msgs[Len(handled) + 1] \in Msgs
      BY <1>3 DEF FInv, FramingTypeOK
    <2>2. CASE buflen < HeaderSize
      BY <2>1, <2>2 DEF Msgs, FInv, FramingTypeOK
    <2>3. CASE buflen >= HeaderSize
      BY <1>3, <2>1, <2>3, FrontIsNext, SMTT(60) DEF NotYet, Whole, Msgs, FInv, FramingTypeOK
    <2> QED BY <2>2, <2>3 DEF FInv, FramingTypeOK
  <1>4. Written' = Written /\ Start' = Start
    BY <1>1 DEF Written, Start
  <1>5. FramingTypeOK' /\ Contiguous' /\ Aligned'
    BY <1>1, <1>4 DEF FInv, FramingTypeOK, Contiguous, Aligned
  <1>6. Partial'
    BY <1>1, <1>2, <1>3, <1>4 DEF FInv, Partial
  <1> QED BY <1>5, <1>6 DEF FInv

LEMMA FStep == FInv /\ [FramingNext]_framingVars => FInv'
  <1> SUFFICES ASSUME FInv, [FramingNext]_framingVars PROVE FInv'
    OBVIOUS
  <1>1. CASE \E l \in Lengths : Send(l)
    BY <1>1, FSend
  <1>2. CASE ReadMore
    BY <1>2, FReadMore
  <1>3. CASE Handle
    BY <1>3, FHandle
  <1>4. CASE NotYet
    BY <1>4, FNotYet
  <1>5. CASE UNCHANGED framingVars
    BY <1>5 DEF framingVars, FInv, FramingTypeOK, Contiguous, Aligned, Partial,
                Start, Written
  <1> QED BY <1>1, <1>2, <1>3, <1>4, <1>5 DEF FramingNext, FramingStep

LEMMA FAlways == FramingSpec => []FInv
  BY FInit, FStep, PTL DEF FramingSpec

-----------------------------------------------------------------------------
\* Whatever the lengths and the cuts, a loop that goes to read has room in its
\* buffer (child.c:805-811, jail.c:298-303).
THEOREM AlwaysRoom == FramingSpec => []RoomToRead
  <1>1. FInv => RoomToRead
    BY RoomLeft DEF RoomToRead, FInv, Partial
  <1> QED BY <1>1, FAlways, PTL

\* The buffer implements the queue of messages the protocol is written for
\* (buffer.c:40-75).
THEOREM BufferIsQueue == FramingSpec => QueueKept
  <1>1. FramingInit => Queue!Init
    BY DEF FramingInit, Queue!Init
  <1>2. FInv /\ [FramingNext]_framingVars => [Queue!Next]_<<msgs, handled>>
    <2> SUFFICES ASSUME FInv, [FramingNext]_framingVars
                 PROVE  Queue!Next \/ UNCHANGED <<msgs, handled>>
      OBVIOUS
    <2>1. ASSUME NEW l \in Lengths, Send(l) PROVE Queue!Put
      <3> DEFINE m == [at |-> Written, length |-> l]
      <3>1. m \in Msgs /\ msgs \in Seq(Msgs)
        BY WrittenBounds DEF FInv, FramingTypeOK, Msgs
      <3>2. msgs' = Append(msgs, m) /\ handled' = handled
        BY <2>1 DEF Send
      <3> HIDE DEF m
      <3>3. Len(msgs') = Len(msgs) + 1 /\ SubSeq(msgs', 1, Len(msgs)) = msgs
        BY <3>1, <3>2
      <3> QED BY <3>2, <3>3 DEF Queue!Put
    <2>2. ASSUME Handle PROVE Queue!Take
      BY <2>2, WholeIsNext DEF Handle, Queue!Take
    <2>3. CASE ReadMore \/ NotYet \/ UNCHANGED framingVars
      BY <2>3 DEF ReadMore, NotYet, framingVars
    <2> QED BY <2>1, <2>2, <2>3 DEF FramingNext, FramingStep, Queue!Next
  <1> QED BY <1>1, <1>2, FAlways, PTL DEF FramingSpec, QueueKept, Queue!Spec
=============================================================================
