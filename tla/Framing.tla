------------------------------- MODULE Framing -------------------------------
(***************************************************************************)
(* How messages come out of a stream of bytes (src/common/buffer.c and the *)
(* loops of child_process_remote and client_process_remote, which are the  *)
(* same).  read(2) returns any part of what was written; the buffer keeps  *)
(* the bytes of a message until it is whole.                               *)
(*                                                                         *)
(* Bytes are known by their offset in the stream: the buffer holds buflen  *)
(* bytes from offset Start on, and a message is found where it was written.*)
(* Where none was written the code would take whatever bytes lie there for *)
(* a header.                                                               *)
(***************************************************************************)
EXTENDS Naturals, Sequences

CONSTANTS
  BufferSize,       \* sizeof(buffer->buffer)
  HeaderSize,       \* sizeof(message_t), the shortest message
  MaxLength,        \* the largest value of the field length
  Lengths,          \* the lengths of the messages that are sent
  MaxMessages       \* bound: how many are sent

ASSUME FramingAssumption ==
  /\ BufferSize \in Nat /\ MaxLength \in Nat /\ MaxLength < BufferSize
  /\ HeaderSize \in Nat \ {0}
  /\ Lengths \subseteq HeaderSize .. MaxLength
  /\ MaxMessages \in Nat

VARIABLES
  msgs,             \* history: the messages written, each with its offset
  arrived,          \* how many bytes have been read
  buflen,           \* how many of them are still in the buffer
  handled,          \* history: the messages executed or dispatched
  rpc               \* "select", "messages" while they are taken out, "ended"

framingVars == <<msgs, arrived, buflen, handled, rpc>>

FramingInit ==
  /\ msgs = <<>> /\ handled = <<>>
  /\ arrived = 0 /\ buflen = 0
  /\ rpc = "select"

Written == IF msgs = <<>> THEN 0
           ELSE msgs[Len(msgs)].at + msgs[Len(msgs)].length
Start == arrived - buflen

\* The other end's write(2) of one message.
Send(l) ==
  /\ Len(msgs) < MaxMessages
  /\ msgs' = Append(msgs, [at |-> Written, length |-> l])
  /\ UNCHANGED <<arrived, buflen, handled, rpc>>

\* A mistake that a run tells from the code: room for a header is kept back.
SpaceBesideHeader == BufferSize - HeaderSize - buflen

\* buffer_get_buffer_space.
Space == BufferSize - buflen

\* A read(2) that has something to read and room for it.  Without room it
\* would return zero, which the code takes for the end of the stream.
ReadMore ==
  /\ rpc = "select" /\ arrived < Written
  /\ IF Space > 0
       THEN \E n \in 1 .. Space :
              /\ arrived + n <= Written
              /\ arrived' = arrived + n
              /\ buflen' = buflen + n
              /\ rpc' = "messages"
       ELSE rpc' = "ended" /\ UNCHANGED <<arrived, buflen>>
  /\ UNCHANGED <<msgs, handled>>

\* What the front of the buffer is taken for: the header is that of the
\* message there, if one begins there and its header has come.
Front ==
  LET here == {msgs[i] : i \in {j \in 1 .. Len(msgs) : msgs[j].at = Start}}
  IN  IF here # {} /\ buflen >= HeaderSize
        THEN here ELSE [at : {Start}, length : 0 .. MaxLength]

\* buffer_get_message.
Whole(m) == buflen >= HeaderSize /\ m.length <= buflen

\* A mistake that a run tells from the code: one message is taken per read(2).
AfterMessageSelect == "select"

AfterMessage == "messages"

\* A mistake that a run tells from the code: the buffer is emptied.
LeftAfterNothing(m) == 0

\* buffer_consume_message.
LeftAfter(m) == buflen - m.length

Handle ==
  /\ rpc = "messages"
  /\ \E m \in Front :
       /\ Whole(m)
       /\ handled' = Append(handled, m)
       /\ buflen' = LeftAfter(m)
  /\ rpc' = AfterMessage
  /\ UNCHANGED <<msgs, arrived>>

NotYet ==
  /\ rpc = "messages"
  /\ \E m \in Front : ~Whole(m)
  /\ rpc' = "select"
  /\ UNCHANGED <<msgs, arrived, buflen, handled>>

FramingStep == ReadMore \/ Handle \/ NotYet

FramingNext == (\E l \in Lengths : Send(l)) \/ FramingStep

FramingSpec == FramingInit /\ [][FramingNext]_framingVars

\* The kernel runs the reader when it can run.
FramingFairSpec == FramingSpec /\ WF_framingVars(FramingStep)

-----------------------------------------------------------------------------
\* There is room in the buffer for more whenever the loop goes to read, so
\* that a long message is never taken for the end of the connection
\* (child.c:805-811, jail.c:298-303).
RoomToRead == rpc # "ended" /\ (rpc = "select" => Space > 0)

\* However the stream is cut, the messages come out as they went in: one by
\* one, whole, once and in order (buffer.c:40-75).
Queue == INSTANCE MessageQueue WITH put <- msgs, taken <- handled
QueueKept == Queue!Spec

\* Every message is executed, whatever came with it in one read(2) and
\* whatever follows it (child.c:815-829, jail.c:307-321).
EveryMessageHandled ==
  \A i \in 1 .. MaxMessages : Len(msgs) >= i ~> Len(handled) >= i
=============================================================================
