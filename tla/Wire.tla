-------------------------------- MODULE Wire --------------------------------
(***************************************************************************)
(* The unix stream socket between one jail client and one jaild session.   *)
(*                                                                         *)
(* Each direction is a FIFO of messages of src/common/message.h.  A body is *)
(* a number: the window size of TypeForkTty and TypeWinsize, the index of   *)
(* the unit of data carried by TypeStdIn, TypeStdOut and TypeStdErr (a unit *)
(* is what one read(2) returned), the raw wait status of TypeStatus.        *)
(*                                                                         *)
(* sent and got are history variables: all the client ever wrote, and all   *)
(* it ever read.                                                            *)
(***************************************************************************)
EXTENDS Integers, Sequences

CONSTANTS
  SockCap,          \* how many messages one direction of the socket holds
  EmulatedPselect   \* TRUE: glibc emulates pselect(2), not atomically, and the
                    \* loops at both ends of the socket have to live with it

ASSUME SockCapAssumption == SockCap \in Nat \ {0}
ASSUME EmulatedAssumption == EmulatedPselect \in BOOLEAN

VARIABLES
  c2s, s2c,         \* messages written and not yet read, per direction
  cliEnd, srvEnd,   \* "idle" (not there yet), "open" or "closed"
  sent, got

wireVars == <<c2s, s2c, cliEnd, srvEnd, sent, got>>

ForkTypes == {"ForkSocket", "ForkPipe", "ForkTty"}
Types == ForkTypes \cup {"Winsize", "StdIn", "StdOut", "StdErr", "Status"}

Message == [type : Types, body : Nat]
Msg(type, body) == [type |-> type, body |-> body]

Ends == {"idle", "open", "closed"}

WireTypeOK ==
  /\ c2s \in Seq(Message) /\ s2c \in Seq(Message)
  /\ cliEnd \in Ends /\ srvEnd \in Ends
  /\ sent \in Seq(Message) /\ got \in Seq(Message)

WireInit ==
  /\ c2s = <<>> /\ s2c = <<>>
  /\ cliEnd = "idle" /\ srvEnd = "idle"
  /\ sent = <<>> /\ got = <<>>

(***************************************************************************)
(* Operations of the client's end.                                         *)
(***************************************************************************)
Connect ==
  /\ cliEnd = "idle"
  /\ cliEnd' = "open"
  /\ UNCHANGED <<c2s, s2c, srvEnd, sent, got>>

\* A blocking write(2): it waits for room, unless the other end is closed.
ClientSend(m) ==
  /\ srvEnd # "closed" /\ Len(c2s) < SockCap
  /\ c2s' = Append(c2s, m)
  /\ sent' = Append(sent, m)
  /\ UNCHANGED <<s2c, cliEnd, srvEnd, got>>

\* One read(2) of k messages: a stream has no boundaries between them.
ClientRecv(k) ==
  /\ k \in 1 .. Len(s2c)
  /\ got' = got \o SubSeq(s2c, 1, k)
  /\ s2c' = SubSeq(s2c, k + 1, Len(s2c))
  /\ UNCHANGED <<c2s, cliEnd, srvEnd, sent>>

ClientClose ==
  /\ cliEnd = "open"
  /\ cliEnd' = "closed"
  /\ UNCHANGED <<c2s, s2c, srvEnd, sent, got>>

(***************************************************************************)
(* Operations of the session's end.                                        *)
(***************************************************************************)
ServerAccept ==
  /\ cliEnd # "idle" /\ srvEnd = "idle"
  /\ srvEnd' = "open"
  /\ UNCHANGED <<c2s, s2c, cliEnd, sent, got>>

ServerSend(m) ==
  /\ cliEnd = "open" /\ Len(s2c) < SockCap
  /\ s2c' = Append(s2c, m)
  /\ UNCHANGED <<c2s, cliEnd, srvEnd, sent, got>>

ServerRecv(k) ==
  /\ k \in 1 .. Len(c2s)
  /\ c2s' = SubSeq(c2s, k + 1, Len(c2s))
  /\ UNCHANGED <<s2c, cliEnd, srvEnd, sent, got>>

ServerClose ==
  /\ srvEnd' = "closed"
  /\ UNCHANGED <<c2s, s2c, cliEnd, sent, got>>

\* What select(2) and read(2) see: data, or the end of the stream.
ServerReadable == c2s # <<>> \/ cliEnd = "closed"
ClientReadable == s2c # <<>> \/ srvEnd = "closed"

\* The bodies of the messages of one type, in their order.
Bodies(ms, type) ==
  LET upTo[n \in 0 .. Len(ms)] ==
        IF n = 0 THEN <<>>
        ELSE IF ms[n].type = type THEN Append(upTo[n - 1], ms[n].body)
        ELSE upTo[n - 1]
  IN  upTo[Len(ms)]
=============================================================================
