------------------------------ MODULE AnyClient ------------------------------
(***************************************************************************)
(* A session of jaild with an arbitrary client: one that may send the      *)
(* messages of the protocol in any order, stop sending, read when it likes *)
(* and close at any moment.  What holds here holds whoever connects.       *)
(***************************************************************************)
EXTENDS SessionServer

CONSTANTS
  Requests,         \* the types of message this client knows
  Sizes,            \* window sizes
  MaxSend           \* bound: messages the client sends

ASSUME RequestsAssumption == Requests \subseteq Types
ASSUME SizesAssumption == Sizes \subseteq Nat
ASSUME MaxSendAssumption == MaxSend \in Nat

vars == sessionVars

Init == WireInit /\ ServerInit /\ ProgInit

ClientConnects == Connect /\ UNCHANGED <<serverVars, progVars>>

\* StdIn carries its position in the stream, so that two units differ.
Sendable ==
  {m \in [type : Requests, body : Sizes \cup {Len(sent) + 1}] :
     m.type = "StdIn" <=> m.body = Len(sent) + 1}

ClientSends ==
  /\ cliEnd = "open"
  /\ Len(sent) < MaxSend
  /\ \E m \in Sendable : ClientSend(m)
  /\ UNCHANGED <<serverVars, progVars>>

ClientReads ==
  /\ cliEnd = "open"
  /\ \E k \in 1 .. Len(s2c) : ClientRecv(k)
  /\ UNCHANGED <<serverVars, progVars>>

ClientCloses == ClientClose /\ UNCHANGED <<serverVars, progVars>>

\* The session is over: nothing more has to happen.
Finished == pc = "done" /\ UNCHANGED vars

Next ==
  \/ ClientConnects \/ ClientSends \/ ClientReads \/ ClientCloses
  \/ SessionSide
  \/ Finished

Spec == Init /\ [][Next]_vars

(***************************************************************************)
(* The kernel runs the session when it can run, the timer rings, and the   *)
(* client reads what was sent to it or closes.  The program need not do    *)
(* anything.                                                               *)
(***************************************************************************)
Fairness ==
  /\ WF_vars(ServerStep)
  /\ WF_vars(Deliver)
  /\ WF_vars(AlarmRings)
  /\ WF_vars(ClientReads)

FairSpec == Spec /\ Fairness
=============================================================================
