-------------------------------- MODULE Flood --------------------------------
(***************************************************************************)
(* AnyClient with a client that may send for ever, and a program, or what  *)
(* it left behind, that may write for ever.  What comes so is not counted  *)
(* by the histories, so that TLC sees all of it in a finite graph.         *)
(***************************************************************************)
EXTENDS AnyClient

\* A write(2) of one more unit, without an end.
ProgramFloods(d) ==
  LET s == StreamBehind(d) IN
  /\ ServerLives
  /\ d \in stdio \ {0}
  /\ Len(pipe[s]) < PipeCap
  /\ pipe' = [pipe EXCEPT ![s] = Append(@, 0)]
  /\ UNCHANGED <<wireVars, serverVars, prog, code, stdio, inPipe, consumed,
                 written, ttySize>>

\* A client whose terminal is resized again and again.
ClientFloods ==
  /\ cliEnd = "open" /\ srvEnd # "closed"
  /\ Len(c2s) < SockCap
  /\ \E size \in Sizes : c2s' = Append(c2s, Msg("Winsize", size))
  /\ UNCHANGED <<s2c, cliEnd, srvEnd, sent, got, serverVars, progVars>>

\* It reads as before, and remembers nothing.
ClientSkims ==
  /\ cliEnd = "open"
  /\ \E k \in 1 .. Len(s2c) : s2c' = SubSeq(s2c, k + 1, Len(s2c))
  /\ UNCHANGED <<c2s, cliEnd, srvEnd, sent, got, serverVars, progVars>>

FloodNext ==
  \/ ClientConnects \/ ClientSends \/ ClientSkims \/ ClientCloses
  \/ SessionSide
  \/ ClientFloods \/ \E d \in {1, 2} : ProgramFloods(d)
  \/ Finished

\* Whoever floods need not go on; all else is as in AnyClient.
FloodSpec ==
  /\ Init /\ [][FloodNext]_vars
  /\ WF_vars(ServerStep) /\ WF_vars(Deliver) /\ WF_vars(AlarmRings)
  /\ WF_vars(ClientSkims)
=============================================================================
