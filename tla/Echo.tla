-------------------------------- MODULE Echo --------------------------------
(***************************************************************************)
(* Session with a program that copies its standard input to its standard   *)
(* output, as `cat file | jail cat` has it: it reads one unit, writes it,  *)
(* and reads the next.                                                     *)
(***************************************************************************)
EXTENDS Session

Holds == Len(consumed) - written["stdout"]      \* units read, not yet written

CopyStep ==
  \/ Holds = 0 /\ ProgramReads
  \/ Holds > 0 /\ ProgramWrites(1)

EchoServerMoves ==
  /\ ServerStep \/ Deliver \/ AlarmRings \/ CopyStep
  /\ UNCHANGED <<clientVars, userVars, final>>

EchoNext == EchoServerMoves \/ ClientMoves \/ Finished

EchoSpec == Init /\ [][EchoNext]_vars

\* "Just like the way you SSH" (README.md:26-27): a program that always comes
\* back to read its input is never left waiting for room in its output by a
\* session that waits for room in its input (child.c:751, 970-977).
NoStandstill ==
  ~(StuckOnInput /\ Holds > 0 /\ Len(pipe["stdout"]) = PipeCap)
=============================================================================
