------------------------------- MODULE Session -------------------------------
(***************************************************************************)
(* A jail client and the session that serves it, over their socket: what   *)
(* the user sees of a program run in the container.                        *)
(***************************************************************************)
EXTENDS SessionServer, JailClient

CONSTANT MayDie     \* bound: whether the container may die under the session

ASSUME MayDieAssumption == MayDie \in BOOLEAN

VARIABLE final      \* history: written, at the moment the program exited

vars == <<sessionVars, clientVars, userVars, final>>

Init ==
  /\ WireInit /\ ServerInit /\ ProgInit /\ ClientInit /\ UserInit
  /\ final = [s \in Streams |-> 0]

\* What goes on in the other process does not change when one moves.
BesideServer ==
  /\ final' = IF prog' = "zombie" /\ prog = "running" THEN written ELSE final
  /\ UNCHANGED <<clientVars, userVars>>
BesideClient == UNCHANGED <<serverVars, progVars, final>>

ServerMoves == SessionSide /\ BesideServer
ClientMoves == ClientSide /\ BesideClient

\* The master of jaild dies, or is killed: the kernel kills all that live in its
\* namespace of processes, session and program among them (jaild.c:486, 644-680).
ContainerDies ==
  /\ MayDie /\ ServerLives
  /\ ServerClose
  /\ pc' = "done" /\ timer' = FALSE /\ pending' = {}
  /\ prog' = IF prog = "none" THEN "none" ELSE "reaped"
  /\ stdio' = {}
  /\ UNCHANGED <<pid, kind, fd, fds, inbox, outbox, sigalrm, sigchld,
                 handshaking, reason, code, inPipe, consumed, pipe, written,
                 ttySize, clientVars, userVars, final>>

\* Both processes are gone, or the client left before it had a session.
Finished ==
  /\ cpc = "gone" /\ (pc = "done" \/ cliEnd = "idle")
  /\ UNCHANGED vars

Next == ServerMoves \/ ClientMoves \/ ContainerDies \/ Finished

Spec == Init /\ [][Next]_vars

(***************************************************************************)
(* The kernel runs the two processes when they can run, and delivers their *)
(* signals.  User and program need not do anything.                        *)
(***************************************************************************)
Fairness ==
  /\ WF_vars(ServerStep /\ BesideServer)
  /\ WF_vars(Deliver /\ BesideServer)
  /\ WF_vars(AlarmRings /\ BesideServer)
  /\ WF_vars(ClientStep /\ BesideClient)
  /\ WF_vars(ClientDeliver /\ BesideClient)

FairSpec == Spec /\ Fairness

-----------------------------------------------------------------------------
SessionTypeOK == TypeOK /\ ClientTypeOK

\* The terminal is as it was before, whenever the client has exited, wherever
\* it was stopped (client_atexit, jail.c:419-424, 524-530).
TerminalRestored == cpc = "gone" => termios = "cooked"

\* An exit code other than 255 is the program's own: it ended with that code.
ExitCodeTrue ==
  exitCode \notin {-1, 255} => prog = "reaped" /\ code = 256 * exitCode

\* What the user was shown is the beginning of what the program wrote, in its
\* order, and nothing that is not still on its way is missing.
OutputInOrder ==
  \A s \in Streams :
    shown[TypeOf[s]] \o Bodies(cbuf \o s2c \o outbox, TypeOf[s]) \o pipe[s]
      = [i \in 1 .. written[s] |-> i]

\* What the program reads is what the user typed, in its order.
InputInOrder ==
  consumed \o inPipe \o Bodies(inbox \o c2s \o cout, "StdIn") \o typing
    = [i \in 1 .. typed |-> i]

\* When nothing is on its way, the program's terminal has the size of the
\* user's: no resize is lost between the two loops (jail.c:352-372).
ResizeNotLost ==
  /\ cpc = "sleep" /\ cpending = {} /\ ~cwinch
  /\ c2s = <<>> /\ inbox = <<>>
  /\ kind = "tty"
  => ttySize = termSize

\* While the program runs and the client listens, the session does not end but
\* at a refused input or at a descriptor asked for too late, in the one case in
\* which that happens: this client never breaks the protocol and is never
\* dismissed by the timer (child.c:834-858, 931-983).
KeptWhileRunning ==
  /\ Ended /\ prog = "running" =>
       cliEnd = "closed" \/ reason \in {"refused", "descriptor"}
  /\ DescriptorOnlyIf

\* A client leaves a program that runs in its session for one of four causes:
\* its input ended, it was asked to, its own output failed, or its terminal was
\* resized and is not its standard input (jail.c:362, 388-417).
LeavesForCause ==
  cpc = "gone" /\ prog = "running" /\ srvEnd = "open" =>
    typingEnds \/ cterm \/ cbuf # <<>> \/ (cwinch /\ stdinKind # "tty")

\* A client that was told the exit code returns it, unless its standard input
\* was readable in the round that brought the code, and had ended or could no
\* longer be sent (jail.c:290-324, 404-413).
StatusLostOnlyIf ==
  cpc = "gone" /\ cstatus # -1 /\ exitCode # ExitCodeOf(cstatus) =>
    "stdin" \in cfds /\ (typingEnds \/ srvEnd = "closed")

\* After the program, or the session, whatever ended it, all three are gone,
\* unless more keeps coming or the session hangs in a write to the standard input
\* of what the program left behind.
ProgramEndsSession ==
  KeepsComing \/ (prog = "zombie" \/ srvEnd = "closed" ~>
                    StuckOnInput \/ (cpc = "gone" /\ pc = "done"))

\* The two together do what RemoteExec says of running a program, whatever they
\* do to do it: its variables are seen here at the program's and the user's end.
Exec == INSTANCE RemoteExec WITH
  Files   <- {TypeOf[s] : s \in Streams},
  program <- CASE prog \in {"none", "running"} -> prog [] OTHER -> "ended",
  status  <- code,
  written <- [f \in {TypeOf[s] : s \in Streams} |->
                written[CHOOSE s \in Streams : TypeOf[s] = f]],
  result  <- exitCode

\* Every behaviour of client and session is one of RemoteExec (jail.c:375-417,
\* child.c:931-983).
ExecutesRemotely == Exec!Spec

-----------------------------------------------------------------------------
(***************************************************************************)
(* What a user expects who was told that a container is accessed "just     *)
(* like the way you SSH from a remote machine" (README.md:26-27).          *)
(***************************************************************************)

\* The status of a program that ended while its client listened was sent.
StatusDelivered ==
  pc = "done" /\ prog = "zombie" => cliEnd = "closed"

\* With the program's exit code comes all that it wrote before it exited.
OutputComplete ==
  exitCode \notin {-1, 255} =>
    \A s \in Streams : Len(shown[TypeOf[s]]) >= final[s]
=============================================================================
