----------------------------- MODULE JailClient -----------------------------
(***************************************************************************)
(* The jail client (src/client/jail.c): it puts a terminal into raw mode,  *)
(* connects to the session, asks for a program and relays its own standard *)
(* streams until the program's status comes.  It is sequential, with       *)
(* SIGTERM (which stands for SIGHUP, SIGINT and SIGQUIT too) and SIGWINCH  *)
(* blocked outside pselect(2).                                             *)
(***************************************************************************)
EXTENDS Wire

CONSTANTS
  StdinKinds,       \* what standard input may be: "tty", "fifo", "socket",
                    \* or "other", a file for instance
  MaxTyped,         \* bound: units of standard input
  MaxResize,        \* bound: resizes of the terminal
  MaxTerm           \* bound: signals that ask the client to leave, 0 or 1

ASSUME ClientAssumption ==
  /\ StdinKinds \subseteq {"tty", "fifo", "socket", "other"}
  /\ MaxTyped \in Nat /\ MaxResize \in Nat /\ MaxTerm \in Nat

VARIABLES
  cpc,              \* where the client stands
  stdinKind,        \* g_client_tty and g_client_pipe
  termios,          \* "cooked" or "raw"
  hook,             \* client_atexit is registered
  cfds,             \* the fd_set of client_loop
  cbuf,             \* g_client_buffer: messages read, not yet dispatched
  cout,             \* the message a blocking write(2) to the session carries
  cterm, cwinch,    \* g_client_sigterm, g_client_sigwinch
  cpending,         \* signals generated and not yet delivered
  cstatus,          \* g_client_status
  exitCode          \* what main returns; -1 before

VARIABLES
  typing,           \* standard input not yet read by the client
  typed,            \* history: how many units were typed
  typingEnds,       \* standard input has come to its end
  termSize,         \* the size of the terminal; grows with every resize
  shown             \* what was written to the client's standard streams

clientVars == <<cpc, stdinKind, termios, hook, cfds, cbuf, cout, cterm, cwinch,
                cpending, cstatus, exitCode>>
userVars == <<typing, typed, typingEnds, termSize, shown>>

ClientPlaces == {"init", "raw", "connect", "request", "loop", "winch",
                 "select", "sleep", "ready", "dispatch", "input", "send",
                 "exit", "gone"}

ClientTypeOK ==
  /\ cpc \in ClientPlaces
  /\ stdinKind \in StdinKinds
  /\ termios \in {"cooked", "raw"}
  /\ hook \in BOOLEAN
  /\ cfds \subseteq {"remote", "stdin"}
  /\ cbuf \in Seq(Message)
  /\ cout \in Seq(Message) /\ Len(cout) <= 1
  /\ cterm \in BOOLEAN /\ cwinch \in BOOLEAN
  /\ cpending \subseteq {"TERM", "WINCH"}
  /\ cstatus \in Nat \cup {-1}
  /\ exitCode \in -1 .. 255
  /\ typing \in Seq(Nat) /\ typed \in Nat
  /\ typingEnds \in BOOLEAN
  /\ termSize \in Nat
  /\ shown \in [{"StdOut", "StdErr"} -> Seq(Nat)]

ClientInit ==
  /\ cpc = "init"
  /\ stdinKind \in StdinKinds
  /\ termios = "cooked"
  /\ hook = FALSE
  /\ cfds = {}
  /\ cbuf = <<>> /\ cout = <<>>
  /\ cterm = FALSE /\ cwinch = FALSE
  /\ cpending = {}
  /\ cstatus = -1
  /\ exitCode = -1

UserInit ==
  /\ typing = <<>> /\ typed = 0
  /\ typingEnds = FALSE
  /\ termSize = 1
  /\ shown = [t \in {"StdOut", "StdErr"} |-> <<>>]

-----------------------------------------------------------------------------
At(place) == cpc = place
GoTo(place) == cpc' = place /\ UNCHANGED exitCode
Return(status) == cpc' = "exit" /\ exitCode' = status

\* A mistake that a run tells from the code: WIFEXITED is not asked.
ExitCodeOfAny(status) == (status \div 256) % 256

\* WIFEXITED and WEXITSTATUS of a wait status, -1 included.
ExitCodeOf(status) ==
  IF status % 128 = 0 THEN (status \div 256) % 256 ELSE 255

\* client_initialize; for a terminal up to the registration of client_atexit.
Initialize ==
  /\ At("init")
  /\ \/ stdinKind \in {"fifo", "socket"} /\ GoTo("connect") /\ UNCHANGED hook
     \/ stdinKind = "tty" /\ GoTo("raw") /\ hook' = TRUE
     \/ stdinKind \in {"tty", "other"} /\ Return(255) /\ UNCHANGED hook
  /\ UNCHANGED <<wireVars, stdinKind, termios, cfds, cbuf, cout, cterm, cwinch,
                 cpending, cstatus, userVars>>

\* The end of client_initialize: tcsetattr to raw mode.
MakeRaw ==
  /\ At("raw")
  /\ \/ termios' = "raw" /\ GoTo("connect")
     \/ UNCHANGED termios /\ Return(255)
  /\ UNCHANGED <<wireVars, stdinKind, hook, cfds, cbuf, cout, cterm, cwinch,
                 cpending, cstatus, userVars>>

\* client_start up to connect(2); the server may be away.
Start ==
  /\ At("connect")
  /\ \/ Connect /\ GoTo("request")
     \/ UNCHANGED wireVars /\ Return(255)
  /\ UNCHANGED <<stdinKind, termios, hook, cfds, cbuf, cout, cterm, cwinch,
                 cpending, cstatus, userVars>>

\* client_execute: the request for a program fits the kind of standard input.
RequestOf(k) ==
  CASE k = "tty"  -> Msg("ForkTty", termSize)
    [] k = "fifo" -> Msg("ForkPipe", 0)
    [] OTHER      -> Msg("ForkSocket", 0)

Request ==
  /\ At("request")
  /\ ClientSend(RequestOf(stdinKind))
  /\ GoTo("loop")
  /\ UNCHANGED <<stdinKind, termios, hook, cfds, cbuf, cout, cterm, cwinch,
                 cpending, cstatus, userVars>>

\* The session is gone, or the arguments do not fit into a message.
RequestFails ==
  /\ At("request")
  /\ Return(255)
  /\ UNCHANGED <<wireVars, stdinKind, termios, hook, cfds, cbuf, cout, cterm,
                 cwinch, cpending, cstatus, userVars>>

\* The head of client_loop, and client_sigwinch up to its ioctl(2).
LoopHead ==
  /\ At("loop")
  /\ IF cterm THEN Return(ExitCodeOf(cstatus))
     ELSE IF ~cwinch THEN GoTo("select")
     ELSE IF stdinKind = "tty" THEN GoTo("winch") ELSE Return(255)
  /\ cout' = IF ~cterm /\ cwinch /\ stdinKind = "tty"
               THEN <<Msg("Winsize", termSize)>> ELSE <<>>
  /\ UNCHANGED <<wireVars, stdinKind, termios, hook, cfds, cbuf, cterm, cwinch,
                 cpending, cstatus, userVars>>

\* client_sigwinch writes the size and clears its flag.
SendWinsize ==
  /\ At("winch")
  /\ ClientSend(cout[1])
  /\ cout' = <<>>
  /\ cwinch' = FALSE
  /\ GoTo("select")
  /\ UNCHANGED <<stdinKind, termios, hook, cfds, cbuf, cterm, cpending, cstatus,
                 userVars>>

SendFails ==
  /\ cpc \in {"winch", "send"}
  /\ srvEnd = "closed"
  /\ Return(255)
  /\ UNCHANGED <<wireVars, stdinKind, termios, hook, cfds, cbuf, cout, cterm,
                 cwinch, cpending, cstatus, userVars>>

ClientReady ==
  {f \in {"remote", "stdin"} :
     \/ f = "remote" /\ ClientReadable
     \/ f = "stdin" /\ (typing # <<>> \/ typingEnds)}

Scan ==
  /\ At("select")
  /\ IF ClientReady # {}
       THEN cfds' = ClientReady /\ GoTo("ready")
       ELSE cfds' = {"remote", "stdin"} /\ GoTo("sleep")
  /\ UNCHANGED <<wireVars, stdinKind, termios, hook, cbuf, cout, cterm, cwinch,
                 cpending, cstatus, userVars>>

Wake ==
  /\ At("sleep")
  /\ ClientReady # {}
  /\ GoTo("select")
  /\ UNCHANGED <<wireVars, stdinKind, termios, hook, cfds, cbuf, cout, cterm,
                 cwinch, cpending, cstatus, userVars>>

TimeOut ==
  /\ At("sleep")
  /\ ClientReady = {} /\ cpending = {}
  /\ cfds' = {}
  /\ GoTo("loop")
  /\ UNCHANGED <<wireVars, stdinKind, termios, hook, cbuf, cout, cterm, cwinch,
                 cpending, cstatus, userVars>>

\* A mistake that a run tells from the code: the client's signals are not blocked.
ClientUnblockedAlways == TRUE

\* SIGTERM and SIGWINCH are blocked outside pselect(2), or outside what glibc
\* puts in its place.
ClientUnblocked ==
  At("sleep") \/ (EmulatedPselect /\ cpc \in {"select", "ready"})

\* A mistake that a run tells from the code: EINTR is taken for success.
ClientAfterInterruptGoOn == "ready"

ClientAfterInterrupt == "loop"

ClientDeliver ==
  /\ ClientUnblocked /\ cpending # {}
  /\ cterm' = (cterm \/ "TERM" \in cpending)
  /\ cwinch' = (cwinch \/ "WINCH" \in cpending)
  /\ cpending' = {}
  /\ cpc' = IF At("sleep") THEN ClientAfterInterrupt ELSE cpc
  /\ UNCHANGED <<wireVars, stdinKind, termios, hook, cfds, cbuf, cout, cstatus,
                 exitCode, userVars>>

\* client_process_remote: one read(2) takes any part of what has come.
ReadSession ==
  /\ At("ready") /\ "remote" \in cfds
  /\ \E k \in 1 .. Len(s2c) :
       /\ ClientRecv(k)
       /\ cbuf' = SubSeq(s2c, 1, k)
  /\ GoTo("dispatch")
  /\ UNCHANGED <<stdinKind, termios, hook, cfds, cout, cterm, cwinch, cpending,
                 cstatus, userVars>>

SessionEndsFirst ==
  /\ At("ready") /\ "remote" \in cfds
  /\ s2c = <<>>
  /\ Return(255)
  /\ UNCHANGED <<wireVars, stdinKind, termios, hook, cfds, cbuf, cout, cterm,
                 cwinch, cpending, cstatus, userVars>>

SessionDone ==
  /\ \/ At("ready") /\ "remote" \notin cfds
     \/ At("dispatch") /\ cbuf = <<>>
  /\ GoTo("input")
  /\ UNCHANGED <<wireVars, stdinKind, termios, hook, cfds, cbuf, cout, cterm,
                 cwinch, cpending, cstatus, userVars>>

\* A mistake that a run tells from the code: all output goes to one file.
FileOfMixed(type) == "StdOut"

\* STDOUT_FILENO or STDERR_FILENO, named by the type of message.
FileOf(type) == type

\* client_dispatch_remote of output: a write(2) to standard output or error,
\* which does not block for ever: whoever reads the client's output goes on.
DispatchOutput ==
  /\ At("dispatch") /\ cbuf # <<>> /\ cbuf[1].type \in {"StdOut", "StdErr"}
  /\ shown' = [shown EXCEPT ![FileOf(cbuf[1].type)] = Append(@, cbuf[1].body)]
  /\ cbuf' = Tail(cbuf)
  /\ UNCHANGED <<wireVars, cpc, stdinKind, termios, hook, cfds, cout, cterm,
                 cwinch, cpending, cstatus, exitCode, typing, typed,
                 typingEnds, termSize>>

\* That write(2) fails, or the type is none a client knows.
DispatchFails ==
  /\ At("dispatch") /\ cbuf # <<>> /\ cbuf[1].type # "Status"
  /\ Return(255)
  /\ UNCHANGED <<wireVars, stdinKind, termios, hook, cfds, cbuf, cout, cterm,
                 cwinch, cpending, cstatus, userVars>>

\* A mistake that a run tells from the code: the status does not end the loop.
LeavesAfterStatusNever == cterm

LeavesAfterStatus == TRUE

DispatchStatus ==
  /\ At("dispatch") /\ cbuf # <<>> /\ cbuf[1].type = "Status"
  /\ cstatus' = cbuf[1].body
  /\ cterm' = LeavesAfterStatus
  /\ cbuf' = Tail(cbuf)
  /\ UNCHANGED <<wireVars, cpc, stdinKind, termios, hook, cfds, cout, cwinch,
                 cpending, exitCode, userVars>>

\* client_process_input: the end of standard input ends the client.
ReadInput ==
  /\ At("input") /\ "stdin" \in cfds
  /\ typing # <<>>
  /\ cout' = <<Msg("StdIn", Head(typing))>>
  /\ typing' = Tail(typing)
  /\ GoTo("send")
  /\ UNCHANGED <<wireVars, stdinKind, termios, hook, cfds, cbuf, cterm, cwinch,
                 cpending, cstatus, typed, typingEnds, termSize, shown>>

InputEnds ==
  /\ At("input") /\ "stdin" \in cfds
  /\ typing = <<>>
  /\ Return(255)
  /\ UNCHANGED <<wireVars, stdinKind, termios, hook, cfds, cbuf, cout, cterm,
                 cwinch, cpending, cstatus, userVars>>

InputIdle ==
  /\ At("input") /\ "stdin" \notin cfds
  /\ GoTo("loop")
  /\ UNCHANGED <<wireVars, stdinKind, termios, hook, cfds, cbuf, cout, cterm,
                 cwinch, cpending, cstatus, userVars>>

SendInput ==
  /\ At("send")
  /\ ClientSend(cout[1])
  /\ cout' = <<>>
  /\ GoTo("loop")
  /\ UNCHANGED <<stdinKind, termios, hook, cfds, cbuf, cterm, cwinch, cpending,
                 cstatus, userVars>>

\* A mistake that a run tells from the code: the terminal is restored at the end of main.
RestoresAtEnd == stdinKind = "tty" /\ exitCode # 255

\* client_atexit runs whenever it was registered.
RestoresTerminal == stdinKind = "tty" /\ hook

\* exit(3) runs it, and the kernel closes the socket.
ExitClient ==
  /\ At("exit")
  /\ termios' = IF RestoresTerminal THEN "cooked" ELSE termios
  /\ cpc' = "gone"
  /\ IF cliEnd = "open" THEN ClientClose ELSE UNCHANGED wireVars
  /\ UNCHANGED <<stdinKind, hook, cfds, cbuf, cout, cterm, cwinch, cpending,
                 cstatus, exitCode, userVars>>

ClientStep ==
  \/ Initialize \/ MakeRaw \/ Start \/ Request \/ RequestFails
  \/ LoopHead \/ SendWinsize \/ SendFails
  \/ Scan \/ Wake \/ TimeOut
  \/ ReadSession \/ SessionEndsFirst \/ SessionDone
  \/ DispatchOutput \/ DispatchFails \/ DispatchStatus
  \/ ReadInput \/ InputEnds \/ InputIdle \/ SendInput
  \/ ExitClient

-----------------------------------------------------------------------------
(***************************************************************************)
(* The user.                                                               *)
(***************************************************************************)
UserTypes ==
  /\ ~typingEnds /\ typed < MaxTyped
  /\ typed' = typed + 1
  /\ typing' = Append(typing, typed')
  /\ UNCHANGED <<wireVars, clientVars, typingEnds, termSize, shown>>

UserEndsInput ==
  /\ ~typingEnds
  /\ typingEnds' = TRUE
  /\ UNCHANGED <<wireVars, clientVars, typing, typed, termSize, shown>>

\* The terminal the client runs in is resized, whatever its standard input is.
UserResizes ==
  /\ cpc # "gone" /\ termSize <= MaxResize
  /\ termSize' = termSize + 1
  /\ cpending' = cpending \cup {"WINCH"}
  /\ UNCHANGED <<wireVars, cpc, stdinKind, termios, hook, cfds, cbuf, cout,
                 cterm, cwinch, cstatus, exitCode, typing, typed, typingEnds,
                 shown>>

UserTerminates ==
  /\ cpc # "gone" /\ MaxTerm > 0
  /\ "TERM" \notin cpending /\ ~cterm
  /\ cpending' = cpending \cup {"TERM"}
  /\ UNCHANGED <<wireVars, cpc, stdinKind, termios, hook, cfds, cbuf, cout,
                 cterm, cwinch, cstatus, exitCode, userVars>>

UserStep == UserTypes \/ UserEndsInput \/ UserResizes \/ UserTerminates

ClientSide == ClientStep \/ ClientDeliver \/ UserStep
=============================================================================
