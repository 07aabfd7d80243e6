---------------------------- MODULE SessionServer ----------------------------
(***************************************************************************)
(* One session process of jaild (src/server/child.c): it serves one client *)
(* over the socket of Wire, starts one program in the container, and       *)
(* relays the program's standard streams and its wait status.              *)
(*                                                                         *)
(* The process is sequential; pc says between which two system calls it    *)
(* stands, so that signals, the program and the client come in wherever    *)
(* they can.  Its loop is a pselect(2) loop with SIGALRM and SIGCHLD       *)
(* blocked everywhere else.                                                *)
(***************************************************************************)
EXTENDS Wire, Descriptors

CONSTANTS
  PipeCap,          \* units a pipe, socket pair or terminal buffer holds
  MaxWrite,         \* bound: units the program writes, on both streams together
  Statuses,         \* the wait statuses the program may end with
  ProgramMay        \* bound: what else it does, of "close", "stop", "leave"

\* What waitpid(2) reports of a program that ended: it exited with a code of
\* eight bits, or a signal ended it, with a dump of its memory or without.
WaitStatuses == {256 * e : e \in 0 .. 255} \cup (1 .. 126) \cup (129 .. 254)

ASSUME PipeCapAssumption == PipeCap \in Nat \ {0}
ASSUME MaxWriteAssumption == MaxWrite \in Nat
ASSUME StatusesAssumption == Statuses \subseteq WaitStatuses
ASSUME ProgramMayAssumption == ProgramMay \subseteq {"close", "stop", "leave"}

VARIABLES
  pc,               \* where the session process stands
  pid,              \* g_child_pid: -1 not started, ShellPid, 0 exited
  kind,             \* how the program was started; "tty" is g_child_pty
  fd,               \* g_child_stdout and g_child_stderr
  fds,              \* the fd_set of child_loop, kept from round to round
  inbox,            \* g_child_buffer: messages read, not yet executed
  outbox,           \* the message a blocking write(2) to the client carries
  sigalrm, sigchld, \* g_child_sigalrm, g_child_sigchld
  handshaking,      \* g_child_handshaking
  timer,            \* the interval timer is armed
  pending,          \* signals generated and not yet delivered
  reason            \* history: why the session ended

VARIABLES
  prog,             \* "none", "running", "zombie" or "reaped"
  code,             \* its wait status, once it has one
  stdio,            \* standard descriptors it, or what it started, holds open
  inPipe,           \* what the session wrote to its standard input
  consumed,         \* history: what it read from there
  pipe,             \* what it wrote and the session has not read, per stream
  written,          \* history: how many units it wrote, per stream
  ttySize           \* the window size of its terminal

serverVars == <<pc, pid, kind, fd, fds, inbox, outbox, sigalrm, sigchld,
                handshaking, timer, pending, reason>>
progVars == <<prog, code, stdio, inPipe, consumed, pipe, written, ttySize>>
sessionVars == <<wireVars, serverVars, progVars>>

Streams == {"stdout", "stderr"}
Kinds == {"socket", "pipe", "tty"}
KindOf == [ForkSocket |-> "socket", ForkPipe |-> "pipe", ForkTty |-> "tty"]
TypeOf == [stdout |-> "StdOut", stderr |-> "StdErr"]
ShellPid == 1
Signals == {"ALRM", "CHLD"}

Places == {"boot", "loop", "reap", "write", "clear0", "clear1", "select",
           "sleep", "ready", "execute", "stdout", "stderr", "exit", "done"}
Reasons == {"none", "boot", "timeout", "over", "reaped", "peer", "protocol",
            "fork", "refused", "descriptor"}

-----------------------------------------------------------------------------
NoFds == [s \in Streams |-> -1]

\* The program's descriptors whose closing ends a stream, or its input.
Holders(s) == IF s = "stderr" THEN {2}
              ELSE CASE kind = "pipe"   -> {1}
                     [] kind = "socket" -> {0, 1}
                     [] OTHER           -> {0, 1, 2}
InputHolders == CASE kind = "pipe"   -> {0}
                  [] kind = "socket" -> {0, 1}
                  [] OTHER           -> {0, 1, 2}

\* The stream behind the program's descriptor d: a terminal has only one.
StreamBehind(d) == IF d = 2 /\ kind # "tty" THEN "stderr" ELSE "stdout"

AtEOF(s) == pipe[s] = <<>> /\ Holders(s) \cap stdio = {}

\* add_to_set: what this round asks pselect(2) for, and its first argument.
Watched == {Remote} \cup ({fd[s] : s \in Streams} \ {-1})
\* A mistake that a run tells from the code: pselect(2) is told of every descriptor.
MaxWatchedAll == 9

MaxWatched == CHOOSE f \in Watched : \A g \in Watched : g <= f

\* The bits pselect(2) looks at, those left from an earlier round included.
Examined == {f \in fds \cup Watched : f <= MaxWatched}

Ready ==
  {f \in Watched :
     \/ f = Remote /\ ServerReadable
     \/ \E s \in Streams : fd[s] = f /\ (pipe[s] # <<>> \/ AtEOF(s))}

-----------------------------------------------------------------------------
ServerTypeOK ==
  /\ pc \in Places
  /\ pid \in {-1, 0, ShellPid}
  /\ kind \in Kinds \cup {"none"}
  /\ fd \in [Streams -> {-1, 6, 7, 8}]
  /\ fds \subseteq {Remote, 6, 7, 8}
  /\ inbox \in Seq(Message)
  /\ outbox \in Seq(Message) /\ Len(outbox) <= 1
  /\ sigalrm \in BOOLEAN /\ sigchld \in BOOLEAN
  /\ handshaking \in BOOLEAN /\ timer \in BOOLEAN
  /\ pending \subseteq Signals
  /\ reason \in Reasons

ProgTypeOK ==
  /\ prog \in {"none", "running", "zombie", "reaped"}
  /\ code \in Statuses \cup {-1}
  /\ stdio \subseteq {0, 1, 2}
  /\ inPipe \in Seq(Nat) /\ consumed \in Seq(Nat)
  /\ pipe \in [Streams -> Seq(Nat)]
  /\ written \in [Streams -> Nat]
  /\ ttySize \in Nat

TypeOK == WireTypeOK /\ ServerTypeOK /\ ProgTypeOK

ServerInit ==
  /\ pc = "boot"
  /\ pid = -1
  /\ kind = "none"
  /\ fd = NoFds
  /\ fds = {}
  /\ inbox = <<>> /\ outbox = <<>>
  /\ sigalrm = FALSE /\ sigchld = FALSE
  /\ handshaking = TRUE /\ timer = FALSE
  /\ pending = {}
  /\ reason = "none"

ProgInit ==
  /\ prog = "none"
  /\ code = -1
  /\ stdio = {}
  /\ inPipe = <<>> /\ consumed = <<>>
  /\ pipe = [s \in Streams |-> <<>>]
  /\ written = [s \in Streams |-> 0]
  /\ ttySize = 0

-----------------------------------------------------------------------------
(***************************************************************************)
(* The session process.                                                    *)
(***************************************************************************)
Leave(why) == pc' = "exit" /\ reason' = why
Goto(place) == pc' = place /\ UNCHANGED reason

\* child_main up to child_loop: signals blocked and handled, the handshake
\* timer armed.  Either may fail, and the process exits.
ChildMain ==
  /\ pc = "boot"
  /\ ServerAccept
  /\ \/ Goto("loop") /\ timer' = TRUE
     \/ Leave("boot") /\ UNCHANGED timer
  /\ UNCHANGED <<pid, kind, fd, fds, inbox, outbox, sigalrm, sigchld,
                 handshaking, pending, progVars>>

\* A mistake that a run tells from the code: the timer counts after the fork too.
NotStartedInTimeEver == sigalrm

\* What child_run returns.  g_child_sigalrm stays set once it is set.
NotStartedInTime == sigalrm /\ pid < 0
\* A mistake that a run tells from the code: the timer is ignored.
RunContinuesForever == (\E s \in Streams : fd[s] >= 0) \/ pid # 0

RunContinues ==
  ~NotStartedInTime /\ ((\E s \in Streams : fd[s] >= 0) \/ pid # 0)

\* The head of child_loop: child_run, then child_sigchld's test of the flag.
ChildRun ==
  /\ pc = "loop"
  /\ IF sigalrm /\ handshaking
       THEN handshaking' = FALSE /\ timer' = FALSE
       ELSE UNCHANGED <<handshaking, timer>>
  /\ IF RunContinues
       THEN Goto(IF sigchld THEN "reap" ELSE "select")
       ELSE Leave(IF NotStartedInTime THEN "timeout" ELSE "over")
  /\ UNCHANGED <<wireVars, pid, kind, fd, fds, inbox, outbox, sigalrm,
                 sigchld, pending, progVars>>

\* child_sigchld: waitpid(2) finds the program dead, its status is to be sent.
Reap ==
  /\ pc = "reap" /\ prog = "zombie"
  /\ prog' = "reaped"
  /\ pid' = 0
  /\ outbox' = <<Msg("Status", code)>>
  /\ Goto("write")
  /\ UNCHANGED <<wireVars, kind, fd, fds, inbox, sigalrm, sigchld,
                 handshaking, timer, pending, code, stdio, inPipe, consumed,
                 pipe, written, ttySize>>

\* child_sigchld: waitpid(2) has nothing to report.
NothingToReap ==
  /\ pc = "reap" /\ prog # "zombie"
  /\ Goto("clear0")
  /\ UNCHANGED <<wireVars, pid, kind, fd, fds, inbox, outbox, sigalrm,
                 sigchld, handshaking, timer, pending, progVars>>

\* A mistake that a run tells from the code: only a failure leaves the loop.
LoopLeavesOnFailure(ret) == ret < 0

\* child_loop leaves when child_sigchld returns anything but 0: it does after
\* the program's status was sent (clear1).
LoopLeaves(ret) == ret # 0

ClearSigchld ==
  /\ pc \in {"clear0", "clear1"}
  /\ sigchld' = FALSE
  /\ IF LoopLeaves(IF pc = "clear1" THEN 1 ELSE 0)
       THEN Leave("reaped")
       ELSE Goto("select")
  /\ UNCHANGED <<wireVars, pid, kind, fd, fds, inbox, outbox, sigalrm,
                 handshaking, timer, pending, progVars>>

\* A blocking write(2) of outbox to the client: it waits for room, and fails
\* once the client's end is closed.
AfterWrite(type) ==
  CASE type = "Status" -> "clear1"
    [] type = "StdOut" -> "stderr"
    [] OTHER           -> "loop"

WriteRemote ==
  /\ pc = "write"
  /\ ServerSend(outbox[1])
  /\ outbox' = <<>>
  /\ Goto(AfterWrite(outbox[1].type))
  /\ UNCHANGED <<pid, kind, fd, fds, inbox, sigalrm, sigchld, handshaking,
                 timer, pending, progVars>>

WriteRemoteFails ==
  /\ pc = "write" /\ cliEnd = "closed"
  /\ Leave("peer")
  /\ UNCHANGED <<wireVars, pid, kind, fd, fds, inbox, outbox, sigalrm,
                 sigchld, handshaking, timer, pending, progVars>>

\* pselect(2) finds a closed descriptor among the bits it examines: EBADF.
SelectFails ==
  /\ pc = "select" /\ ~(Examined \subseteq Watched)
  /\ Leave("descriptor")
  /\ UNCHANGED <<wireVars, pid, kind, fd, fds, inbox, outbox, sigalrm,
                 sigchld, handshaking, timer, pending, progVars>>

\* pselect(2) scans its descriptors; signals count only if none is ready.
SelectScans ==
  /\ pc = "select" /\ Examined \subseteq Watched
  /\ IF Ready # {}
       THEN fds' = Ready /\ Goto("ready")
       ELSE fds' = fds \cup Watched /\ Goto("sleep")
  /\ UNCHANGED <<wireVars, pid, kind, fd, inbox, outbox, sigalrm, sigchld,
                 handshaking, timer, pending, progVars>>

SelectWakes ==
  /\ pc = "sleep" /\ Ready # {}
  /\ Goto("select")
  /\ UNCHANGED <<wireVars, pid, kind, fd, fds, inbox, outbox, sigalrm,
                 sigchld, handshaking, timer, pending, progVars>>

\* A mistake that a run tells from the code: pselect(2) has no timeout.
SelectNeverTimesOut == FALSE

\* Five seconds with nothing to read and no signal: pselect(2) returns 0.
SelectTimesOut ==
  /\ pc = "sleep" /\ Ready = {} /\ pending = {}
  /\ fds' = {}
  /\ Goto("loop")
  /\ UNCHANGED <<wireVars, pid, kind, fd, inbox, outbox, sigalrm, sigchld,
                 handshaking, timer, pending, progVars>>

\* A mistake that a run tells from the code: signals are never blocked, or always.
UnblockedAlways == TRUE
UnblockedNever == FALSE

\* SIGALRM and SIGCHLD are blocked outside pselect(2).  glibc's emulation
\* unblocks them before select(2) and blocks them again after it.
Unblocked == pc = "sleep" \/ (EmulatedPselect /\ pc \in {"select", "ready"})

\* A mistake that a run tells from the code: EINTR is taken for success.
AfterInterruptGoOn == "ready"

AfterInterrupt == "loop"

\* The handlers run; a sleeping pselect(2) fails with EINTR, leaving fds alone.
Deliver ==
  /\ Unblocked /\ pending # {}
  /\ sigalrm' = (sigalrm \/ "ALRM" \in pending)
  /\ sigchld' = (sigchld \/ "CHLD" \in pending)
  /\ pending' = {}
  /\ pc' = IF pc = "sleep" THEN AfterInterrupt ELSE pc
  /\ UNCHANGED <<wireVars, pid, kind, fd, fds, inbox, outbox, handshaking,
                 timer, reason, progVars>>

\* child_process_remote: one read(2) takes any part of what has come.
ReadRemote ==
  /\ pc = "ready" /\ Remote \in fds
  /\ \E k \in 1 .. Len(c2s) :
       /\ ServerRecv(k)
       /\ inbox' = SubSeq(c2s, 1, k)
  /\ Goto("execute")
  /\ UNCHANGED <<pid, kind, fd, fds, outbox, sigalrm, sigchld, handshaking,
                 timer, pending, progVars>>

RemoteEnds ==
  /\ pc = "ready" /\ Remote \in fds
  /\ c2s = <<>>
  /\ Leave("peer")
  /\ UNCHANGED <<wireVars, pid, kind, fd, fds, inbox, outbox, sigalrm,
                 sigchld, handshaking, timer, pending, progVars>>

\* Nothing came from the client, or all that came has been executed.
RemoteDone ==
  /\ \/ pc = "ready" /\ Remote \notin fds
     \/ pc = "execute" /\ inbox = <<>>
  /\ Goto("stdout")
  /\ UNCHANGED <<wireVars, pid, kind, fd, fds, inbox, outbox, sigalrm,
                 sigchld, handshaking, timer, pending, progVars>>

\* child_execute takes up the message at the head of the buffer.
Executing(types) == pc = "execute" /\ inbox # <<>> /\ inbox[1].type \in types

\* A mistake that a run tells from the code: the buffer is emptied, or
\* a message of input is not consumed.
ExecutedDropsRest == inbox' = <<>> /\ UNCHANGED <<pc, reason>>
ExecutedAgain ==
  /\ inbox' = IF inbox[1].type = "StdIn" THEN inbox ELSE Tail(inbox)
  /\ UNCHANGED <<pc, reason>>

Executed == inbox' = Tail(inbox) /\ UNCHANGED <<pc, reason>>

MayFork == pid < 0

\* child_fork, and with it child_fork_pty, child_fork_socket, child_fork_pipe.
ExecuteFork ==
  /\ Executing(ForkTypes) /\ MayFork
  /\ LET k == KindOf[inbox[1].type] IN
       /\ kind' = k
       /\ fd' = FdOf(k)
       /\ ttySize' = IF k = "tty" THEN inbox[1].body ELSE ttySize
  /\ pid' = ShellPid
  /\ prog' = "running"
  /\ stdio' = {0, 1, 2}
  /\ Executed
  /\ UNCHANGED <<wireVars, fds, outbox, sigalrm, sigchld, handshaking, timer,
                 pending, code, inPipe, consumed, pipe, written>>

\* A descriptor, a terminal, the privileges or fork(2) itself may be refused,
\* and the arguments may not parse.
ExecuteForkFails ==
  /\ Executing(ForkTypes)
  /\ Leave(IF MayFork THEN "fork" ELSE "protocol")
  /\ UNCHANGED <<wireVars, pid, kind, fd, fds, inbox, outbox, sigalrm,
                 sigchld, handshaking, timer, pending, progVars>>

\* TIOCSWINSZ on the terminal; ignored if there is none.
ExecuteWinsize ==
  /\ Executing({"Winsize"})
  /\ ttySize' = IF kind = "tty" THEN inbox[1].body ELSE ttySize
  /\ Executed
  /\ UNCHANGED <<wireVars, pid, kind, fd, fds, outbox, sigalrm, sigchld,
                 handshaking, timer, pending, prog, code, stdio, inPipe,
                 consumed, pipe, written>>

\* child_execute_stdin: a blocking write(2) to the program's standard input.
InputOpen == kind # "none" /\ InputHolders \cap stdio # {}

ExecuteStdin ==
  /\ Executing({"StdIn"}) /\ InputOpen
  /\ Len(inPipe) < PipeCap
  /\ inPipe' = Append(inPipe, inbox[1].body)
  /\ Executed
  /\ UNCHANGED <<wireVars, pid, kind, fd, fds, outbox, sigalrm, sigchld,
                 handshaking, timer, pending, prog, code, stdio, consumed,
                 pipe, written, ttySize>>

\* EPIPE or EIO: nobody holds the other end.  EBADF: nothing was started.
ExecuteStdinFails ==
  /\ Executing({"StdIn"}) /\ ~InputOpen
  /\ Leave(IF kind = "none" THEN "protocol" ELSE "refused")
  /\ UNCHANGED <<wireVars, pid, kind, fd, fds, inbox, outbox, sigalrm,
                 sigchld, handshaking, timer, pending, progVars>>

ExecuteUnknown ==
  /\ Executing(Types \ (ForkTypes \cup {"Winsize", "StdIn"}))
  /\ Leave("protocol")
  /\ UNCHANGED <<wireVars, pid, kind, fd, fds, inbox, outbox, sigalrm,
                 sigchld, handshaking, timer, pending, progVars>>

\* child_loop and child_process_output, for stdout and then for stderr.
AfterStream(s) == IF s = "stdout" THEN "stderr" ELSE "loop"
Selected(s) == fd[s] >= 0 /\ fd[s] \in fds
\* A mistake that a run tells from the code: both streams carry one type.
OutputTypeMixed(s) == "StdOut"

OutputType(s) == TypeOf[s]

ReadOutput(s) ==
  /\ pc = s /\ Selected(s)
  /\ pipe[s] # <<>>
  /\ outbox' = <<Msg(OutputType(s), Head(pipe[s]))>>
  /\ pipe' = [pipe EXCEPT ![s] = Tail(@)]
  /\ Goto("write")
  /\ UNCHANGED <<wireVars, pid, kind, fd, fds, inbox, sigalrm, sigchld,
                 handshaking, timer, pending, prog, code, stdio, inPipe,
                 consumed, written, ttySize>>

OutputEnds(s) ==
  /\ pc = s /\ Selected(s)
  /\ pipe[s] = <<>>
  /\ fd' = [fd EXCEPT ![s] = -1]
  /\ Goto(AfterStream(s))
  /\ UNCHANGED <<wireVars, pid, kind, fds, inbox, outbox, sigalrm, sigchld,
                 handshaking, timer, pending, progVars>>

OutputIdle(s) ==
  /\ pc = s /\ ~Selected(s)
  /\ Goto(AfterStream(s))
  /\ UNCHANGED <<wireVars, pid, kind, fd, fds, inbox, outbox, sigalrm,
                 sigchld, handshaking, timer, pending, progVars>>

\* The end of child_main: shutdown, close, _exit.
Exit ==
  /\ pc = "exit"
  /\ ServerClose
  /\ Goto("done")
  /\ timer' = FALSE
  /\ pending' = {}
  /\ UNCHANGED <<pid, kind, fd, fds, inbox, outbox, sigalrm, sigchld,
                 handshaking, progVars>>

ServerStep ==
  \/ ChildMain \/ ChildRun \/ Reap \/ NothingToReap \/ ClearSigchld
  \/ WriteRemote \/ WriteRemoteFails
  \/ SelectFails \/ SelectScans \/ SelectWakes \/ SelectTimesOut
  \/ ReadRemote \/ RemoteEnds \/ RemoteDone
  \/ ExecuteFork \/ ExecuteForkFails \/ ExecuteWinsize
  \/ ExecuteStdin \/ ExecuteStdinFails \/ ExecuteUnknown
  \/ \E s \in Streams : ReadOutput(s) \/ OutputEnds(s) \/ OutputIdle(s)
  \/ Exit

-----------------------------------------------------------------------------
(***************************************************************************)
(* The timer and the program, which run on their own.                      *)
(***************************************************************************)
AlarmRings ==
  /\ timer
  /\ "ALRM" \notin pending
  /\ pending' = pending \cup {"ALRM"}
  /\ UNCHANGED <<wireVars, pc, pid, kind, fd, fds, inbox, outbox, sigalrm,
                 sigchld, handshaking, timer, reason, progVars>>

ServerLives == pc \notin {"boot", "done"}

\* A write(2) of one unit by the program, or by what it left behind.
ProgramWrites(d) ==
  LET s == StreamBehind(d) IN
  /\ ServerLives
  /\ d \in stdio \ {0}
  /\ Len(pipe[s]) < PipeCap
  /\ written["stdout"] + written["stderr"] < MaxWrite
  /\ written' = [written EXCEPT ![s] = @ + 1]
  /\ pipe' = [pipe EXCEPT ![s] = Append(@, written[s] + 1)]
  /\ UNCHANGED <<wireVars, serverVars, prog, code, stdio, inPipe, consumed,
                 ttySize>>

ProgramReads ==
  /\ ServerLives
  /\ 0 \in stdio
  /\ inPipe # <<>>
  /\ consumed' = Append(consumed, Head(inPipe))
  /\ inPipe' = Tail(inPipe)
  /\ UNCHANGED <<wireVars, serverVars, prog, code, stdio, pipe, written,
                 ttySize>>

ProgramCloses(d) ==
  /\ ServerLives /\ "close" \in ProgramMay
  /\ d \in stdio
  /\ stdio' = stdio \ {d}
  /\ UNCHANGED <<wireVars, serverVars, prog, code, inPipe, consumed, pipe,
                 written, ttySize>>

\* The program ends; a process it leaves behind may keep its descriptors open.
ProgramExits(status) ==
  /\ ServerLives
  /\ prog = "running"
  /\ prog' = "zombie"
  /\ code' = status
  /\ stdio' \in {{}} \cup (IF "leave" \in ProgramMay THEN {stdio} ELSE {})
  /\ pending' = pending \cup {"CHLD"}
  /\ UNCHANGED <<wireVars, pc, pid, kind, fd, fds, inbox, outbox, sigalrm,
                 sigchld, handshaking, timer, reason, inPipe, consumed, pipe,
                 written, ttySize>>

\* SIGCHLD also tells that the program was stopped or continued.
ProgramStops ==
  /\ ServerLives /\ "stop" \in ProgramMay
  /\ prog = "running"
  /\ pending' = pending \cup {"CHLD"}
  /\ UNCHANGED <<wireVars, pc, pid, kind, fd, fds, inbox, outbox, sigalrm,
                 sigchld, handshaking, timer, reason, progVars>>

ProgramStep ==
  \/ \E d \in {1, 2} : ProgramWrites(d)
  \/ ProgramReads
  \/ \E d \in {0, 1, 2} : ProgramCloses(d)
  \/ \E status \in Statuses : ProgramExits(status)
  \/ ProgramStops

SessionSide == ServerStep \/ Deliver \/ AlarmRings \/ ProgramStep

-----------------------------------------------------------------------------
(***************************************************************************)
(* Properties.                                                             *)
(***************************************************************************)
Ended == pc \in {"exit", "done"}

\* The death of the program is never lost: until child_sigchld has reaped it,
\* SIGCHLD is pending or g_child_sigchld is set, although the flag is cleared
\* only after waitpid(2) had nothing left to report (child.c:896-928).
ExitNoticed ==
  prog = "zombie" /\ ~Ended => "CHLD" \in pending \/ sigchld

\* With an atomic pselect(2) the session never sleeps on a signal that it has
\* already been handed and not yet acted upon (child.c:106-113, 956).
SleepIsClean ==
  pc = "sleep" /\ ~EmulatedPselect => ~sigchld /\ ~(sigalrm /\ handshaking)

\* All that the session has written, or is writing, to its client.
Told == got \o s2c \o outbox

\* TypeStatus is the last message of a session, is sent once, and carries the
\* wait status of the program, which is dead by then (child.c:888-929).
StatusIsLast ==
  \A i \in 1 .. Len(Told) :
    Told[i].type = "Status" =>
      i = Len(Told) /\ prog = "reaped" /\ Told[i].body = code

\* No unit of output is lost, repeated, reordered or sent as the other stream:
\* what the program wrote is what the client was told and what still waits in
\* the pipe (child_process_output, child.c:860-886).
OutputConserved ==
  \A s \in Streams :
    Bodies(Told, TypeOf[s]) \o pipe[s] = [i \in 1 .. written[s] |-> i]

\* Neither is a unit of input, wherever read(2) cut the stream of messages:
\* program, its pipe, the session's buffer and the socket hold between them
\* all that the client sent (child_process_remote, child.c:797-832).
StdinConserved ==
  consumed \o inPipe \o Bodies(inbox, "StdIn") \o Bodies(c2s, "StdIn")
    = Bodies(sent, "StdIn")

\* A session reads a stream only when that cannot block, and so closes it only
\* at its end of file: the bits of fds it acts upon are always those of the
\* last successful pselect(2) (child.c:955-979).
ReadsWhatIsReady ==
  /\ \A s \in Streams : pc = s /\ Selected(s) => pipe[s] # <<>> \/ AtEOF(s)
  /\ pc = "ready" /\ Remote \in fds => ServerReadable

\* A session ends at the timer only if no program was started, after a status
\* only if the program is dead, at a unit of input only if nobody is left to read
\* it, and never because its loop ran to its end: it has been left at the status
\* before (child.c:749-755, 834-858, 941-944).
EndsForCause ==
  Ended =>
    /\ reason = "timeout" => prog = "none"
    /\ reason = "reaped" => prog = "reaped"
    /\ reason = "refused" => InputHolders \cap stdio = {}
    /\ reason # "over"

\* fds is emptied only once (child.c:939), so a closed descriptor may be asked
\* for again.  It ends the session in one case only: the stream with the lower
\* descriptor has ended and the other has not.  A terminal session is safe.
DescriptorOnlyIf ==
  reason = "descriptor" =>
    \/ kind = "pipe" /\ fd["stdout"] = -1 /\ fd["stderr"] # -1
    \/ kind = "socket" /\ fd["stderr"] = -1 /\ fd["stdout"] # -1

\* The client, the program or what it left behind sends more again and again.
\* With an atomic pselect(2) a descriptor that is always ready keeps a pending
\* signal from ever being delivered (child.c:955), so that the session does not
\* learn of its timer, nor of the end of its program.
Comes == Len(c2s') > Len(c2s) \/ \E s \in Streams : Len(pipe'[s]) > Len(pipe[s])
KeepsComing == []<><<Comes>>_sessionVars

\* A client that never asks for a program is dismissed (child.c:836-847,
\* 1005): a session starts a program or ends, unless its client keeps sending.
HandshakeEnds ==
  KeepsComing \/ (srvEnd = "open" ~> (kind # "none" \/ srvEnd = "closed"))

\* The end of the program ends the session (child.c:941-944), unless more keeps
\* coming, from what the program left behind for instance, or the session hangs
\* in write(2) to a standard input that is held open and not read (child.c:751).
StuckOnInput ==
  Executing({"StdIn"}) /\ InputOpen /\ Len(inPipe) = PipeCap
ExitEndsSession ==
  KeepsComing \/ (prog = "zombie" ~> (srvEnd = "closed" \/ StuckOnInput))
=============================================================================
