# jail: TLA+ models, checks and proofs

`jail` runs commands in a Linux container.  `jaild` (src/server) is a daemon that
lives inside the container's namespaces and listens on a unix socket; `jail`
(src/client) connects to it, asks for a program, and relays terminal, standard
input, output and exit status, "just like the way you SSH" (README.md:26-27 of
the repository).

The models are translated from the C sources.  Line numbers in comments and in
`PROJECT.json` refer to `src/server/child.c`, `src/server/jaild.c`,
`src/client/jail.c` and `src/common/`.

## The system

| Part | Source | State it keeps | Operations | Modelled in |
|---|---|---|---|---|
| Connection, messages | message.h, the kernel | bytes in flight each way, the two ends | connect, accept, write, read, close | `Wire` |
| Message framing | buffer.c | up to 65536 received bytes | push, get, consume | `Framing` (abstractly: `MessageQueue`) |
| Session server | child.c | `g_child_pid`, output descriptors, pty, receive buffer, `fd_set`, two signal flags, handshake timer | start, handshake, fork by socket pair / pipe / tty, resize, input, output, reap, end | `SessionServer` |
| Program set-up | child.c:60-74, 140-670, environ.c | descriptors, ids, signals, environment, arguments | parse the request, open the streams, drop privileges, fork, all up to exec | `Program`, `Launch` |
| Argument/environment codec | array.c | vector of strings | push, serialize, parse | `Codec`, `Launch` |
| Client | jail.c | kind of stdin, terminal attributes, atexit hook, receive buffer, `fd_set`, `g_client_sigterm`, `g_client_sigwinch`, `g_client_status` | initialise, connect, request, loop, dispatch, resize, exit | `JailClient`, its request in `Launch` |
| Client and session | both | | what a user sees of a program | `Session` (abstractly: `RemoteExec`), `Echo` |
| jaild: main, babysitter, master | jaild.c | the socket's file, listening socket, `g_server_sigterm`, `g_server_sigchld`, one connection, the children | bind, listen, daemonize, clone/fork, wait, reap, accept, fork a session, stop, unlink | `Jaild` (abstractly: `Service`) |
| Namespaces, mounts | jaild.c:277-319, 344-419, 461-525 | none | clone, mount, chroot | `Jaild`: whether a mount reaches the host |
| Options | jaild.c `parse_args`, utility.c `atoi32` | option globals | parse, check | `CommandLine` |
| Process title | cmdline.c | the memory of argv and environment | copy, rewrite in place | `CommandLine` |
| Small utilities, default path | utility.c, config.c | none | | `add_to_set`, `set_alarm_timer`, `atoi32` only |

How they interact.  `main` of jaild binds the socket's file and becomes the
*babysitter* (it waits for the master, hands requests to stop on, removes the
file).  The *master* accepts a connection and forks a *session* for it.  A
session and its client exchange typed messages over the connection; the session
forks one *program* and is tied to it by pipes, a socket pair or a pty, and by
SIGCHLD.  Nothing is shared between processes but the socket, the file and
signals.  Within each process the "second thread" is the signal handler, which
only sets a flag: every process keeps its signals blocked and lets them in at one
place, `pselect(2)` or `sigsuspend(2)`.

What is hard: the order of death, output and messages; flags cleared after work; an
`fd_set` whose stale bits survive; two blocking writers facing each other; `pselect(2)`
that may or may not be atomic; partial failure of start-up; who removes the file; a
container that dies under its sessions; numbers that change sign on their way; pointers
into memory that is written over.  `PROJECT.json` lists each hazard at its line.

What makes each part correct:

* session: output and input units conserved in order per stream; status last, once
  and true; a death is never forgotten; it ends for a cause, and does end.
* client: the terminal is restored on every way out; the exit code is the program's;
  a resize arrives.
* both together: whatever happens between them, it looks like one remote execution.
* jaild: every dead session is reaped; every client is answered; a request to stop
  is heeded at any moment; nothing is left behind; another jaild's file is safe; no
  mount reaches the host by accident.
* framing: messages come out as they went in; there is always room to read.
* start of a program: it runs as its client, with nothing open but its streams, its
  client's arguments and what may pass of its environment.

## Modules

### `Wire`
`c2s`, `s2c`: messages written and not yet read, at most `SockCap` each way.
`sent`, `got` are histories of what the client wrote and read.  `cliEnd`, `srvEnd`
are the two ends.  A write of one message is one step and needs room (the code's
blocking `write(2)`; a message is either written whole or not yet).  A read takes
any non-empty prefix of what is in flight, as `read(2)` into a 64 kB buffer does:
the partial last message stays in the buffer and is nobody's until it is complete.
That the receive buffer makes this of a stream of bytes is what `Framing` shows.
Contents of a message are a number: for data the *unit* (what one `read(2)`
returned), for a resize or a terminal request the size, for a status the wait
status.  `EmulatedPselect` is here since both processes have it: FALSE is the
kernel's atomic call; TRUE is the emulation the comments at child.c:951 and
jail.c:388 speak of, where a signal may be delivered between the tests of the
flags and the sleep.

### `SessionServer` (child.c)
`pc` is where `child_main` stands; each step is one system call with the code up to
the next.  `pid` is `g_child_pid` (-1, the program, 0), `fd` is `g_child_stdout`
and `g_child_stderr`, `fds` the `fd_set`, `inbox` the receive buffer, `outbox` a
message being written (a blocking write is a place of its own, so that everything
else may happen meanwhile), `handshaking`, `sigalrm`, `sigchld`, `pending` the timer
and signals.  `reason` is a history variable that says why the loop was left.

* `fds` is *not* cleared every round, since `FD_ZERO` stands before the loop
  (child.c:939) and only `pselect(2)` itself overwrites the set.  Descriptor numbers
  matter for that (`Examined` looks at the numbers below `max + 1`), so `Descriptors` has
  the numbers a session gets: the connection at 4 with 0-3 taken and 5 and up free.
  With a pipe stdout is 6 and stderr 8, with a socket pair 8 and 7, a tty has 6;
  `Launch` shows where these numbers come from (`ProgramStartsClean`).
* With the atomic call a signal is delivered only while the process really sleeps
  or when no descriptor is ready.
* The program: `stdio` are the descriptors it, or what it left behind, has open;
  `pipe[s]` and `inPipe` are units in the pipes; `PipeCap` is their capacity.
  A pty whose last slave closed reads as `EIO`, a pipe as 0: both are `AtEOF`.
* `ExecuteForkFails` covers every failure of `socketpair`, `pipe`, `openpty`, `fork`
  (the code leaves the loop for each).

### `AnyClient`
A client that may send any of `Requests` at any time, `MaxSend` in all, read or not
read, and close at any moment.  The session has to be right with every peer.

### `Flood`
`AnyClient` with a client that may send for ever (a window resized again and again) and
a program, or what it left behind, that may write for ever.  What comes so is not
entered in the histories, so that the graph stays finite and TLC sees behaviours in which
it never ends.  Either may stop at any time.  The liveness of a session is checked here,
since with messages and output bounded every session would come to rest for that alone.

### `JailClient` (jail.c)
`cpc` is where `main` stands; `hook` is "atexit registered", `termios` the user's
terminal, `cbuf` the receive buffer, `cout` a message being written.  The user types,
ends the input, resizes, sends SIGTERM.  The exit code 255 stands for every
failure (`main` returns -1).  Its writes to its own standard output and error
(jail.c:251) may fail but never block for ever.

### `Session`, `RemoteExec`, `Echo`
`Session` is `SessionServer` and `JailClient` joined over `Wire`, with `final`
remembering what had been written when the program exited, and the fault
`ContainerDies`: the master is the init of a PID namespace, and its death kills session
and program between any two of their steps.  `RemoteExec` is the abstract
specification of running a program in the container: started at most once, output
shown in order, input read in order, one result, which is the program's own code after
its end or a failure.  `Session` implements it (`ExecutesRemotely`) with
`program <- prog`, `status <- code`, `result <- exitCode` and the histories of what the
user typed and was shown; requests, timers, messages, resizes and signals are
stutters.  `Echo` restricts the program to one that copies its input.

### `Jaild`, `Service` (jaild.c)
`bpc` is the process that is started: main, after `daemon` fork the daemon, then the
babysitter.  `mpc` is the master.  `path` is the socket's file: absent, own, or
a rival's.  `queue` are connections not accepted, `held` those open in the master,
`session` the sessions, `bpending`/`mpending` and `bterm`/`mterm`/`mchld` the signals
and flags.  Signals do not count: `pending` is a set.  `cloned` says that the master is
the init of a PID namespace: its death takes the sessions with it, while sessions
of a forked master go on and are reaped by the host's init.  `-c` (stay in the
foreground), `-r`/`-m` (need namespaces) are chosen in `Init`.  Launching as a daemon
forks, and a signal pending at the launcher is not pending at the child.  A request to
stop reaches the babysitter (`AskedToStop`), which hands it on, or the master alone
(`MasterAsked`: SIGHUP and SIGINT have their handlers there too, jaild.c:109-112, 132).
`shared` says whether the host's mounts propagate to and from new namespaces,
`hostTouched` whether a mount of the master was seen on the host.  The call
`mount("none", "/", "/", MS_BIND | MS_REC | MS_PRIVATE, NULL)` at jaild.c:498 is made by
the parent, in its own namespace, and since it asks for a bind mount of a file "none"
it leaves the propagation as it is; the model therefore has no effect of it, and
`HostTouchedOnlyIf` says what remains true.

`Service` is the abstract specification of all this to a client: the service opens and
closes once; a client comes while it is open, waits, is served at most once or sent away,
and nobody waits at a closed one.  `Jaild` implements it (`ServiceKept`): it is open
while the socket listens (`ServicePhase`), a client waits while its connection is in
`queue` or `held` without a session, and is served while its session runs
(`ClientState`).  The babysitter, signals, flags, files and mounts are stutters, but
for the deaths that close the service.

### `Framing`, `MessageQueue` (buffer.c)
Bytes are known by their offset in the stream.  `msgs` are the messages written, each at
its offset; `arrived` bytes have been read, the last `buflen` of them are in the buffer.
`Front` is what the front of the buffer is taken for: the message written there, and
anything at all where none was, so that a lost or repeated byte shows.  A read without
room returns zero, which the code takes for the end.  `MessageQueue` is what the
two ends expect, and `QueueKept` says that the buffer implements it.

### `Codec` (array.c, environ.c), `Descriptors`
Operators.  A serialized list is the sequence of its strings and an empty one at the
end, as in memory an empty string is nothing but a zero byte; sizes are counted in
bytes.  A string is `NAME=value` or a value; every string of an environment has its "=".
Which strings there are, their lengths, which begin with "-" and which names with "LC_"
are constants.  The two loops over a list are recursive functions.  `Descriptors` has tables of
descriptors and the kernel's rule of the lowest free number, with several files opened
one after the other (`OpenFiles`) as a recursive function too.

### `CommandLine` (cmdline.c, `parse_args`, `atoi32`)
`area` is the memory of argv and environment, one cell per string and one per zero byte;
`cmdline_setup` copies it and finds how far the title may reach (`titleSize`),
`parse_args` reads the copies, `MasterTitle` writes over the area.  `Accounts` are the
effective uid, gid and groups that jaild may be started with, in any combination, as
`geteuid` and `getegid` (jaild.c:565-566) have nothing to do with each other.  Option
values are pointers (`Text`), so that what is read later is what the memory then has.
`uid_t` and `gid_t` are numbers modulo `WordSize`, as they are unsigned, and signed where
`%d` prints them.

### `Program` (child.c:140-670), `Launch`
`Program` goes from a request to `execve`: parse, open streams, drop privileges, fork,
restore signals, find the user, go home, set the environment, construct arguments.
Each step may fail where the code lets it (`refused` in the session, `exited` in the
program's process; `crashed` is a shell given with `-s` without a slash).  The shell is
tested in two ways: that of the user database has to begin with a slash (`Absolute`,
child.c:159), that given with `-s` only to have one (`Slashed`, child.c:243).  `Launch`
puts before it all that decides about it: `CommandLine`, the socket and its owner,
the daemon's descriptors, the master, a session for a client that found the file, and
the client's request; the lists a client may come with are constants, which `MCLaunch`
gives values for TLC.

## What the runs check

| Run | Module | Checks | Shows |
|---|---|---|---|
| `session_io` | AnyClient | `OutputConserved`, `StdinConserved`, `ReadsWhatIsReady`, `DescriptorOnlyIf`, `SleepIsClean`, `StatusIsLast`, `ExitNoticed` | two output streams and the input relayed whole and in order while messages arrive cut anywhere, and with stop/continue; when a closed descriptor is asked for; the status comes last; a death is never forgotten |
| `session_live` | Flood | `TypeOK`, `EndsForCause`, `HandshakeEnds`, `ExitEndsSession` | a session with a terminal, resizes, programs that close their descriptors or leave processes behind, against any client, with output and messages that may never end: it ends unless something keeps coming, and for a cause |
| `joint_pipe` | Session | `OutputInOrder`, `InputInOrder`, `KeptWhileRunning`, `StatusLostOnlyIf` | the streams end to end, whole and in order; why a session may end early; when a client does not return the code it was told |
| `joint_tty` | Session | `TerminalRestored`, `ResizeNotLost`, `LeavesForCause`, `ExitCodeTrue` | raw mode undone on all ways out, with failures, signals and the death of the container at every step; an exit code is that of the program or 255 |
| `joint_live` | Session | `ProgramEndsSession`, `ExecutesRemotely` | emulated `pselect`: the 5 s timeouts make up for a missed signal; client and session implement `RemoteExec` |
| `jaild` | Jaild | `TypeOK`, `CleanEnd`, `DeathsNoticed`, `NoSignalSleptOn`, `HostTouchedOnlyIf`, `RivalUntouched`, `DeadAreReaped`, `ClientAnswered`, `StopHeeded`, `ServiceKept` | jaild from start to end, with failures, SIGKILL and a rival; it implements `Service` |
| `framing` | Framing | `RoomToRead`, `QueueKept`, `EveryMessageHandled` | all ways of cutting three messages, the longest among them |
| `launch` | MCLaunch | `OptionsSurvive`, `TitleInBounds`, `RunsAsClient`, `ProgramStartsClean`, `EnvironmentTrue`, `ArgumentsArrive` | from any command line to a running program |
| `bug_*` | Session, Echo, MCLaunch | one property each | the disagreements below |

Each takes from seconds (`framing`) to three and a half minutes with two workers.  Every
property has a mutant in `PROJECT.json`: a plausible mistake in one definition with
which the run finds the property violated.  Their operators stand before what they
replace, marked "A mistake that a run tells from the code".

`NoSignalSleptOn` says nothing of the master in `jaild` (the run has the emulated
call, which `DeadAreReaped` needs to be of interest); the theorem
`NobodySleepsOnSignals` covers both kinds.  Deadlock is checked but in `framing`, where
the writer may fall silent in the middle of a stream.

### Bounds, and why they are enough

* `SockCap`, `PipeCap` 1 or 2: every operation that can block does block.  `joint_live`
  needs `SockCap` 2: with room for a single message both ends may stand in a blocking
  write (a client writing input, a session writing output) while a real socket buffer
  holds at least 25 messages of the largest size the programs use.
* `MaxWrite` is what a program writes to both streams together: with 2, in `session_io` and
  `joint_pipe`, two units go to one stream, so that their order may be wrong, or one
  to each, so that streams may be mixed.  `MaxTyped` 2 in `joint_pipe` and `MaxSend` 3 in
  `session_io`: two units of input follow the request and a read may cut between them.
  That order is kept however many units there are is proved.
* `Statuses`: 9 is death by a signal, 256 is exit code 1 (`joint_tty` has both), 0 is
  success.
* `MaxResize` 2: the second resize may come while the first is being answered, the one
  case in which a resize could be lost.  `MaxTerm` 1: a request to leave, at any moment.
* `session_live` has `MaxWrite` 0: what a program or client writes there without end is
  uncounted (`Flood`), and the units that are counted are the matter of `session_io`.
  `MaxSend` 3: three messages are needed for a session to hang in a write of input.
* `joint_tty` has a program that writes nothing (`MaxWrite` 0), since resizes, signals and
  three kinds of standard input already make millions of states; the one cause of
  `LeavesForCause` this leaves out is the failure of the client's own output.
* `MaxRefusals` 1: `accept(2)` fails that often, at any moment.  Without a bound no
  liveness holds: while `accept` fails, the listening socket stays readable and an
  atomic `pselect(2)` never lets a signal in (a hazard listed, and no claim made).
* `MayDie`: the container dies at most once, at any moment, in the runs that check what
  the client makes of it.
* `framing`: a buffer of 8, headers of 2, lengths 2, 5 and 7 stand for 65536, 4 and up to
  65535: the longest message is one shorter than the buffer, as in the code, and three
  messages overlap the end of the buffer in every way.  `AlwaysRoom` and
  `BufferIsQueue` are proved for all sizes.
* `launch`: jaild is started with uid 0 or 2 and gid 0 or 2, in all four combinations,
  with 9 as one more group; two options in any order (`-u` before and after `-g`, a
  repeated one), 32 for 2^32, and of the numbers 0, 2, 9 and 18 the last out of the range
  of an `int`; a shell and a name with and without a leading slash; with and without
  environment after argv. `FirstKept` 10 for 64, `Numbering` 0 to 11 and `Inherited` {5,
  11}, so that one inherited descriptor lies on each side; `ProgramsStartClean` is proved
  for all others. `RequestRoom` 16 bytes for 8192, so that requests fit, just fit and do
  not fit.  The lists of `MCLaunch`: called as a login shell, as none and with no name at
  all, with an empty argument in the middle and at the end, and one that looks like a
  variable; a variable given twice, two that may not pass and `SSH_TTY`.
  `bug_empty_argument` needs no option (`MaxOptions` 0).
* `Clients`: 2, so that deaths merge into one SIGCHLD and one client waits while
  another is being served.

### Fairness

Weak fairness of each process' own step (the kernel runs a process that can run), of
the delivery of an unblocked pending signal and of the handshake timer; in
`AnyClient` and `Flood` also of a client that reads, without which a session may wait in
`write(2)` for ever.  In `Session` the client's writes to its own output never block for
ever (jail.c:251): whoever stops reading a client's output stops the client, and
`ProgramEndsSession` does not hold for them.  Nothing is assumed of programs, users,
clients of jaild, rivals or whoever asks jaild to stop: they may stop acting at any time.
In `framing` the reader is fair and the writer is not.

Fair delivery is not enough where the call is atomic: `pselect(2)` (child.c:955) lets a
signal in only while it sleeps or when it finds nothing ready.  While a client keeps
sending, or a process that the program left behind keeps writing, something may be ready
in every round, and neither SIGALRM nor SIGCHLD is ever delivered: the session goes on.
This is what the kernel does with this code and no matter of fairness, so the liveness
claims name it: `HandshakeEnds`, `ExitEndsSession` and `ProgramEndsSession` hold
unless such arrivals go on for ever (`KeepsComing`).  `Flood` has these behaviours,
and TLC refutes the first two claims in it when the exception is left out.

### Disagreements found

Each has a run that shows the shortest behaviour; all concern the promise that a
container is used "just like the way you SSH from a remote machine"
(README.md:26-27).

* `bug_status_delivered`: a program closes one of its streams before it exits.  The
  `pselect` that reports the end of the stream leaves the bit of that very descriptor
  set, the session closes the descriptor, and nothing empties the set (`FD_ZERO` stands
  before the loop, child.c:939).  The next `pselect`, whose `nfds` the other stream raises
  above the number, fails with EBADF and the session ends without a status.  No signal
  or other interruption is needed.  `DescriptorOnlyIf` says exactly when.
* `bug_output_complete`: `child_sigchld` (child.c:942) sends the status and
  ends the session while output is still in the pipe.
* `bug_echo`: the blocking write to the program (child.c:751) and a program that writes
  before it reads on wait for each other.
* `bug_empty_argument`: an empty argument is a lone zero byte, which `array_parse`
  (array.c:61) takes for the end of the list; the arguments after it become
  environment.  `ArgumentsArrive` says that all others arrive.

Surprising, but not contradicted by any text of the repository, and stated as what does
hold: a client that was told an exit code returns 255 if its standard input was readable
in the same round and had ended or could not be sent (`StatusLostOnlyIf`,
jail.c:409); a resize makes a client leave whose standard input is no terminal
(`LeavesForCause`, jail.c:362); mounts reach a host that shares its own
(`HostTouchedOnlyIf`, jaild.c:498); descriptors from 64 up are inherited by every
program (`ProgramStartsClean`, jaild.c:425); `-u` with no number is accepted as -1, and
nothing runs only because no client has such an id (`RunsAsClient`, jaild.c:624); a jaild
that is not root may be given, with `-g` ("set GID of the container", jaild.c:541),
a supplementary group of its own: it lets in the clients of that group, and
since only root drops privileges (child.c:62) their programs run in the effective group
that jaild has, whichever it is, that of root (gid 0) included (`RunsAsClient`,
jaild.c:177-178, 565-566); a process left behind by a program that keeps writing, or a
client that keeps sending, keeps the session from noticing that the program is dead, or
that the time for a request is over (`KeepsComing`, child.c:955).

`ProgramEndsSession` and `ExitEndsSession` have a second exception: a session that
hangs in `write(2)` to an input which something left behind holds open (`StuckOnInput`).

## What is proved

TLAPS, for every value of the constants under the assumptions the modules name
(`AccountsAssumption`, `SockCapAssumption`, `PipeCapAssumption`, `MaxWriteAssumption`,
`StatusesAssumption`, `ProgramMayAssumption`, `EmulatedAssumption`, `ClientAssumption`,
`MayDieAssumption`, `CommandLineAssumption`, `CodecAssumption`, `ProgramAssumption`,
`LaunchAssumption`, those of `AnyClient`, `Jaild` and `Framing`): any capacity, any number
of clients, messages, units and options, any kind of `pselect`, any buffer greater than
the longest message, any lists of arguments and variables, any descriptors inherited.
`ProgramAssumption` says that a process may have at least ten descriptors (POSIX promises
20) and that jaild closes at least those (it closes those below 64, jaild.c:425).
`StatusesAssumption` says that a program ends with one of the wait statuses of Linux, 16
bits of code and signal, no two of which the client could take for "no status yet".

### One session

The session is proved once, for whatever stands at the other end.  `SessionLemmas`
shows of each inductive invariant that every step of `SessionMoves` keeps it: a step
of the session or its program, or `ClientMay`, anything a peer could do to the socket, or
the death of the container.  `SessionServer_proofs` applies this to
`AnyClient!Spec`, `Session_proofs` to `Session!Spec`, whose client's steps are
`ClientMay` by `ClientTurnMay`.

`SessionServer_proofs`:

* `TypesHold`: `TypeOK`.  `TypeInv` adds that a dead program has one of the statuses and
  that a session that writes has something to write.
* `DeathIsNoticed`: `ExitNoticed`.  The flag is cleared after `waitpid` said "nothing",
  so `DeathInv` adds what makes that safe: at the place between the two, a program that
  died in the meantime has left SIGCHLD pending.
* `EndsOnlyForCause`: `EndsForCause`, by `PhaseInv`: it ties `g_child_pid` to the life
  of the program, says that once it is 0 the only way is out, and that a unit of
  input was refused only when nobody was left who held the program's input open.
* `StatusComesLast`: `StatusIsLast`, by `StatusInv`: no status is told while
  `g_child_pid` is not 0, and a message in `outbox` is one being written.
* `OutputIsConserved`: `OutputConserved`, which is inductive once `TypeInv` and
  `StatusInv` say what `outbox` may hold: per stream, what was got, is in the socket, is
  being written and is in the pipe is always 1, 2, ... up to what the program wrote.
* `InputIsConserved`: `StdinConserved`, by `StdinInv`, the same equation for input
  with the session's buffer in it, and `BufferInv`: the buffer is empty when the session
  reads.
* `DescriptorOnlyOnce`: `DescriptorOnlyIf`, by `KindInv` (which numbers `fds` may hold
  for each kind of program) and a comparison of those numbers with `max + 1`.
* `ReadsNeverBlock`: `ReadsWhatIsReady`, by `ReadyInv`: a bit of `fds` that is still to be
  looked at in this round is as true as when `pselect` wrote it, since nobody
  else reads the pipe, and a fork in the same round gives numbers that have no bit.
* `SleepsClean`: `SleepIsClean`, by `SleepInv`: between the tests of the flags
  and the sleep no signal is let in.

### Client and session together

`Session_proofs`:

* `JointTypesHold`: `SessionTypeOK` (proved, and checked by no run), by `ClientInv`, which
  also says where each place of the client stands with its buffer and the message being
  written.
* `TerminalIsRestored`: `TerminalRestored`, by `TermInv`: a terminal in raw mode has its
  hook, and the hook has run on whoever is gone.
* `ExitCodeIsTrue`: `ExitCodeTrue`.  Four invariants carry a status from the program's
  death to the client's exit: `StatusInv`, `SuffixInv` (the client's buffer is the
  end of what it got), `KnownInv` (a status known is that of the dead program) and
  `ResultInv` (an exit code is -1 until there is one, then 255 or the status').
* `KeptWhileItRuns`: `KeptWhileRunning`, by `TalkInv` (this client asks for a program first,
  once, and then sends only input and sizes, so that its session has no message to
  refuse) and `KeptInv`.
* `StatusLostOnlyThen`: `StatusLostOnlyIf`, and `ClientLeavesForCause`:
  `LeavesForCause`, by `RoundInv`, `LostInv`, `LeaveInv`: what the rest of the client's
  round may still do after the status came.
* `OutputComesInOrder`: `OutputInOrder`, and `InputComesInOrder`: `InputInOrder`, by
  `ShownInv` (what was shown, with the client's buffer, is what it got), `TypedInv` (what
  it sent, is sending and was not read yet is what the user typed), and the equations of
  the session between them.
* `ResizesAreKept`: `ResizeNotLost`, by `SizeInv`: while the client's flag is
  down and no SIGWINCH is pending, the newest size is in the terminal of the program
  or in the last message on its way to it.
* `ExecutesAsPromised`: `ExecutesRemotely`, that is `RemoteExec!Spec`: initial states map
  to initial states; a step of the session maps to `Start`, `Write`, `Read`, `End` or
  a stutter (`SessionMaps`), one of the client to `Type`, `Show`, `Return` or a stutter
  (`ClientMaps`).  The invariants above are what makes each step the abstract one:
  that the unit shown is the next one needs `OutputInOrder` with room in it
  (`NextUnit`), that the result is the program's needs `ExitCodeTrue`, and that a program
  is started once needs that streams are open only after a start (`StdioInv`).

### jaild

`Jaild_proofs` (specification `Jaild!Spec`):

* `TypesHold`: `TypeOK`, with `OneHeld` (at most one connection open in the master) and
  `NotForked`.
* `RivalIsSafe`: `RivalUntouched`, by `PathInv`: from `bind` on the file is jaild's own
  until jaild removes it in the step in which it leaves.
* `EndsCleanly`: `CleanEnd`, by `EndInv`: the file is removed only after the master was
  reaped, and the death of a cloned master ends all sessions.
* `DeathsAreNoticed`: `DeathsNoticed`, by `NoticeInv`: when the flag is about to be
  cleared, SIGCHLD is pending if a session has died since.
* `NobodySleepsOnSignals`: `NoSignalSleptOn`, by `SleepInv`: what each process
  has tested on its way to sleep still holds when it sleeps.
* `HostIsKept`: `HostTouchedOnlyIf`, by `MountInv`: a master without namespaces is one
  of no options, so that none of its mounts can reach the host.
* `ServiceIsKept`: `ServiceKept`, that is `Service!Spec`, step by step.  `ServiceInv`
  says that a connection is in the queue or in the master's hands but not in both, that
  who has a session is not in the queue, that the master forks only for a client that
  had no session, and that a socket nobody listens on has no queue.  With `OneHeld`,
  what a master closes is one client's connection, so that `SessionStarts` is one
  `Serve` and a failed `fork` one `Leave` (`MasterKeepsService`); a step that only
  takes things away is `Leave` or `Close` (`Departs`, `DepartsIsPromised`), which
  covers the end of the master, whoever killed it, with the sessions it drags
  along (`EndDeparts`).

### Messages in the buffer

`Framing_proofs` (specification `Framing!FramingSpec`):

* `AlwaysRoom`: `RoomToRead`.  A reader that goes to read has no whole message, so that
  it holds less than one, and the longest is shorter than the buffer.
* `BufferIsQueue`: `QueueKept`, that is `MessageQueue!Spec`: the invariant says that the
  front of the buffer is where the next message was written, that messages lie end to
  end, and that those handled are the first ones written; initial states map to initial
  states and every step to a `Put`, a `Take` or a stutter.

### From a command line to a program

`Launch_proofs` (specification `Launch!Spec`):

* `TitleStaysInBounds`: `TitleInBounds`, by `TitleInv`: until the title is written the area
  has its first shape, and the room found is up to the end of argv alone or of the last
  string.
* `OptionsAreKept`: `OptionsSurvive`, by `PlaceInv`: a text option points to the copy
  of the last argument with its letter among those read so far, and the copy is not
  in the memory that is written over.
* `ProgramsRunAsClients`: `RunsAsClient`, by `AccountInv`, for whatever account jaild is
  started with: a client is served only where it found the socket, so that its ids are
  those in the options, printed and read back (`SignedTells`: two ids that print
  alike are one); and what a program's process does on its way changes its ids to the
  client's where jaild is root, and not at all where it is not.  In the second case
  `parse_args` saw that the client's group is one of jaild's, but the program's is
  jaild's own: see "Disagreements".
* `ProgramsStartClean`: `ProgramStartsClean`.  `FilesInv` is the table of descriptors at
  every stage from the start of jaild to `execve`: above nine what was inherited and is
  kept (`Above`), below ten one table per stage and per way of making the streams
  (`Listening`, `Connected`, `Opened`).  A new file never gets a number above nine, since
  there is always a free one below (`OpenInTable`); several files are opened one by
  one (`OpenUnfold`); and `dup2` with the closing behind it leaves exactly the three streams
  (`PipeForked`, `SocketForked`, `TtyForked`).
* `ArgumentsReachProgram`: `ArgumentsArrive`.  `AskedInv` says what lies in the buffer from
  the client's request to `ParseRequest`; The theorem `RequestReadBack` is the heart of it: two
  lists without empty strings, serialized by `client_prepare` one after the other, are found
  again by `child_parse`, and the sizes it passes to `array_parse` leave just enough.
  `ParsedInv` and `BuiltInv` carry the arguments on to the program.
* `EmptyStringCuts` says what becomes of the lists that `ArgumentsArrive` excepts: of a list
  with an empty string what stands before it is read, and what stands behind it is taken
  for the next list; arguments become environment, as `bug_empty_argument` shows.
* `RequestStaysInBuffer`: a request that is sent, offset and both lists counted, has
  fitted into the client's buffer (`RequestFits`).
* `EnvironmentReachesProgram`: `EnvironmentTrue`, by the same invariants and `NameInv`
  (`asked.name` is what `-n` gave, from `PlaceInv`).  The filter runs twice, in the client
  before it sends and in the session: `PermittedLatest` says that the last value of a
  variable is the last one after the filter, by induction over the list.

### What the proofs rest on

`SequenceLemmas` has the facts on sequences (types of their operations, what is
concatenated in another order or cut and joined again, numbered units), `WireLemmas` the
same for `Bodies`, the units of one kind among messages, and the section on lists of
strings in `Launch_proofs` for `Bytes` and `PermittedOnly`.  All but the simplest are by
induction over data, which the library's theorems, with a predicate for a parameter, do
not give here; so the lemmas use induction in the form of a set: `NatSets` (a set with 0
that contains n + 1 with n contains all naturals) and `SeqSets`.  `Bodies`, `Bytes`,
`PermittedOnly` and `OpenFiles` are for this reason recursive functions and not operators.

### Only model-checked

Liveness (`HandshakeEnds`, `ExitEndsSession`, `ProgramEndsSession`, `DeadAreReaped`,
`ClientAnswered`, `StopHeeded`, `EveryMessageHandled`), which is out of the prover's
reach.  Every safety property of a passing run, and each of the three refinements, is
also proved.

## Not modelled

Inside the container, which file systems are mounted where (`mount(2)` and `chroot(2)`
only succeed or fail); growth of the vector in array.c (a failed allocation is a request
that is not sent, or an exit); help, version and usage texts; `config.c`, one
constant; failure of `setitimer`, of the `tcsetattr` at exit, of `waitpid` and
`sigemptyset` in the babysitter (each can fail only if the program is wrong);
the listen backlog; an administrator who removes the socket's file; a SIGKILL to
the client alone (a dead peer is the `ClientClose` of `AnyClient`).

Modelled, with nothing claimed: a jaild started with a standard descriptor closed
(`stdOpen` FALSE in `Launch`: a program's own stream may then be closed); a shell given
with `-s` that has no slash (`crashed`).  The name of the shell in the arguments
lies in a local array of a function that has returned (child.c:262); with the flags of
the Makefile the compiler expands that function in its caller, so that the name is still
there at `execve`, and `Program` has it so.

## Plan

What is left: `Jaild` with sessions of `SessionServer` in place of "running".
