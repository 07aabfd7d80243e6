------------------------------- MODULE Program -------------------------------
(***************************************************************************)
(* From the request for a program to its first instruction: child_parse,   *)
(* child_fork and child_exec_child of src/server/child.c.  The session     *)
(* opens the program's streams, drops its privileges and forks; the new    *)
(* process prepares itself and becomes the program, or exits.              *)
(***************************************************************************)
EXTENDS Codec, Descriptors

CONSTANTS
  Shells,           \* what the user database may name as shell
  FirstKept,        \* jaild closes the descriptors from 3 up to this one
  Numbering         \* the numbers of descriptors, from 0 on

\* FirstKept is 64 (jaild.c:425); POSIX promises a process 20 descriptors.
ASSUME ProgramAssumption ==
  /\ FirstKept \in Nat /\ FirstKept >= 10
  /\ 0 .. 9 \subseteq Numbering /\ Numbering \subseteq Nat

VARIABLES
  xpc,              \* how far the program has come
  kind,             \* "pipe", "socket" or "tty"
  request,          \* the strings of the request, as they lie in the buffer
  size,             \* their bytes
  args, env,        \* as parsed, and then as the program has them
  asked,            \* what jaild was told: uid, gid, name and shell
  creds,            \* uid, gid and groups of session and program
  files,            \* descriptors of jaild, its master, the session
  own,              \* descriptors of the program
  signals,          \* blocked and ignored signals of the program
  shell,            \* child_get_shell
  cwd               \* where the program starts

programVars == <<xpc, kind, request, size, args, env, asked, creds, files, own,
                 signals, shell, cwd>>

Kinds == {"pipe", "socket", "tty"}
\* "idle", "asked", "parsed", "opened", "dropped", "forked", "session", "user",
\* "home", "environ" and "args" come before one of these.
ProgramEnds == {"running", "unparsed", "refused", "exited", "crashed"}

\* Paths from the root, and those with a slash anywhere.
Absolute(sh) == sh \in {"/bin/sh", "/bin/rc"}
Slashed(sh) == Absolute(sh) \/ sh = "bin/rc"
DefaultShell == "/bin/sh"

Nobody == [uid |-> 0, gid |-> 0, name |-> "", shell |-> ""]

ProgramInit ==
  /\ xpc = "idle" /\ kind = "pipe"
  /\ request = <<>> /\ size = 0
  /\ args = <<>> /\ env = <<>>
  /\ asked = Nobody
  /\ own = [i \in Numbering |-> Free]
  /\ signals = [blocked |-> {}, ignored |-> {}]
  /\ shell = "" /\ cwd = ""

Refuse == xpc' = "refused"
ExitFailure == xpc' = "exited"

-----------------------------------------------------------------------------
(* In the session. *)

\* child_parse.  The bytes of the arguments end one before those of the list.
ParseRequest ==
  /\ xpc = "asked"
  /\ IF Parses(request, size - 1) /\ Parses(Rest(request), size - Used(request))
       THEN /\ args' = Items(request) /\ env' = Items(Rest(request))
            /\ xpc' = "parsed"
       ELSE xpc' = "unparsed" /\ UNCHANGED <<args, env>>
  /\ UNCHANGED <<kind, request, size, asked, creds, files, own, signals, shell,
                 cwd>>

\* socketpair, pipe or openpty; the names of what they open, in that order.
PairsOf(k) ==
  CASE k = "pipe"   -> <<"in0", "in1", "out0", "out1", "err0", "err1">>
    [] k = "socket" -> <<"io0", "io1", "err0", "err1">>
    [] k = "tty"    -> <<"master", "slave">>

\* What becomes descriptor 0, 1 and 2 of the program, and what the session
\* keeps for its input, and for output and error.
StreamsOf(k) ==
  CASE k = "pipe"   -> <<"in0", "out1", "err1">>
    [] k = "socket" -> <<"io0", "io0", "err0">>
    [] k = "tty"    -> <<"slave", "slave", "slave">>
KeptOf(k) ==
  CASE k = "pipe"   -> {"in1", "out0", "err0"}
    [] k = "socket" -> {"io1", "err1"}
    [] k = "tty"    -> {"master"}

OpenStreams ==
  /\ xpc = "parsed"
  /\ \/ xpc' = "opened" /\ files' = OpenFiles(files, PairsOf(kind))
     \/ Refuse /\ UNCHANGED files
  /\ UNCHANGED <<kind, request, size, args, env, asked, creds, own, signals,
                 shell, cwd>>

\* A mistake that a run tells from the code: setgroups(2) is forgotten.
DroppedOfUser == [uid |-> asked.uid, gid |-> asked.gid, groups |-> creds.groups]

Dropped == [uid |-> asked.uid, gid |-> asked.gid, groups |-> {asked.gid}]

\* child_drop_privileges; for an ordinary user there is nothing to drop.
DropPrivileges ==
  /\ xpc = "opened"
  /\ \/ xpc' = "dropped" /\ creds' = IF creds.uid = 0 THEN Dropped ELSE creds
     \/ Refuse /\ UNCHANGED creds
  /\ UNCHANGED <<kind, request, size, args, env, asked, files, own, signals,
                 shell, cwd>>

\* A mistake that a run tells from the code: the connection stays open.
ClosedByProgramKeeps(n) == {n[i] : i \in DOMAIN n}

\* The numbers the new process closes: all that was opened, and the connection.
ClosedByProgram(n) == {n[i] : i \in DOMAIN n} \cup {NumberOf(files, "client")}

\* dup2 of the program's ends, and the close of everything else: after it, but
\* for a terminal, whose slave alone is left to be closed, if it is not one of
\* the three by its own number.
ProgramFiles ==
  LET n == [i \in 1 .. Len(PairsOf(kind)) |-> NumberOf(files, PairsOf(kind)[i])]
      e == [i \in 1 .. 3 |-> NumberOf(files, StreamsOf(kind)[i])]
      Standard(t) == Dup2(Dup2(Dup2(t, e[1], 0), e[2], 1), e[3], 2)
  IN  IF kind = "tty"
        THEN CloseNumbers(
               Standard(CloseNumbers(files, ClosedByProgram(n) \ {e[1]})),
               {e[1]} \ {0, 1, 2})
        ELSE CloseNumbers(Standard(files), ClosedByProgram(n))

\* What is left to the session: its ends, and a second copy of the one that
\* carries input and output both.
SessionFiles ==
  LET dup == IF kind = "pipe" THEN files ELSE OpenFile(files, "copy")
      closed == {PairsOf(kind)[i] : i \in DOMAIN PairsOf(kind)} \ KeptOf(kind)
  IN  CloseNumbers(dup, {i \in DOMAIN dup : dup[i] \in closed})

\* fork(2): the program's process starts with the signals of a session.
ForkProgram ==
  /\ xpc = "dropped"
  /\ \/ /\ xpc' = "forked"
        /\ own' = ProgramFiles /\ files' = SessionFiles
        /\ signals' = [blocked |-> {"ALRM", "CHLD"}, ignored |-> {"PIPE"}]
     \/ Refuse /\ UNCHANGED <<own, files, signals>>
  /\ UNCHANGED <<kind, request, size, args, env, asked, creds, shell, cwd>>

-----------------------------------------------------------------------------
(* In the process of the program. *)

\* child_restore_signals.
Restored == [blocked |-> {}, ignored |-> {}]

\* A session of its own, and no signal blocked or ignored.
RestoreSignals ==
  /\ xpc = "forked"
  /\ \/ xpc' = "session" /\ signals' = Restored
     \/ ExitFailure /\ UNCHANGED signals
  /\ UNCHANGED <<kind, request, size, args, env, asked, creds, files, own, shell,
                 cwd>>

\* A shell of the database counts if it is an absolute path.
Usable(sh) == IF Absolute(sh) THEN sh ELSE DefaultShell

\* getpwuid, which may not know the user; child_get_shell.
FindUser ==
  /\ xpc = "session"
  /\ \/ /\ xpc' = "user"
        /\ \E sh \in Shells :
             shell' = IF asked.shell # "" THEN asked.shell ELSE Usable(sh)
     \/ ExitFailure /\ UNCHANGED shell
  /\ UNCHANGED <<kind, request, size, args, env, asked, creds, files, own,
                 signals, cwd>>

\* child_chdir_to_home: without a home, the root.
GoHome ==
  /\ xpc = "user"
  /\ \/ xpc' = "home" /\ cwd' \in {"home", "/"}
     \/ ExitFailure /\ UNCHANGED cwd
  /\ UNCHANGED <<kind, request, size, args, env, asked, creds, files, own,
                 signals, shell>>

\* Where the client has a value for a variable that may pass; putenv(3) of the
\* last one stays.
Passed(name) == {i \in 1 .. Len(env) : Permitted(env[i]) /\ env[i].name = name}
LastOf(places) == CHOOSE i \in places : \A j \in places : j <= i

\* A mistake that a run tells from the code: SSH_TTY stays the client's.
SshTtyKept(variables) == variables

\* SSH_TTY becomes the program's own terminal, or goes.
SshTty(variables) ==
  IF "SSH_TTY" \notin DOMAIN variables THEN variables
  ELSE IF kind = "tty" THEN [variables EXCEPT !["SSH_TTY"] = "own"]
  ELSE [n \in DOMAIN variables \ {"SSH_TTY"} |-> variables[n]]

\* The environment as a function: what child_chdir_to_home left in it, what may
\* pass of the client's, and the user's own.
Variables ==
  LET user == IF asked.name # "" THEN asked.name ELSE "database"
      names == {n \in GoodNames \cup LcNames : Passed(n) # {}}
  IN  SshTty([n \in OwnNames \cup names |->
               CASE n = "HOME" -> "home"
                 [] n = "PWD" -> cwd
                 [] n = "SHELL" -> shell
                 [] n \in {"LOGNAME", "USER"} -> user
                 [] OTHER -> env[LastOf(Passed(n))].value])

\* child_setup_envvars.
SetEnvironment ==
  /\ xpc = "home"
  /\ env' = Variables
  /\ xpc' = "environ"
  /\ UNCHANGED <<kind, request, size, args, asked, creds, files, own, signals,
                 shell, cwd>>

\* A login shell is asked for by a name that begins with "-", or by none.
IsLogin(al) == al = <<>> \/ al[1] \in Hyphenated
NameOfShell(al) == [name |-> IF IsLogin(al) THEN "-" ELSE "", value |-> shell]

\* child_construct_args: the name is what follows the last slash, and an
\* assertion that there is one.  The name may be too long, or memory short.
ConstructArgs ==
  /\ xpc = "environ"
  /\ \/ ~Slashed(shell) /\ xpc' = "crashed" /\ UNCHANGED args
     \/ /\ Slashed(shell) /\ xpc' = "args"
        /\ args' = <<NameOfShell(args)>> \o SubSeq(args, 2, Len(args))
     \/ Slashed(shell) /\ ExitFailure /\ UNCHANGED args
  /\ UNCHANGED <<kind, request, size, env, asked, creds, files, own, signals,
                 shell, cwd>>

\* execve(2) of the shell.
Execve ==
  /\ xpc = "args"
  /\ xpc' = "running" \/ ExitFailure
  /\ UNCHANGED <<kind, request, size, args, env, asked, creds, files, own,
                 signals, shell, cwd>>

ProgramStep ==
  \/ ParseRequest \/ OpenStreams \/ DropPrivileges \/ ForkProgram
  \/ RestoreSignals \/ FindUser \/ GoHome \/ SetEnvironment
  \/ ConstructArgs \/ Execve
=============================================================================
