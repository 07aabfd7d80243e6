------------------------------- MODULE Launch -------------------------------
(***************************************************************************)
(* From the command line of jaild to a program that runs: jaild parses its *)
(* options, opens its socket and becomes a daemon, and its master forks a  *)
(* session for a client; the client asks for a program; the session parses *)
(* the request and starts the program.                                     *)
(***************************************************************************)
EXTENDS CommandLine, Program

CONSTANTS
  ArgLists,         \* what a client may be called with
  EnvLists,         \* the environments a client may have
  RequestRoom,      \* the buffer a client builds its request in
  ClientIds,        \* user and group of clients
  Inherited         \* the descriptors from 3 on that jaild is started with

\* No client has the number that stands for none, -1 as uid_t.
ASSUME LaunchAssumption ==
  /\ ArgLists \subseteq Seq(Strings) /\ EnvLists \subseteq Seq(Strings)
  /\ RequestRoom \in Nat
  /\ ClientIds \subseteq 0 .. WordSize - 2

VARIABLES
  stage,            \* how far jaild has come: "start", "listening",
                    \* "detached", "serving", "session" or "failed"
  stdOpen,          \* jaild was started with descriptors 0, 1 and 2 open
  client,           \* the client's uid and gid
  owner,            \* the user the socket's file belongs to
  given             \* history: arguments and environment of the client

launchVars == <<stage, stdOpen, client, owner, given>>
vars == <<commandVars, programVars, launchVars>>

FilesAtStart ==
  [i \in Numbering |-> IF i < 3 THEN "std" ELSE IF i \in Inherited THEN "old" ELSE Free]

Init ==
  /\ CommandInit /\ ProgramInit
  /\ stage = "start"
  /\ stdOpen \in BOOLEAN
  /\ files = IF stdOpen THEN FilesAtStart ELSE CloseNumbers(FilesAtStart, {0})
  /\ creds = ids
  /\ client = [uid |-> 0, gid |-> 0] /\ owner = 0
  /\ given = [args |-> <<>>, env |-> <<>>]

-----------------------------------------------------------------------------
(* jaild. *)
ReadOptions ==
  /\ stage = "start"
  /\ CommandStep
  /\ UNCHANGED <<programVars, launchVars>>

\* chown(2) leaves alone what it is given as -1.
NoId == WordSize - 1
MayGive ==
  \/ ids.uid = 0
  \/ opts.uid \in {ids.uid, NoId} /\ opts.gid \in ids.groups \cup {ids.gid, NoId}

\* server_daemonize_first and server_start.
StartServer ==
  /\ stage = "start" /\ opc = "ready"
  /\ files' = OpenFile(CloseNumbers(files, 3 .. FirstKept - 1), "listen")
  /\ owner' = IF opts.uid = NoId THEN ids.uid ELSE opts.uid
  /\ stage' \in {"failed"} \cup (IF MayGive THEN {"listening"} ELSE {})
  /\ UNCHANGED <<commandVars, xpc, kind, request, size, args, env, asked, creds,
                 own, signals, shell, cwd, stdOpen, client, given>>

\* server_daemonize_second: 0, 1 and 2 become /dev/null, whatever they were.
Detached ==
  LET t == OpenFile(files, "null")
      n == NumberOf(t, "null")
  IN  CloseNumbers(Dup2(Dup2(Dup2(t, n, 0), n, 1), n, 2), {n} \ {0, 1, 2})

Detach ==
  /\ stage = "listening"
  /\ stage' = "detached"
  /\ files' = IF opts.daemon THEN Detached ELSE files
  /\ UNCHANGED <<commandVars, xpc, kind, request, size, args, env, asked, creds,
                 own, signals, shell, cwd, stdOpen, client, owner,
                 given>>

StartMaster ==
  /\ stage = "detached"
  /\ MasterTitle
  /\ stage' = "serving"
  /\ UNCHANGED <<programVars, stdOpen, client, owner, given>>

\* The name a client looks for, if SOCKET says nothing else.
ClientPath(c) == <<"jaild", Signed(c.uid), Signed(c.gid)>>

\* accept(2) of a client that found the file and may use it, and the fork(2) of
\* its session, which closes the listening socket.  By then name and shell are
\* read through the pointers of parse_args.
StartSession ==
  /\ stage = "serving"
  /\ \E i \in Numbering : files[i] = "listen"
  /\ \E u, g \in ClientIds : client' = [uid |-> u, gid |-> g]
  /\ ClientPath(client') = SocketPath
  /\ client'.uid \in {0, owner}
  /\ files' = CloseNumbers(OpenFile(files, "client"), {NumberOf(files, "listen")})
  /\ asked' = [uid |-> opts.uid, gid |-> opts.gid,
               name |-> IF opts.name = Nowhere THEN "" ELSE Text(opts.name),
               shell |-> IF opts.shell = Nowhere THEN "" ELSE Text(opts.shell)]
  /\ stage' = "session"
  /\ UNCHANGED <<commandVars, xpc, kind, request, size, args, env, creds, own,
                 signals, shell, cwd, stdOpen, owner, given>>

-----------------------------------------------------------------------------
(* The client. *)

\* offsetof(env) in the messages that ask for a program: terminal and window
\* size come before it.
Offset(k) == IF k = "tty" THEN 3 ELSE 1

\* A mistake that a run tells from the code: the length counts the arguments once.
RequestBytesShort(al, el) == Bytes(al) + Bytes(el) + 1

\* What client_prepare returns, beyond the offset.
RequestBytes(al, el) == Bytes(al) + 1 + Bytes(el) + 1

\* client_execute and client_prepare: arguments and what may pass of the
\* environment, if there is room.  What does not fit is not sent.
Request ==
  /\ stage = "session" /\ xpc = "idle"
  /\ \E al \in ArgLists, all \in EnvLists, k \in Kinds :
       LET el == PermittedOnly(all) IN
       /\ Fits(al, RequestRoom - Offset(k) - 1)
       /\ Fits(el, RequestRoom - Offset(k) - Bytes(al) - 1)
       /\ request' = Serialize(al) \o Serialize(el)
       /\ size' = RequestBytes(al, el)
       /\ kind' = k
       /\ given' = [args |-> al, env |-> all]
  /\ xpc' = "asked"
  /\ UNCHANGED <<commandVars, args, env, asked, creds, files, own, signals,
                 shell, cwd, stage, stdOpen, client, owner>>

-----------------------------------------------------------------------------
(* The session, and the program. *)
StartProgram ==
  /\ ProgramStep
  /\ UNCHANGED <<commandVars, launchVars>>

\* Nothing is left to do, or jaild waits for a client that does not ask.
Finished ==
  /\ \/ opc = "quit"
     \/ stage \in {"failed", "serving"}
     \/ stage = "session" /\ xpc \in ProgramEnds \cup {"idle"}
  /\ UNCHANGED vars

Next ==
  \/ ReadOptions \/ StartServer \/ Detach \/ StartMaster \/ StartSession
  \/ Request \/ StartProgram
  \/ Finished

Spec == Init /\ [][Next]_vars

-----------------------------------------------------------------------------
(***************************************************************************)
(* Properties.                                                             *)
(***************************************************************************)
Running == xpc = "running"

\* A program runs as the user of the client that asked for it, never as root.
\* If jaild was started by root it runs in the client's group and no other, not
\* that of root; else in the groups jaild was started with, that of root not
\* excluded, of which the client's is one.  So it is whatever was given to -u and
\* -g, numbers out of range and no numbers included (jaild.c:177-178, 563-633,
\* child.c:60-74, jail.c:554).
RunsAsClient ==
  Running =>
    /\ creds.uid = client.uid /\ creds.uid > 0 /\ client.gid > 0
    /\ IF ids.uid = 0
         THEN creds.gid = client.gid /\ creds.groups = {client.gid}
         ELSE creds = ids /\ client.gid \in ids.groups \cup {ids.gid}

\* A program starts with its own three streams and nothing else open but what
\* jaild inherited above the numbers it closes, and with no signal blocked or
\* ignored; its session has the descriptors SessionServer counts on, if jaild
\* was started with its standard ones (child.c:271-296, 478-610, jaild.c:425).
ProgramStartsClean ==
  Running /\ stdOpen =>
    /\ \A i \in Numbering :
         own[i] = IF i < 3 THEN StreamsOf(kind)[i + 1]
                  ELSE IF i \in Inherited /\ i >= FirstKept THEN "old" ELSE Free
    /\ files[Remote] = "client"
    /\ files[FdOf(kind).stdout] = IF kind = "pipe" THEN "out0" ELSE "copy"
    /\ kind # "tty" => files[FdOf(kind).stderr] = IF kind = "pipe" THEN "err0" ELSE "err1"
    /\ signals = [blocked |-> {}, ignored |-> {}]

NoneEmpty == \A i \in 1 .. Len(given.args) : given.args[i] # Empty

\* The last of a list with its name.
IsLast(list, i) == \A j \in 1 .. Len(list) : list[j].name = list[i].name => j <= i

\* Of its client's environment a program has what may pass, the last value of
\* each name, and nothing else; the rest is its own user's, and none of jaild's
\* reaches it (child.c:167-219, 298-317, environ.c:25-55).
EnvironmentTrue ==
  Running /\ NoneEmpty =>
    /\ \A i \in 1 .. Len(given.env) :
         LET v == given.env[i] IN
         Permitted(v) /\ v.name # "SSH_TTY" /\ IsLast(given.env, i) =>
           v.name \in DOMAIN env /\ env[v.name] = v.value
    /\ \A n \in DOMAIN env \ (OwnNames \cup {"SSH_TTY"}) :
         n \in GoodNames \cup LcNames /\ \E i \in 1 .. Len(given.env) : given.env[i].name = n
    /\ "SSH_TTY" \in DOMAIN env => kind = "tty" /\ env["SSH_TTY"] = "own"
    /\ env["SHELL"] = shell /\ (Given("n") # "" => env["USER"] = Given("n"))

\* The arguments reach the program, each in its place, if none is empty; the
\* first one names the shell, and a login shell if the client was one.  What
\* the client could put into a request is a request its session can parse: the
\* two ends agree on the limits (array.c:51-113, 149-182, child.c:221-269,
\* 650-670, jail.c:98-115).
ArgumentsArrive ==
  NoneEmpty => xpc # "unparsed" /\ (Running =>
    /\ Tail(args) = SubSeq(given.args, 2, Len(given.args))
    /\ args[1].value = shell
    /\ args[1].name = "-" <=> given.args = <<>> \/ given.args[1] \in Hyphenated)

\* What a user expects of "just like the way you SSH" (README.md:26-27): an
\* empty argument is an argument.
EveryArgumentArrives ==
  Running => Tail(args) = SubSeq(given.args, 2, Len(given.args))
=============================================================================
