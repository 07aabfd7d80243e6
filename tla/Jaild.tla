-------------------------------- MODULE Jaild --------------------------------
(***************************************************************************)
(* jaild as a service (src/server/jaild.c): the process that is started    *)
(* binds the socket, becomes a daemon and then the babysitter; the master  *)
(* it clones or forks accepts clients and forks a session for each.  What  *)
(* a session does is the matter of SessionServer: here it runs and ends.   *)
(*                                                                         *)
(* Both processes are sequential and keep their signals blocked except in  *)
(* pselect(2), where the master waits, and in sigsuspend(2), where the     *)
(* babysitter does.                                                        *)
(***************************************************************************)
EXTENDS Naturals

CONSTANTS
  Clients,          \* the clients that may come, each once
  MaxRefusals,      \* bound: how often accept(2) fails
  MayKill,          \* bound: who gets a SIGKILL, of "babysitter", "master"
  EmulatedPselect   \* TRUE: glibc emulates pselect(2), not atomically

ASSUME MaxRefusalsAssumption == MaxRefusals \in Nat
ASSUME MayKillAssumption == MayKill \subseteq {"babysitter", "master"}
ASSUME PselectAssumption == EmulatedPselect \in BOOLEAN

VARIABLES
  daemon,           \* g_server_daemon: option -c was not given
  confined,         \* option -r or -m was given
  shared,           \* the host's mounts propagate from and to new namespaces
  hostTouched,      \* history: a mount of the master is seen on the host
  path,             \* the socket's file: "absent", "own" or a rival's, "other"
  bpc,              \* where the babysitter stands; up to "close" it is main
  bterm,            \* its g_server_sigterm
  bpending,         \* signals generated and not yet delivered to it
  killed            \* history: who was killed

VARIABLES
  mpc,              \* where the master stands
  cloned,           \* g_server_clone: it has namespaces of its own
  mterm, mchld,     \* its g_server_sigterm and g_server_sigchld
  mpending,         \* signals generated and not yet delivered to it
  queue,            \* clients connected and not yet accepted
  held,             \* clients whose connection the master has open
  session,          \* per client: "none", "running", "zombie" or "gone"
  came,             \* history: clients that connected
  refusals          \* history: how often accept(2) failed

hostVars == <<daemon, confined, shared, hostTouched>>
babysitterVars == <<bpc, bterm, bpending, killed>>
masterVars == <<mpc, cloned, mterm, mchld, mpending>>
clientVars == <<queue, held, session, came, refusals>>
vars == <<hostVars, path, babysitterVars, masterVars, clientVars>>

MainPlaces == {"begin", "bound", "daemonize", "second", "fork"}
BabysitterPlaces == {"close", "check", "wait", "suspend", "unlink"}
MasterLives == {"init", "mount", "loop", "reap", "clear", "select", "sleep",
                "accept", "fork", "close", "exit"}

BabysitterTypeOK ==
  /\ daemon \in BOOLEAN /\ confined \in BOOLEAN
  /\ shared \in BOOLEAN /\ hostTouched \in BOOLEAN
  /\ path \in {"absent", "own", "other"}
  /\ bpc \in MainPlaces \cup BabysitterPlaces \cup {"gone"}
  /\ bterm \in BOOLEAN /\ bpending \subseteq {"TERM", "CHLD"}
  /\ killed \subseteq MayKill

MasterTypeOK ==
  /\ mpc \in MasterLives \cup {"none", "zombie", "reaped"}
  /\ cloned \in BOOLEAN
  /\ mterm \in BOOLEAN /\ mchld \in BOOLEAN
  /\ mpending \subseteq {"INT", "CHLD"}

ClientsTypeOK ==
  /\ queue \subseteq Clients /\ held \subseteq Clients
  /\ \A c, d \in held : c = d       \* the one it is forking for
  /\ session \in [Clients -> {"none", "running", "zombie", "gone"}]
  /\ came \subseteq Clients
  /\ refusals \in 0 .. MaxRefusals

TypeOK == BabysitterTypeOK /\ MasterTypeOK /\ ClientsTypeOK

\* Signals are already blocked (server_initialize_signals_first).
Init ==
  /\ daemon \in BOOLEAN /\ confined \in BOOLEAN
  /\ shared \in BOOLEAN /\ hostTouched = FALSE
  /\ path \in {"absent", "other"}
  /\ bpc = "begin"
  /\ bterm = FALSE /\ bpending = {} /\ killed = {}
  /\ mpc = "none" /\ cloned = FALSE
  /\ mterm = FALSE /\ mchld = FALSE /\ mpending = {}
  /\ queue = {} /\ held = {} /\ came = {} /\ refusals = 0
  /\ session = [c \in Clients |-> "none"]

MasterAlive == mpc \in MasterLives

\* main has the listening socket open until its close(2), the master until it
\* is gone.  When the last of them closes it, the clients in its queue are cut.
Listening == bpc \in {"daemonize", "second", "fork", "close"} \/ MasterAlive
QueueFollows == queue' = IF Listening' THEN queue ELSE {}

-----------------------------------------------------------------------------
(***************************************************************************)
(* Startup: main, up to the babysitter.                                    *)
(***************************************************************************)
\* server_start up to bind(2), which finds a file in its way or fails else.
Bind ==
  /\ bpc = "begin" /\ path = "absent"
  /\ path' = "own"
  /\ bpc' = "bound"
  /\ UNCHANGED <<hostVars, bterm, bpending, killed, masterVars, clientVars>>

\* A mistake that a run tells from the code: the file is removed all the same.
AfterBindFailsUnlink == path' = "absent"

AfterBindFails == UNCHANGED path

BindFails ==
  /\ bpc = "begin"
  /\ AfterBindFails
  /\ bpc' = "gone"
  /\ UNCHANGED <<hostVars, bterm, bpending, killed, masterVars, clientVars>>

\* The rest of server_start: chown, chmod, listen.
Listen ==
  /\ bpc = "bound"
  /\ bpc' = "daemonize"
  /\ UNCHANGED <<hostVars, path, bterm, bpending, killed, masterVars,
                 clientVars>>

\* A mistake that a run tells from the code: the socket is closed, its file left.
ServerStopCloses == UNCHANGED path

\* server_stop, and the same calls at the end of server_start.
ServerStop == path' = "absent"

\* Every failure of main after bind(2): the socket is closed, its file removed.
StartFails ==
  /\ bpc \in {"bound", "daemonize", "second", "fork"}
  /\ bpc = "daemonize" => daemon
  /\ ServerStop
  /\ bpc' = "gone"
  /\ UNCHANGED <<hostVars, bterm, bpending, killed, masterVars, held,
                 session, came, refusals>>
  /\ QueueFollows

\* The fork(2) of a daemon: its child goes on, and has no signal pending.
Daemonize ==
  /\ bpc = "daemonize"
  /\ IF daemon THEN bpc' = "second" /\ bpending' = {}
               ELSE bpc' = "fork" /\ UNCHANGED bpending
  /\ UNCHANGED <<hostVars, path, bterm, killed, masterVars, clientVars>>

\* server_daemonize_second succeeds.
Detach ==
  /\ bpc = "second"
  /\ bpc' = "fork"
  /\ UNCHANGED <<hostVars, path, bterm, bpending, killed, masterVars,
                 clientVars>>

\* A mistake that a run tells from the code: fork(2) will do for any master.
MayForkAny == {TRUE, FALSE}

\* server_fork: clone(2), or fork(2) if no option needs a namespace.
MayFork == {TRUE} \cup (IF confined THEN {} ELSE {FALSE})

\* The mount(2) after the clone(2) asks for a bind mount of a file "none" and
\* leaves the propagation of the host's mounts as it is.
ServerFork ==
  /\ bpc = "fork"
  /\ cloned' \in MayFork
  /\ mpc' = "init"
  /\ bpc' = "close"
  /\ UNCHANGED <<hostVars, path, bterm, bpending, killed, mterm, mchld,
                 mpending, clientVars>>

-----------------------------------------------------------------------------
(***************************************************************************)
(* The babysitter: server_wait_for_child.                                  *)
(***************************************************************************)
CloseListener ==
  /\ bpc = "close"
  /\ bpc' = "check"
  /\ UNCHANGED <<hostVars, path, bterm, bpending, killed, masterVars, held,
                 session, came, refusals>>
  /\ QueueFollows

\* A request to stop is handed on to the master, and forgotten here.
Check ==
  /\ bpc = "check"
  /\ bterm' = FALSE
  /\ mpending' = IF bterm /\ MasterAlive THEN mpending \cup {"INT"} ELSE mpending
  /\ bpc' = "wait"
  /\ UNCHANGED <<hostVars, path, bpending, killed, mpc, cloned, mterm, mchld,
                 clientVars>>

WaitForMaster ==
  /\ bpc = "wait"
  /\ IF mpc = "zombie"
       THEN mpc' = "reaped" /\ bpc' = "unlink"
       ELSE UNCHANGED mpc /\ bpc' = "suspend"
  /\ UNCHANGED <<hostVars, path, bterm, bpending, killed, cloned, mterm,
                 mchld, mpending, clientVars>>

\* A mistake that a run tells from the code: signals are not blocked before
\* sigsuspend(2), so that they may be delivered just before it.
SuspendedAlways == bpc \in BabysitterPlaces

Suspended == bpc = "suspend"

\* The handlers run; sigsuspend(2) returns after one.
BabysitterDelivers ==
  /\ Suspended /\ bpending # {}
  /\ bterm' = (bterm \/ "TERM" \in bpending)
  /\ bpending' = {}
  /\ bpc' = IF bpc = "suspend" THEN "check" ELSE bpc
  /\ UNCHANGED <<hostVars, path, killed, masterVars, clientVars>>

Unlink ==
  /\ bpc = "unlink"
  /\ path' = "absent"
  /\ bpc' = "gone"
  /\ UNCHANGED <<hostVars, bterm, bpending, killed, masterVars, clientVars>>

BabysitterStep ==
  \/ Bind \/ BindFails \/ Listen \/ StartFails \/ Daemonize \/ Detach
  \/ ServerFork \/ CloseListener \/ Check \/ WaitForMaster \/ Unlink

-----------------------------------------------------------------------------
(***************************************************************************)
(* The master: server_main and server_loop.                                *)
(***************************************************************************)
\* server_initialize_signals_second.
MasterStarts ==
  /\ mpc = "init"
  /\ mpc' \in {"mount", "exit"}
  /\ UNCHANGED <<hostVars, path, babysitterVars, cloned, mterm, mchld,
                 mpending, clientVars>>

\* Every master but one of fork(2) with no option for it mounts something, and a
\* namespace of its own keeps that from a host that does not share its mounts.
MountsReachHost == IF cloned THEN shared ELSE confined

\* server_daemonize_third: of its mounts any may fail, after others.
MasterMounts ==
  /\ mpc = "mount"
  /\ \/ mpc' = "loop" /\ hostTouched' = (hostTouched \/ MountsReachHost)
     \/ mpc' = "exit" /\ hostTouched' \in {hostTouched, hostTouched \/ MountsReachHost}
  /\ UNCHANGED <<daemon, confined, shared, path, babysitterVars, cloned, mterm,
                 mchld, mpending, clientVars>>

\* The head of server_loop, and server_sigchld's test of the flag.
MasterLoops ==
  /\ mpc = "loop"
  /\ mpc' = IF mterm THEN "exit" ELSE IF mchld THEN "reap" ELSE "select"
  /\ UNCHANGED <<hostVars, path, babysitterVars, cloned, mterm, mchld,
                 mpending, clientVars>>

\* A mistake that a run tells from the code: one child is reaped per signal.
AfterReapOnce == "clear"

\* server_sigchld reaps until there is nothing left to reap.
AfterReap == "reap"

MasterReaps ==
  /\ mpc = "reap"
  /\ \E c \in Clients :
       /\ session[c] = "zombie"
       /\ session' = [session EXCEPT ![c] = "gone"]
  /\ mpc' = AfterReap
  /\ UNCHANGED <<hostVars, path, babysitterVars, cloned, mterm, mchld,
                 mpending, queue, held, came, refusals>>

MasterReapsNone ==
  /\ mpc = "reap"
  /\ \A c \in Clients : session[c] # "zombie"
  /\ mpc' = "clear"
  /\ UNCHANGED <<hostVars, path, babysitterVars, cloned, mterm, mchld,
                 mpending, clientVars>>

MasterClears ==
  /\ mpc = "clear"
  /\ mchld' = FALSE
  /\ mpc' = "select"
  /\ UNCHANGED <<hostVars, path, babysitterVars, cloned, mterm, mpending,
                 clientVars>>

\* pselect(2) looks at the listening socket; signals count only if it sleeps.
MasterSelects ==
  /\ mpc = "select"
  /\ mpc' = IF queue # {} THEN "accept" ELSE "sleep"
  /\ UNCHANGED <<hostVars, path, babysitterVars, cloned, mterm, mchld,
                 mpending, clientVars>>

MasterWakes ==
  /\ mpc = "sleep" /\ queue # {}
  /\ mpc' = "accept"
  /\ UNCHANGED <<hostVars, path, babysitterVars, cloned, mterm, mchld,
                 mpending, clientVars>>

\* A mistake that a run tells from the code: pselect(2) is given no timeout.
MasterSleepsOn == FALSE /\ UNCHANGED vars

MasterTimesOut ==
  /\ mpc = "sleep" /\ queue = {} /\ mpending = {}
  /\ mpc' = "loop"
  /\ UNCHANGED <<hostVars, path, babysitterVars, cloned, mterm, mchld,
                 mpending, clientVars>>

MasterUnblocked ==
  mpc = "sleep" \/ (EmulatedPselect /\ mpc \in {"select", "accept"})

\* A mistake that a run tells from the code: SIGINT is ignored with the others.
HandledWithoutInt == {"CHLD"}

\* What server_initialize_signals_second leaves to the handlers.
Handled == {"INT", "CHLD"}

MasterDelivers ==
  /\ MasterUnblocked /\ mpending # {}
  /\ mterm' = (mterm \/ "INT" \in mpending \cap Handled)
  /\ mchld' = (mchld \/ "CHLD" \in mpending \cap Handled)
  /\ mpending' = {}
  /\ mpc' = IF mpc = "sleep" THEN "loop" ELSE mpc
  /\ UNCHANGED <<hostVars, path, babysitterVars, cloned, clientVars>>

Accept ==
  /\ mpc = "accept"
  /\ \E c \in queue :
       /\ queue' = queue \ {c}
       /\ held' = held \cup {c}
  /\ mpc' = "fork"
  /\ UNCHANGED <<hostVars, path, babysitterVars, cloned, mterm, mchld,
                 mpending, session, came, refusals>>

AcceptFails ==
  /\ mpc = "accept"
  /\ refusals < MaxRefusals
  /\ refusals' = refusals + 1
  /\ mpc' = "loop"
  /\ UNCHANGED <<hostVars, path, babysitterVars, cloned, mterm, mchld,
                 mpending, queue, held, session, came>>

\* The fork(2) of a session; the master closes its copy of the connection.
SessionStarts ==
  /\ mpc = "fork"
  /\ session' = [c \in Clients |-> IF c \in held THEN "running" ELSE session[c]]
  /\ mpc' = "close"
  /\ UNCHANGED <<hostVars, path, babysitterVars, cloned, mterm, mchld,
                 mpending, queue, held, came, refusals>>

\* A mistake that a run tells from the code: the connection is not closed then.
AfterForkFailsLoop == "loop"

AfterForkFails == "close"

ForkFails ==
  /\ mpc = "fork"
  /\ mpc' = AfterForkFails
  /\ UNCHANGED <<hostVars, path, babysitterVars, cloned, mterm, mchld,
                 mpending, clientVars>>

CloseConnection ==
  /\ mpc = "close"
  /\ held' = {}
  /\ mpc' = "loop"
  /\ UNCHANGED <<hostVars, path, babysitterVars, cloned, mterm, mchld,
                 mpending, queue, session, came, refusals>>

\* The end of the master.  As the init of a namespace it takes every session
\* with it; else they go on, and the host's init reaps them.
MasterDies ==
  /\ mpc' = "zombie"
  /\ mpending' = {}
  /\ held' = {}
  /\ session' = [c \in Clients |->
                   IF session[c] = "zombie" \/ (cloned /\ session[c] = "running")
                     THEN "gone" ELSE session[c]]
  /\ bpending' = IF bpc \in BabysitterPlaces THEN bpending \cup {"CHLD"} ELSE bpending

MasterExits ==
  /\ mpc = "exit"
  /\ MasterDies
  /\ UNCHANGED <<hostVars, path, bpc, bterm, killed, cloned, mterm, mchld,
                 came, refusals>>
  /\ QueueFollows

MasterStep ==
  \/ MasterStarts \/ MasterMounts \/ MasterLoops
  \/ MasterReaps \/ MasterReapsNone \/ MasterClears
  \/ MasterSelects \/ MasterWakes \/ MasterTimesOut
  \/ Accept \/ AcceptFails \/ SessionStarts \/ ForkFails \/ CloseConnection
  \/ MasterExits

-----------------------------------------------------------------------------
(***************************************************************************)
(* What comes from outside: clients, the end of sessions, signals, rivals. *)
(***************************************************************************)
ClientComes(c) ==
  /\ path = "own" /\ Listening
  /\ c \notin came
  /\ came' = came \cup {c}
  /\ queue' = queue \cup {c}
  /\ UNCHANGED <<hostVars, path, babysitterVars, masterVars, held, session,
                 refusals>>

SessionEnds(c) ==
  /\ session[c] = "running"
  /\ session' = [session EXCEPT ![c] = IF MasterAlive THEN "zombie" ELSE "gone"]
  /\ mpending' = IF MasterAlive THEN mpending \cup {"CHLD"} ELSE mpending
  /\ UNCHANGED <<hostVars, path, babysitterVars, mpc, cloned, mterm, mchld,
                 queue, held, came, refusals>>

\* SIGHUP, SIGINT, SIGQUIT or SIGTERM to the babysitter, or what becomes it.
AskedToStop ==
  /\ bpc # "gone"
  /\ bpending' = bpending \cup {"TERM"}
  /\ UNCHANGED <<hostVars, path, bpc, bterm, killed, masterVars, clientVars>>

\* SIGHUP or SIGINT straight to the master, as from the terminal of a jaild in
\* the foreground.
MasterAsked ==
  /\ MasterAlive
  /\ mpending' = mpending \cup {"INT"}
  /\ UNCHANGED <<hostVars, path, babysitterVars, mpc, cloned, mterm, mchld,
                 clientVars>>

KillBabysitter ==
  /\ "babysitter" \in MayKill /\ bpc # "gone"
  /\ bpc' = "gone"
  /\ killed' = killed \cup {"babysitter"}
  /\ UNCHANGED <<hostVars, path, bterm, bpending, masterVars, held, session,
                 came, refusals>>
  /\ QueueFollows

KillMaster ==
  /\ "master" \in MayKill /\ MasterAlive
  /\ MasterDies
  /\ killed' = killed \cup {"master"}
  /\ UNCHANGED <<hostVars, path, bpc, bterm, cloned, mterm, mchld, came,
                 refusals>>
  /\ QueueFollows

\* Another jaild with the same prefix, user and group.
RivalBinds ==
  /\ path = "absent"
  /\ path' = "other"
  /\ UNCHANGED <<hostVars, babysitterVars, masterVars, clientVars>>

Outside ==
  \/ \E c \in Clients : ClientComes(c) \/ SessionEnds(c)
  \/ AskedToStop \/ MasterAsked \/ KillBabysitter \/ KillMaster \/ RivalBinds

\* All that jaild started is gone, but for sessions that go on without it.
Finished == bpc = "gone" /\ ~MasterAlive /\ UNCHANGED vars

Next ==
  \/ BabysitterStep \/ BabysitterDelivers
  \/ MasterStep \/ MasterDelivers
  \/ Outside
  \/ Finished

Spec == Init /\ [][Next]_vars

\* The kernel runs both processes when they can run and delivers their signals.
\* Nothing that comes from outside need happen.
Fairness ==
  /\ WF_vars(BabysitterStep) /\ WF_vars(BabysitterDelivers)
  /\ WF_vars(MasterStep) /\ WF_vars(MasterDelivers)

FairSpec == Spec /\ Fairness

-----------------------------------------------------------------------------
(***************************************************************************)
(* Properties.                                                             *)
(***************************************************************************)
\* However jaild ends, short of a SIGKILL to the babysitter, it leaves nothing
\* behind: no file that would keep the next one from binding, no master, and
\* with namespaces no session (jaild.c:717-754).
CleanEnd ==
  bpc = "gone" /\ "babysitter" \notin killed =>
    /\ path # "own"
    /\ mpc \in {"none", "reaped"}
    /\ cloned => \A c \in Clients : session[c] \in {"none", "gone"}

\* What jaild mounts for its container is seen on the host only where the host
\* shares its mounts with new namespaces: never without a namespace, however
\* clone(2) fails (jaild.c:398-421, 497-515).
HostTouchedOnlyIf == hostTouched => cloned /\ shared

\* It never removes the file of another jaild (jaild.c:170-175, 723-754).
RivalUntouched == [][path = "other" => path' = "other"]_vars

\* No dead session is forgotten although SIGCHLD does not count: until each is
\* reaped, SIGCHLD is pending or g_server_sigchld is set (jaild.c:199-228).
DeathsNoticed ==
  MasterAlive /\ (\E c \in Clients : session[c] = "zombie") =>
    "CHLD" \in mpending \/ mchld

\* Nobody sleeps on a signal already handed to him and not acted upon: neither
\* the babysitter, nor the master if pselect(2) is atomic (jaild.c:250, 673).
NoSignalSleptOn ==
  /\ bpc = "suspend" => ~bterm
  /\ mpc = "sleep" /\ ~EmulatedPselect => ~mterm /\ ~mchld

\* What a client knows of jaild, and of its own place there.
ServicePhase ==
  IF bpc \in {"begin", "bound"} THEN "starting" ELSE IF Listening THEN "open" ELSE "closed"

ClientState(c) ==
  IF c \notin came THEN "away"
  ELSE IF session[c] = "running" THEN "served"
  ELSE IF session[c] = "none" /\ c \in queue \cup held THEN "waiting"
  ELSE "left"

ClientStates == [c \in Clients |-> ClientState(c)]

\* Whoever fails, dies or is killed: one session is started for one connection
\* and a client is served once, or sent away; none is once the socket is closed,
\* and nobody is left waiting at a closed one (jaild.c:199-271, 723-754).
Promise == INSTANCE Service WITH phase <- ServicePhase, at <- ClientStates
ServiceKept == Promise!Spec

\* Every dead session is reaped while there is a master to do it.
DeadAreReaped ==
  \A c \in Clients : session[c] = "zombie" ~> session[c] = "gone"

\* Whoever connected gets a session or sees the connection closed, although
\* accept(2) and fork(2) may fail (jaild.c:260-271).
ClientAnswered ==
  \A c \in Clients : c \in queue \cup held ~> c \notin queue \cup held

\* A babysitter that is asked to stop stops, and its master before it, however
\* far the master has come (jaild.c:125-146, 657-681).
StopHeeded ==
  bpc \in BabysitterPlaces /\ "TERM" \in bpending ~> bpc = "gone"
=============================================================================
