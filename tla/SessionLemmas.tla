---------------------------- MODULE SessionLemmas ----------------------------
(***************************************************************************)
(* The invariants of a session of jaild, whoever its client is: each holds *)
(* at the start and is kept by every step of the session and its program,  *)
(* by everything a client may do to the socket, and by the death of the    *)
(* container.  The theorems about a session with any client, and about the *)
(* jail client and its session, rest on them.                              *)
(***************************************************************************)
EXTENDS SessionServer, WireLemmas, TLAPS

LEMMA StatusesAreNats == Statuses \subseteq Nat
  BY StatusesAssumption DEF WaitStatuses

SessionInit == WireInit /\ ServerInit /\ ProgInit

\* What the other end of the socket may do.
ClientMay ==
  /\ \/ Connect \/ ClientClose
     \/ \E m \in Message : ClientSend(m)
     \/ \E k \in 1 .. Len(s2c) : ClientRecv(k)
     \/ UNCHANGED wireVars
  /\ UNCHANGED <<serverVars, progVars>>

\* The kernel kills session and program with their namespace of processes.
Killed ==
  /\ ServerLives /\ ServerClose
  /\ pc' = "done" /\ timer' = FALSE /\ pending' = {}
  /\ prog' = IF prog = "none" THEN "none" ELSE "reaped"
  /\ stdio' = {}
  /\ UNCHANGED <<pid, kind, fd, fds, inbox, outbox, sigalrm, sigchld,
                 handshaking, reason, code, inPipe, consumed, pipe, written,
                 ttySize>>

SessionMoves == SessionSide \/ ClientMay \/ Killed

-----------------------------------------------------------------------------
(***************************************************************************)
(* Types.  That what is written is always a message rests on two facts     *)
(* about the program and the write(2) under way.                           *)
(***************************************************************************)
CodeKnown == prog = "zombie" => code \in Statuses
Writing == pc = "write" => outbox # <<>>

TypeInv == TypeOK /\ CodeKnown /\ Writing

LEMMA TypeInit == SessionInit => TypeInv
<1> SUFFICES ASSUME SessionInit PROVE TypeInv
  OBVIOUS
<1>1. WireTypeOK
  BY DEF SessionInit, WireInit, WireTypeOK, Ends
<1>2. ServerTypeOK
  <2>1. fd \in [Streams -> {-1, 6, 7, 8}]
    BY DEF SessionInit, ServerInit, NoFds
  <2>2. inbox \in Seq(Message) /\ outbox \in Seq(Message) /\ Len(outbox) <= 1
    BY EmptyType DEF SessionInit, ServerInit
  <2>3. pc \in Places /\ reason \in Reasons
    BY DEF SessionInit, ServerInit, Places, Reasons
  <2> QED
    BY <2>1, <2>2, <2>3 DEF SessionInit, ServerInit, ServerTypeOK, Kinds
<1>3. ProgTypeOK
  BY DEF SessionInit, ProgInit, ProgTypeOK, Streams
<1>4. CodeKnown /\ Writing
  BY DEF SessionInit, ServerInit, ProgInit, CodeKnown, Writing
<1> QED
  BY <1>1, <1>2, <1>3, <1>4 DEF TypeInv, TypeOK

\* The operations of the socket keep its types.
LEMMA WireTypes ==
  ASSUME WireTypeOK,
         \/ Connect \/ ClientClose \/ ServerAccept \/ ServerClose
         \/ \E m \in Message : ClientSend(m) \/ ServerSend(m)
         \/ \E k \in 1 .. Len(s2c) : ClientRecv(k)
         \/ \E k \in 1 .. Len(c2s) : ServerRecv(k)
         \/ UNCHANGED wireVars
  PROVE  WireTypeOK'
<1>1. CASE Connect \/ ClientClose \/ ServerAccept \/ ServerClose \/ UNCHANGED wireVars
  BY <1>1 DEF WireTypeOK, Connect, ClientClose, ServerAccept, ServerClose, Ends, wireVars
<1>2. ASSUME NEW m \in Message, ClientSend(m) \/ ServerSend(m)
      PROVE  WireTypeOK'
  BY <1>2, AppendType DEF WireTypeOK, ClientSend, ServerSend
<1>3. ASSUME NEW k \in 1 .. Len(s2c), ClientRecv(k)
      PROVE  WireTypeOK'
  BY <1>3, PartType, ConcatType DEF WireTypeOK, ClientRecv
<1>4. ASSUME NEW k \in 1 .. Len(c2s), ServerRecv(k)
      PROVE  WireTypeOK'
  BY <1>4, PartType DEF WireTypeOK, ServerRecv
<1> QED
  BY <1>1, <1>2, <1>3, <1>4

LEMMA MsgType ==
  ASSUME NEW t \in Types, NEW b \in Nat
  PROVE  Msg(t, b) \in Message
  BY DEF Msg, Message

\* Steps of the session that move no data.
QuietStep ==
  \/ ChildRun \/ NothingToReap \/ ClearSigchld \/ WriteRemoteFails
  \/ SelectFails \/ SelectScans \/ SelectWakes \/ SelectTimesOut \/ Deliver
  \/ RemoteEnds \/ RemoteDone
  \/ ExecuteForkFails \/ ExecuteStdinFails \/ ExecuteUnknown
  \/ \E s \in Streams : OutputEnds(s) \/ OutputIdle(s)
  \/ AlarmRings \/ ProgramStops

LEMMA ReadyType == TypeOK => Watched \subseteq {Remote, 6, 7, 8} /\ Ready \subseteq Watched
  BY DEF TypeOK, ServerTypeOK, Watched, Ready, Streams, Remote

\* What a quiet step does to the control of the session.
LEMMA QuietControl ==
  ASSUME TypeInv, QuietStep
  PROVE  /\ UNCHANGED <<wireVars, pid, kind, inbox, outbox, progVars>>
         /\ pc' \in Places \ {"write"} \/ UNCHANGED pc
         /\ reason' \in Reasons
         /\ fds' \in {fds, Ready, fds \cup Watched, {}}
         /\ fd' = fd \/ \E s \in Streams : fd' = [fd EXCEPT ![s] = -1]
         /\ sigalrm' \in BOOLEAN /\ sigchld' \in BOOLEAN
         /\ handshaking' \in BOOLEAN /\ timer' \in BOOLEAN
         /\ pending' \subseteq Signals
<1> USE DEF Goto, Leave, Places, Reasons, Signals
<1>0. /\ pc \in Places /\ reason \in Reasons /\ pending \subseteq Signals
      /\ sigalrm \in BOOLEAN /\ sigchld \in BOOLEAN
      /\ handshaking \in BOOLEAN /\ timer \in BOOLEAN
  BY DEF TypeInv, TypeOK, ServerTypeOK
<1>1. CASE ChildRun
  BY <1>0, <1>1 DEF ChildRun
<1>2. CASE NothingToReap
  BY <1>0, <1>2 DEF NothingToReap
<1>3. CASE ClearSigchld
  BY <1>0, <1>3 DEF ClearSigchld
<1>4. CASE WriteRemoteFails \/ SelectFails
  BY <1>0, <1>4 DEF WriteRemoteFails, SelectFails
<1>5. CASE SelectScans
  BY <1>0, <1>5 DEF SelectScans
<1>6. CASE SelectWakes \/ SelectTimesOut
  BY <1>0, <1>6 DEF SelectWakes, SelectTimesOut
<1>7. CASE Deliver
  BY <1>0, <1>7 DEF Deliver, AfterInterrupt
<1>8. CASE RemoteEnds \/ RemoteDone
  BY <1>0, <1>8 DEF RemoteEnds, RemoteDone
<1>9. CASE ExecuteForkFails
  BY <1>0, <1>9 DEF ExecuteForkFails
<1>10. CASE ExecuteStdinFails \/ ExecuteUnknown
  BY <1>0, <1>10 DEF ExecuteStdinFails, ExecuteUnknown
<1>11. CASE \E s \in Streams : OutputEnds(s) \/ OutputIdle(s)
  BY <1>0, <1>11, ZenonT(60) DEF OutputEnds, OutputIdle, AfterStream
<1>12. CASE AlarmRings \/ ProgramStops
  BY <1>0, <1>12 DEF AlarmRings, ProgramStops
<1> QED
  BY <1>1, <1>2, <1>3, <1>4, <1>5, <1>6, <1>7, <1>8, <1>9, <1>10, <1>11, <1>12
     DEF QuietStep

LEMMA QuietTypes == ASSUME TypeInv, QuietStep PROVE TypeInv'
<1>1. WireTypeOK'
  BY QuietControl, WireTypes DEF TypeInv, TypeOK
<1>2. ProgTypeOK' /\ CodeKnown'
  BY QuietControl DEF TypeInv, TypeOK, ProgTypeOK, CodeKnown, progVars
<1>3. Writing'
  BY QuietControl DEF TypeInv, Writing
<1>4. fds' \subseteq {Remote, 6, 7, 8}
  BY QuietControl, ReadyType DEF TypeInv, TypeOK, ServerTypeOK
<1>5. fd' \in [Streams -> {-1, 6, 7, 8}]
  BY QuietControl DEF TypeInv, TypeOK, ServerTypeOK
<1>6. ServerTypeOK'
  BY QuietControl, <1>4, <1>5 DEF TypeInv, TypeOK, ServerTypeOK
<1> QED
  BY <1>1, <1>2, <1>3, <1>6 DEF TypeInv, TypeOK

LEMMA StartTypes == ASSUME TypeInv, ChildMain PROVE TypeInv'
<1>1. WireTypeOK'
  BY WireTypes DEF TypeInv, TypeOK, ChildMain
<1>2. ProgTypeOK' /\ CodeKnown'
  BY DEF TypeInv, TypeOK, ProgTypeOK, CodeKnown, ChildMain, progVars
<1>3. pc' \in Places \ {"write"} /\ reason' \in Reasons /\ timer' \in BOOLEAN
  BY DEF TypeInv, TypeOK, ServerTypeOK, ChildMain, Goto, Leave, Places, Reasons
<1>4. ServerTypeOK' /\ Writing'
  BY <1>3 DEF TypeInv, TypeOK, ServerTypeOK, Writing, ChildMain
<1> QED
  BY <1>1, <1>2, <1>4 DEF TypeInv, TypeOK

LEMMA ExitTypes == ASSUME TypeInv, Exit PROVE TypeInv'
<1>1. WireTypeOK'
  BY WireTypes DEF TypeInv, TypeOK, Exit
<1>2. ProgTypeOK' /\ CodeKnown'
  BY DEF TypeInv, TypeOK, ProgTypeOK, CodeKnown, Exit, progVars
<1>3. pc' \in Places \ {"write"} /\ reason' \in Reasons
  BY DEF TypeInv, TypeOK, ServerTypeOK, Exit, Goto, Places
<1>4. ServerTypeOK' /\ Writing'
  BY <1>3 DEF TypeInv, TypeOK, ServerTypeOK, Writing, Exit
<1> QED
  BY <1>1, <1>2, <1>4 DEF TypeInv, TypeOK

LEMMA ReapTypes == ASSUME TypeInv, Reap PROVE TypeInv'
<1>1. WireTypeOK'
  BY WireTypes DEF TypeInv, TypeOK, Reap
<1>2. ProgTypeOK' /\ CodeKnown'
  BY DEF TypeInv, TypeOK, ProgTypeOK, CodeKnown, Reap
<1>3. outbox' \in Seq(Message) /\ Len(outbox') = 1 /\ outbox' # <<>>
  <2>1. Msg("Status", code) \in Message
    BY MsgType, StatusesAreNats DEF TypeInv, CodeKnown, Reap, Types
  <2> QED
    BY <2>1, OneType DEF Reap
<1>4. pc' \in Places /\ reason' \in Reasons
  BY DEF TypeInv, TypeOK, ServerTypeOK, Reap, Goto, Places
<1>5. ServerTypeOK' /\ Writing'
  BY <1>3, <1>4 DEF TypeInv, TypeOK, ServerTypeOK, Writing, Reap
<1> QED
  BY <1>1, <1>2, <1>5 DEF TypeInv, TypeOK

LEMMA WriteTypes == ASSUME TypeInv, WriteRemote PROVE TypeInv'
<1>1. WireTypeOK'
  <2>1. outbox[1] \in Message
    BY TailType DEF TypeInv, TypeOK, ServerTypeOK, Writing, WriteRemote
  <2> QED
    BY <2>1, WireTypes DEF TypeInv, TypeOK, WriteRemote
<1>2. ProgTypeOK' /\ CodeKnown'
  BY DEF TypeInv, TypeOK, ProgTypeOK, CodeKnown, WriteRemote, progVars
<1>3. pc' \in Places \ {"write"} /\ reason' \in Reasons
  BY DEF TypeInv, TypeOK, ServerTypeOK, WriteRemote, Goto, Places, AfterWrite
<1>4. outbox' \in Seq(Message) /\ Len(outbox') <= 1
  BY EmptyType DEF WriteRemote
<1>5. ServerTypeOK' /\ Writing'
  BY <1>3, <1>4 DEF TypeInv, TypeOK, ServerTypeOK, Writing, WriteRemote
<1> QED
  BY <1>1, <1>2, <1>5 DEF TypeInv, TypeOK

LEMMA ReadTypes == ASSUME TypeInv, ReadRemote PROVE TypeInv'
<1>1. PICK k \in 1 .. Len(c2s) : ServerRecv(k) /\ inbox' = SubSeq(c2s, 1, k)
  BY DEF ReadRemote
<1>2. WireTypeOK'
  BY <1>1, WireTypes DEF TypeInv, TypeOK
<1>3. ProgTypeOK' /\ CodeKnown'
  BY DEF TypeInv, TypeOK, ProgTypeOK, CodeKnown, ReadRemote, progVars
<1>4. inbox' \in Seq(Message)
  BY <1>1, PartType DEF TypeInv, TypeOK, WireTypeOK
<1>5. pc' \in Places \ {"write"} /\ reason' \in Reasons
  BY DEF TypeInv, TypeOK, ServerTypeOK, ReadRemote, Goto, Places
<1>6. ServerTypeOK' /\ Writing'
  BY <1>4, <1>5 DEF TypeInv, TypeOK, ServerTypeOK, Writing, ReadRemote
<1> QED
  BY <1>2, <1>3, <1>6 DEF TypeInv, TypeOK

\* The message at the head of the buffer is a message, and so is the rest.
LEMMA HeadType ==
  ASSUME TypeInv, NEW T, Executing(T)
  PROVE  /\ inbox[1] \in Message /\ inbox[1].type \in T /\ inbox[1].body \in Nat
         /\ Tail(inbox) \in Seq(Message)
<1>1. inbox[1] \in Message /\ Tail(inbox) \in Seq(Message)
  BY TailType DEF TypeInv, TypeOK, ServerTypeOK, Executing
<1> QED
  BY <1>1 DEF Executing, Message

LEMMA ForkKeepsTypes == ASSUME TypeInv, ExecuteFork PROVE TypeInv'
<1> DEFINE k == KindOf[inbox[1].type]
<1>1. /\ inbox[1].type \in ForkTypes /\ inbox[1].body \in Nat
      /\ Tail(inbox) \in Seq(Message)
  BY HeadType DEF ExecuteFork
<1>2. k \in Kinds
  BY <1>1 DEF KindOf, ForkTypes, Kinds
<1>3. FdOf(k) \in [Streams -> {-1, 6, 7, 8}]
  BY <1>2 DEF FdOf, Streams, Kinds
<1>4. WireTypeOK'
  BY WireTypes DEF TypeInv, TypeOK, ExecuteFork
<1>5. ProgTypeOK' /\ CodeKnown'
  <2>1. stdio' = {0, 1, 2} /\ ttySize' \in Nat /\ prog' = "running"
    BY <1>1 DEF ExecuteFork, TypeInv, TypeOK, ProgTypeOK
  <2> QED
    BY <2>1 DEF TypeInv, TypeOK, ProgTypeOK, CodeKnown, ExecuteFork
<1>6. ServerTypeOK' /\ Writing'
  <2>1. kind' \in Kinds /\ fd' \in [Streams -> {-1, 6, 7, 8}]
    BY <1>2, <1>3 DEF ExecuteFork
  <2>2. inbox' \in Seq(Message) /\ UNCHANGED <<pc, reason>> /\ pid' = ShellPid
    BY <1>1 DEF ExecuteFork, Executed
  <2> QED
    BY <2>1, <2>2 DEF TypeInv, TypeOK, ServerTypeOK, Writing, ExecuteFork
<1> QED
  BY <1>4, <1>5, <1>6 DEF TypeInv, TypeOK

LEMMA ExecuteTypes ==
  ASSUME TypeInv, ExecuteWinsize \/ ExecuteStdin PROVE TypeInv'
<1>1. inbox[1].body \in Nat /\ Tail(inbox) \in Seq(Message)
  BY HeadType DEF ExecuteWinsize, ExecuteStdin
<1>2. WireTypeOK'
  BY WireTypes DEF TypeInv, TypeOK, ExecuteWinsize, ExecuteStdin
<1>3. ttySize' \in Nat /\ inPipe' \in Seq(Nat)
  BY <1>1, AppendType DEF ExecuteWinsize, ExecuteStdin, TypeInv, TypeOK, ProgTypeOK
<1>4. ProgTypeOK' /\ CodeKnown'
  BY <1>3 DEF TypeInv, TypeOK, ProgTypeOK, CodeKnown, ExecuteWinsize, ExecuteStdin
<1>5. inbox' \in Seq(Message) /\ UNCHANGED <<pc, reason>>
  BY <1>1 DEF ExecuteWinsize, ExecuteStdin, Executed
<1>6. ServerTypeOK' /\ Writing'
  BY <1>5 DEF TypeInv, TypeOK, ServerTypeOK, Writing, ExecuteWinsize, ExecuteStdin
<1> QED
  BY <1>2, <1>4, <1>6 DEF TypeInv, TypeOK

LEMMA OutputTypes ==
  ASSUME TypeInv, NEW s \in Streams, ReadOutput(s) PROVE TypeInv'
<1>1. Head(pipe[s]) \in Nat /\ Tail(pipe[s]) \in Seq(Nat)
  BY TailType DEF ReadOutput, TypeInv, TypeOK, ProgTypeOK
<1>2. outbox' \in Seq(Message) /\ Len(outbox') = 1 /\ outbox' # <<>>
  <2>1. OutputType(s) \in Types
    BY DEF OutputType, TypeOf, Streams, Types
  <2>2. Msg(OutputType(s), Head(pipe[s])) \in Message
    BY <1>1, <2>1, MsgType
  <2> QED
    BY <2>2, OneType DEF ReadOutput
<1>3. WireTypeOK'
  BY WireTypes DEF TypeInv, TypeOK, ReadOutput
<1>4. pipe' \in [Streams -> Seq(Nat)]
  BY <1>1 DEF ReadOutput, TypeInv, TypeOK, ProgTypeOK
<1>5. ProgTypeOK' /\ CodeKnown'
  BY <1>4 DEF TypeInv, TypeOK, ProgTypeOK, CodeKnown, ReadOutput
<1>6. pc' \in Places /\ reason' \in Reasons
  BY DEF TypeInv, TypeOK, ServerTypeOK, ReadOutput, Goto, Places
<1>7. ServerTypeOK' /\ Writing'
  BY <1>2, <1>6 DEF TypeInv, TypeOK, ServerTypeOK, Writing, ReadOutput
<1> QED
  BY <1>3, <1>5, <1>7 DEF TypeInv, TypeOK

\* The program's own steps.
LEMMA ProgramTypes == ASSUME TypeInv, ProgramStep PROVE TypeInv'
<1>1. ASSUME NEW d \in {1, 2}, ProgramWrites(d) PROVE TypeInv'
  <2> DEFINE s == StreamBehind(d)
  <2>1. s \in Streams
    BY DEF StreamBehind, Streams
  <2>2. written[s] + 1 \in Nat /\ Append(pipe[s], written[s] + 1) \in Seq(Nat)
    BY <2>1, AppendType DEF TypeInv, TypeOK, ProgTypeOK
  <2>3. pipe' \in [Streams -> Seq(Nat)] /\ written' \in [Streams -> Nat]
    BY <1>1, <2>1, <2>2 DEF ProgramWrites, TypeInv, TypeOK, ProgTypeOK
  <2>4. ProgTypeOK' /\ CodeKnown'
    BY <1>1, <2>3 DEF ProgramWrites, TypeInv, TypeOK, ProgTypeOK, CodeKnown
  <2>5. WireTypeOK'
    BY <1>1, WireTypes DEF ProgramWrites, TypeInv, TypeOK
  <2>6. ServerTypeOK' /\ Writing'
    BY <1>1 DEF ProgramWrites, serverVars, TypeInv, TypeOK, ServerTypeOK, Writing
  <2> QED
    BY <2>4, <2>5, <2>6 DEF TypeInv, TypeOK
<1>2. CASE ProgramReads
  <2>1. inPipe' \in Seq(Nat) /\ consumed' \in Seq(Nat)
    BY <1>2, TailType, AppendType DEF ProgramReads, TypeInv, TypeOK, ProgTypeOK
  <2>2. ProgTypeOK' /\ CodeKnown'
    BY <1>2, <2>1 DEF ProgramReads, TypeInv, TypeOK, ProgTypeOK, CodeKnown
  <2>3. WireTypeOK'
    BY <1>2, WireTypes DEF ProgramReads, TypeInv, TypeOK
  <2>4. ServerTypeOK' /\ Writing'
    BY <1>2 DEF ProgramReads, serverVars, TypeInv, TypeOK, ServerTypeOK, Writing
  <2> QED
    BY <2>2, <2>3, <2>4 DEF TypeInv, TypeOK
<1>3. ASSUME NEW d \in {0, 1, 2}, ProgramCloses(d) PROVE TypeInv'
  <2>1. ProgTypeOK' /\ CodeKnown'
    BY <1>3 DEF ProgramCloses, TypeInv, TypeOK, ProgTypeOK, CodeKnown
  <2>2. WireTypeOK'
    BY <1>3, WireTypes DEF ProgramCloses, TypeInv, TypeOK
  <2>3. ServerTypeOK' /\ Writing'
    BY <1>3 DEF ProgramCloses, serverVars, TypeInv, TypeOK, ServerTypeOK, Writing
  <2> QED
    BY <2>1, <2>2, <2>3 DEF TypeInv, TypeOK
<1>4. ASSUME NEW status \in Statuses, ProgramExits(status) PROVE TypeInv'
  <2>1. stdio' \subseteq {0, 1, 2}
    BY <1>4 DEF ProgramExits, TypeInv, TypeOK, ProgTypeOK
  <2>2. ProgTypeOK' /\ CodeKnown'
    BY <1>4, <2>1 DEF ProgramExits, TypeInv, TypeOK, ProgTypeOK, CodeKnown
  <2>3. WireTypeOK'
    BY <1>4, WireTypes DEF ProgramExits, TypeInv, TypeOK
  <2>4. ServerTypeOK' /\ Writing'
    BY <1>4 DEF ProgramExits, TypeInv, TypeOK, ServerTypeOK, Writing, Signals
  <2> QED
    BY <2>2, <2>3, <2>4 DEF TypeInv, TypeOK
<1>5. CASE ProgramStops
  BY <1>5, QuietTypes DEF QuietStep
<1> QED
  BY <1>1, <1>2, <1>3, <1>4, <1>5 DEF ProgramStep

LEMMA BesideTypes == ASSUME TypeInv, ClientMay PROVE TypeInv'
<1>1. ServerTypeOK' /\ ProgTypeOK' /\ CodeKnown' /\ Writing'
  BY DEF ClientMay, TypeInv, TypeOK, ServerTypeOK, ProgTypeOK, CodeKnown, Writing,
         serverVars, progVars
<1>2. WireTypeOK'
  BY WireTypes DEF ClientMay, TypeInv, TypeOK
<1> QED
  BY <1>1, <1>2 DEF TypeInv, TypeOK

LEMMA KilledTypes == ASSUME TypeInv, Killed PROVE TypeInv'
<1>1. WireTypeOK'
  BY WireTypes DEF TypeInv, TypeOK, Killed
<1>2. ServerTypeOK' /\ ProgTypeOK' /\ CodeKnown' /\ Writing'
  BY ZenonT(60) DEF Killed, TypeInv, TypeOK, ServerTypeOK, ProgTypeOK, CodeKnown, Writing, Places
<1> QED
  BY <1>1, <1>2 DEF TypeInv, TypeOK

LEMMA TypeStep == ASSUME TypeInv, SessionMoves PROVE TypeInv'
<1>1. CASE ServerStep
  BY <1>1, QuietTypes, StartTypes, ExitTypes, ReapTypes, WriteTypes, ReadTypes,
     ForkKeepsTypes, ExecuteTypes, OutputTypes DEF ServerStep, QuietStep
<1>2. CASE Deliver \/ AlarmRings
  BY <1>2, QuietTypes DEF QuietStep
<1> QED
  BY <1>1, <1>2, ProgramTypes, BesideTypes, KilledTypes DEF SessionMoves, SessionSide


-----------------------------------------------------------------------------
(***************************************************************************)
(* The death of the program is never lost.  child_sigchld clears its flag  *)
(* after waitpid(2) found nothing; a program that dies in between leaves   *)
(* SIGCHLD pending, because no signal is delivered there.                  *)
(***************************************************************************)
DeathInv ==
  /\ ExitNoticed
  /\ prog = "zombie" /\ pc = "clear0" => "CHLD" \in pending

LEMMA DeathInit == SessionInit => DeathInv
  BY DEF SessionInit, ProgInit, DeathInv, ExitNoticed

LEMMA DeathStep == ASSUME DeathInv, SessionMoves PROVE DeathInv'
<1> USE DEF DeathInv, ExitNoticed, Ended, Goto, Leave, progVars
<1>1. CASE Reap \/ NothingToReap
  BY <1>1 DEF Reap, NothingToReap
<1>2. CASE ClearSigchld
  BY <1>2 DEF ClearSigchld, LoopLeaves
<1>3. CASE Deliver
  BY <1>3 DEF Deliver, Unblocked, AfterInterrupt
<1>4. CASE \E status \in Statuses : ProgramExits(status)
  BY <1>4 DEF ProgramExits
<1>5. CASE ProgramStops \/ AlarmRings
  BY <1>5 DEF ProgramStops, AlarmRings
<1>6. CASE Exit \/ ChildRun \/ ChildMain
  BY <1>6 DEF Exit, ChildRun, ChildMain
<1>7. CASE ExecuteFork
  BY <1>7 DEF ExecuteFork
<1>8. CASE \/ WriteRemote \/ WriteRemoteFails \/ SelectFails \/ SelectScans
           \/ SelectWakes \/ SelectTimesOut
  BY <1>8 DEF WriteRemote, WriteRemoteFails, SelectFails, SelectScans,
              SelectWakes, SelectTimesOut, AfterWrite
<1>9. CASE \/ ReadRemote \/ RemoteEnds \/ RemoteDone \/ ExecuteForkFails
           \/ ExecuteWinsize \/ ExecuteStdin \/ ExecuteStdinFails \/ ExecuteUnknown
  BY <1>9 DEF ReadRemote, RemoteEnds, RemoteDone, ExecuteForkFails, ExecuteWinsize,
              ExecuteStdin, ExecuteStdinFails, ExecuteUnknown, Executed
<1>10. CASE \E s \in Streams : ReadOutput(s) \/ OutputEnds(s) \/ OutputIdle(s)
  BY <1>10 DEF ReadOutput, OutputEnds, OutputIdle, AfterStream, Streams
<1>11. CASE \/ \E d \in {1, 2} : ProgramWrites(d)
            \/ ProgramReads
            \/ \E d \in {0, 1, 2} : ProgramCloses(d)
  BY <1>11 DEF ProgramWrites, ProgramReads, ProgramCloses, serverVars
<1>12. CASE ClientMay
  BY <1>12 DEF ClientMay, serverVars
<1>13. CASE Killed
  BY <1>13 DEF Killed
<1> QED
  BY <1>1, <1>2, <1>3, <1>4, <1>5, <1>6, <1>7, <1>8, <1>9, <1>10, <1>11, <1>12,
     <1>13
     DEF SessionMoves, SessionSide, ServerStep, ProgramStep

-----------------------------------------------------------------------------
(***************************************************************************)
(* The phases of a session: g_child_pid follows the program, and once the  *)
(* status is taken up nothing but its write(2) is left to do.              *)
(***************************************************************************)
PhaseInv ==
  /\ pid = -1 <=> prog = "none"
  /\ pid = 0 => prog = "reaped"
  /\ prog = "reaped" => pid = 0 \/ pc = "done"
  /\ pid = 0 => pc \in {"write", "clear1", "exit", "done"}
  /\ pc = "clear1" => pid = 0
  /\ pc = "write" => (outbox[1].type = "Status" <=> pid = 0)
  /\ ~Ended => reason = "none"
  /\ reason = "timeout" => prog = "none"
  /\ reason = "reaped" => prog = "reaped"
  /\ reason = "refused" => InputHolders \cap stdio = {}
  /\ reason # "over"

LEMMA PhaseInit == SessionInit => PhaseInv
  BY DEF SessionInit, ServerInit, ProgInit, PhaseInv, Ended, InputHolders

LEMMA PhaseStep == ASSUME TypeInv, PhaseInv, SessionMoves PROVE PhaseInv'
<1> USE DEF PhaseInv, Ended, Goto, Leave, progVars, InputHolders
<1>0. pid \in {-1, 0, 1}
  BY DEF TypeInv, TypeOK, ServerTypeOK, ShellPid
<1>1. CASE ChildRun
  <2>1. RunContinues \/ NotStartedInTime
    BY <1>1 DEF ChildRun, RunContinues, NotStartedInTime
  <2>2. NotStartedInTime => prog = "none"
    BY <1>0 DEF NotStartedInTime
  <2>3. ~RunContinues => NotStartedInTime
    BY <2>1
  <2> QED
    BY <1>1, <2>2, <2>3 DEF ChildRun
<1>2. CASE ChildMain
  BY <1>2 DEF ChildMain
<1>3. CASE Reap
  <2>1. outbox'[1].type = "Status" /\ pid' = 0 /\ prog' = "reaped"
    BY <1>3 DEF Reap, Msg
  <2> QED
    BY <1>3, <2>1 DEF Reap
<1>4. CASE NothingToReap
  BY <1>4 DEF NothingToReap
<1>5. CASE ClearSigchld
  BY <1>5 DEF ClearSigchld, LoopLeaves
<1>6. CASE WriteRemote
  BY <1>6 DEF WriteRemote, AfterWrite
<1>7. CASE \/ WriteRemoteFails \/ SelectFails \/ SelectScans
           \/ SelectWakes \/ SelectTimesOut
  BY <1>7 DEF WriteRemoteFails, SelectFails, SelectScans, SelectWakes,
              SelectTimesOut
<1>8. CASE ReadRemote \/ RemoteEnds \/ RemoteDone
  BY <1>8 DEF ReadRemote, RemoteEnds, RemoteDone
<1>9. CASE ExecuteFork
  BY <1>9 DEF ExecuteFork, Executed, Executing, ShellPid
<1>10. CASE \/ ExecuteForkFails \/ ExecuteWinsize \/ ExecuteStdin
            \/ ExecuteStdinFails \/ ExecuteUnknown
  BY <1>10 DEF ExecuteForkFails, ExecuteWinsize, ExecuteStdin, ExecuteStdinFails,
               ExecuteUnknown, Executed, Executing, InputOpen
<1>11. ASSUME NEW s \in Streams, ReadOutput(s) PROVE PhaseInv'
  <2>1. outbox'[1].type # "Status"
    BY <1>11 DEF ReadOutput, OutputType, TypeOf, Msg, Streams
  <2>2. pid # 0
    BY <1>11 DEF ReadOutput, Streams
  <2> QED
    BY <1>11, <2>1, <2>2 DEF ReadOutput, Streams
<1>12. CASE \E s \in Streams : OutputEnds(s) \/ OutputIdle(s)
  BY <1>12 DEF OutputEnds, OutputIdle, AfterStream, Streams
<1>13. CASE Exit
  BY <1>13 DEF Exit
<1>14. CASE Deliver
  BY <1>14 DEF Deliver, AfterInterrupt
<1>15. CASE AlarmRings \/ ProgramStops
  BY <1>15 DEF AlarmRings, ProgramStops
<1>16. CASE \E status \in Statuses : ProgramExits(status)
  BY <1>16 DEF ProgramExits, ServerLives
<1>17. CASE \/ \E d \in {1, 2} : ProgramWrites(d)
            \/ ProgramReads
            \/ \E d \in {0, 1, 2} : ProgramCloses(d)
  BY <1>17 DEF ProgramWrites, ProgramReads, ProgramCloses, serverVars
<1>18. CASE ClientMay
  BY <1>18 DEF ClientMay, serverVars
<1>19. CASE Killed
  BY <1>19 DEF Killed, ServerLives
<1> QED
  BY <1>1, <1>2, <1>3, <1>4, <1>5, <1>6, <1>7, <1>8, <1>9, <1>10, <1>11, <1>12,
     <1>13, <1>14, <1>15, <1>16, <1>17, <1>18, <1>19
     DEF SessionMoves, SessionSide, ServerStep, ProgramStep

-----------------------------------------------------------------------------
(***************************************************************************)
(* The status is the last message.  What the client has read, what is in   *)
(* the socket and what is being written form one sequence, Told, that only *)
(* grows, and grows only where a message is taken up.                      *)
(***************************************************************************)
NoStatus(q) == \A i \in 1 .. Len(q) : q[i].type # "Status"

StatusInv ==
  /\ outbox # <<>> => pc \in {"write", "exit", "done"}
  /\ pid # 0 => NoStatus(Told)
  /\ StatusIsLast

\* Telling one more message after q.
LEMMA OneMore ==
  ASSUME NEW q \in Seq(Message), NEW m \in Message
  PROVE  /\ q \o <<>> = q
         /\ Len(q \o <<m>>) = Len(q) + 1
         /\ (q \o <<m>>)[Len(q) + 1] = m
         /\ \A i \in 1 .. Len(q) : (q \o <<m>>)[i] = q[i]
  OBVIOUS

LEMMA StatusInit == SessionInit => StatusInv
<1> SUFFICES ASSUME SessionInit PROVE StatusInv
  OBVIOUS
<1>1. Told = <<>>
  <2>1. \A S : <<>> \in Seq(S)
    BY EmptyType
  <2> QED
    BY <2>1, ConcatEmptySeq DEF SessionInit, WireInit, ServerInit, Told
<1>2. Len(Told) = 0
  BY <1>1, EmptyType
<1> QED
  BY <1>2 DEF SessionInit, ServerInit, StatusInv, NoStatus, StatusIsLast

\* The three sequences are sequences of messages; Told is one of them all.
LEMMA ToldType ==
  ASSUME TypeInv
  PROVE  /\ got \in Seq(Message) /\ s2c \in Seq(Message) /\ outbox \in Seq(Message)
         /\ Told \in Seq(Message) /\ got \o s2c \in Seq(Message)
  BY ConcatType DEF TypeInv, TypeOK, WireTypeOK, ServerTypeOK, Told

\* Told does not change where nothing is taken up.
LEMMA ToldSame ==
  ASSUME TypeInv,
         \/ UNCHANGED <<got, s2c, outbox>>
         \/ WriteRemote
         \/ (\E k \in 1 .. Len(s2c) : ClientRecv(k)) /\ UNCHANGED outbox
  PROVE  Told' = Told
<1>1. CASE UNCHANGED <<got, s2c, outbox>>
  BY <1>1 DEF Told
<1>2. CASE WriteRemote
  <2>1. Len(outbox) = 1
    <3>1. outbox \in Seq(Message) /\ outbox # <<>> /\ Len(outbox) <= 1
      BY <1>2, ToldType DEF TypeInv, TypeOK, ServerTypeOK, Writing, WriteRemote
    <3> QED
      BY <3>1, SingleLen, Zenon
  <2>2. got' = got /\ s2c' = Append(s2c, outbox[1]) /\ outbox' = <<>>
    BY <1>2 DEF WriteRemote, ServerSend
  <2>3. (got \o Append(s2c, outbox[1])) \o <<>> = (got \o s2c) \o outbox
    <3>1. /\ got \in Seq(Message) /\ s2c \in Seq(Message)
          /\ outbox \in Seq(Message)
      BY ToldType
    <3> QED
      BY <2>1, <3>1, StreamWritten
  <2> QED
    BY <2>2, <2>3 DEF Told
<1>3. CASE (\E k \in 1 .. Len(s2c) : ClientRecv(k)) /\ UNCHANGED outbox
  <2>1. PICK k \in 1 .. Len(s2c) : /\ got' = got \o SubSeq(s2c, 1, k)
                                   /\ s2c' = SubSeq(s2c, k + 1, Len(s2c))
    BY <1>3 DEF ClientRecv
  <2> DEFINE a == SubSeq(s2c, 1, k)
             b == SubSeq(s2c, k + 1, Len(s2c))
  <2>2. a \in Seq(Message) /\ b \in Seq(Message) /\ got \in Seq(Message)
    BY ToldType, PartType
  <2>3. a \o b = s2c
    BY ToldType, PartsJoin
  <2>4. (got \o a) \o b = got \o (a \o b)
    <3> HIDE DEF a, b
    <3> QED
      BY <2>2, ConcatRegroup, SMTT(60)
  <2>5. Told' = ((got \o a) \o b) \o outbox
    BY <1>3, <2>1 DEF Told
  <2> QED
    BY <2>3, <2>4, <2>5 DEF Told
<1> QED
  BY <1>1, <1>2, <1>3

\* A message is taken up: Told grows by it.
LEMMA ToldGrows ==
  ASSUME TypeInv, StatusInv, UNCHANGED <<got, s2c>>, NEW m \in Message,
         pc \notin {"write", "exit", "done"}, outbox' = <<m>>
  PROVE  /\ Len(Told') = Len(Told) + 1
         /\ Told'[Len(Told) + 1] = m
         /\ \A i \in 1 .. Len(Told) : Told'[i] = Told[i]
         /\ Len(Told) \in Nat
<1>1. outbox = <<>>
  BY DEF StatusInv
<1>2. Told = got \o s2c
  BY <1>1, ToldType, OneMore DEF Told
<1>3. Told' = (got \o s2c) \o <<m>>
  BY DEF Told
<1> QED
  BY <1>2, <1>3, ToldType, OneMore

\* A step that takes nothing up leaves the invariant alone, provided it does
\* not touch the status of a program that has been told of.
LEMMA StatusKept ==
  ASSUME StatusInv, PhaseInv,
         Told' = Told,
         UNCHANGED <<prog, code>> \/ pid # 0,
         pid' # 0 => pid # 0,
         pid' = 0 => pid = 0,
         outbox' # <<>> => pc' \in {"write", "exit", "done"}
  PROVE  StatusInv'
  BY DEF StatusInv, PhaseInv, StatusIsLast, NoStatus

LEMMA StatusStep ==
  ASSUME TypeInv, PhaseInv, StatusInv, SessionMoves PROVE StatusInv'
<1> DEFINE OutboxOK == outbox' # <<>> => pc' \in {"write", "exit", "done"}
<1>1. CASE Reap
  <2> DEFINE m == Msg("Status", code)
  <2>1. m \in Message
    BY <1>1, MsgType, StatusesAreNats DEF TypeInv, CodeKnown, Reap, Types
  <2>2. /\ UNCHANGED <<got, s2c, code>> /\ outbox' = <<m>> /\ pc = "reap"
        /\ pc' = "write" /\ prog = "zombie" /\ prog' = "reaped" /\ pid' = 0
    BY <1>1 DEF Reap, Goto, wireVars
  <2>3. /\ Len(Told') = Len(Told) + 1 /\ Told'[Len(Told) + 1] = m
        /\ \A i \in 1 .. Len(Told) : Told'[i] = Told[i]
        /\ Len(Told) \in Nat
    BY <2>1, <2>2, ToldGrows
  <2>4. NoStatus(Told)
    BY <2>2 DEF StatusInv, PhaseInv
  <2>5. StatusIsLast'
    BY <2>2, <2>3, <2>4 DEF StatusIsLast, NoStatus, Msg
  <2> QED
    BY <2>2, <2>5 DEF StatusInv
<1>2. ASSUME NEW s \in Streams, ReadOutput(s) PROVE StatusInv'
  <2> DEFINE m == Msg(OutputType(s), Head(pipe[s]))
  <2>1. m \in Message /\ m.type # "Status"
    <3>1. Head(pipe[s]) \in Nat
      BY <1>2, TailType DEF ReadOutput, TypeInv, TypeOK, ProgTypeOK
    <3>2. OutputType(s) \in Types \ {"Status"}
      BY DEF OutputType, TypeOf, Streams, Types
    <3> QED
      BY <3>1, <3>2, MsgType DEF Msg
  <2>2. /\ UNCHANGED <<got, s2c, code, prog, pid>> /\ outbox' = <<m>>
        /\ pc \in Streams /\ pc' = "write"
    BY <1>2 DEF ReadOutput, Goto, wireVars
  <2>3. /\ Len(Told') = Len(Told) + 1 /\ Told'[Len(Told) + 1] = m
        /\ \A i \in 1 .. Len(Told) : Told'[i] = Told[i]
        /\ Len(Told) \in Nat
    BY <2>1, <2>2, ToldGrows DEF Streams
  <2>4. pid # 0 /\ NoStatus(Told)
    BY <2>2 DEF StatusInv, PhaseInv, Streams
  <2>5. NoStatus(Told')
    BY <2>1, <2>3, <2>4 DEF NoStatus
  <2> QED
    BY <2>2, <2>5 DEF StatusInv, StatusIsLast, NoStatus
<1>3. CASE ClientMay
  <2>1. UNCHANGED <<pc, pid, outbox, prog, code>>
    BY <1>3 DEF ClientMay, serverVars, progVars
  <2>2. Told' = Told
    <3>1. CASE \E k \in 1 .. Len(s2c) : ClientRecv(k)
      BY <2>1, <3>1, ToldSame
    <3>2. CASE UNCHANGED <<got, s2c>>
      BY <2>1, <3>2, ToldSame
    <3> QED
      BY <1>3, <3>1, <3>2 DEF ClientMay, Connect, ClientClose, ClientSend, wireVars
  <2>3. OutboxOK
    BY <2>1 DEF StatusInv
  <2> QED
    BY <2>1, <2>2, <2>3, StatusKept
<1>4. CASE WriteRemote
  <2>1. UNCHANGED <<pid, prog, code>> /\ outbox' = <<>>
    BY <1>4 DEF WriteRemote, progVars
  <2> QED
    BY <1>4, <2>1, ToldSame, StatusKept
<1>5. CASE QuietStep \/ ChildMain \/ Exit
  <2>1. UNCHANGED <<got, s2c, outbox, pid, prog, code>>
    BY <1>5, QuietControl DEF wireVars, progVars, ChildMain, ServerAccept, Exit, ServerClose
  <2>2. OutboxOK
    <3>1. CASE QuietStep
      BY <3>1, <2>1 DEF QuietStep, StatusInv, Goto, Leave,
           ChildRun, NothingToReap, ClearSigchld, WriteRemoteFails, SelectFails,
           SelectScans, SelectWakes, SelectTimesOut, Deliver, AfterInterrupt,
           RemoteEnds, RemoteDone, ExecuteForkFails, ExecuteStdinFails,
           ExecuteUnknown, Executing, OutputEnds, OutputIdle, Streams, AlarmRings,
           ProgramStops
    <3>2. CASE ChildMain \/ Exit
      BY <3>2, <2>1 DEF StatusInv, ChildMain, Exit, Goto, Leave
    <3> QED
      BY <1>5, <3>1, <3>2
  <2> QED
    BY <2>1, <2>2, ToldSame, StatusKept
<1>6. CASE ReadRemote \/ ExecuteWinsize \/ ExecuteStdin
  <2>1. UNCHANGED <<got, s2c, outbox, pid, prog, code>>
    BY <1>6 DEF ReadRemote, ServerRecv, ExecuteWinsize, ExecuteStdin, wireVars, progVars
  <2>2. OutboxOK
    BY <1>6, <2>1 DEF StatusInv, ReadRemote, ExecuteWinsize, ExecuteStdin, Goto,
                      Executed, Executing
  <2> QED
    BY <2>1, <2>2, ToldSame, StatusKept
<1>7. CASE ExecuteFork
  <2>1. UNCHANGED <<got, s2c, outbox, pc>> /\ pid # 0 /\ pid' # 0
    BY <1>7 DEF ExecuteFork, MayFork, Executed, ShellPid, wireVars
  <2>2. OutboxOK
    BY <2>1 DEF StatusInv
  <2> QED
    BY <2>1, <2>2, ToldSame, StatusKept
<1>8. CASE \E status \in Statuses : ProgramExits(status)
  <2>1. UNCHANGED <<got, s2c, outbox, pc, pid>> /\ pid # 0
    BY <1>8 DEF ProgramExits, PhaseInv, wireVars
  <2>2. OutboxOK
    BY <2>1 DEF StatusInv
  <2> QED
    BY <2>1, <2>2, ToldSame, StatusKept
<1>9. CASE \/ \E d \in {1, 2} : ProgramWrites(d)
           \/ ProgramReads
           \/ \E d \in {0, 1, 2} : ProgramCloses(d)
  <2>1. UNCHANGED <<got, s2c, outbox, pc, pid, prog, code>>
    BY <1>9 DEF ProgramWrites, ProgramReads, ProgramCloses,
                wireVars, serverVars, progVars
  <2>2. OutboxOK
    BY <2>1 DEF StatusInv
  <2> QED
    BY <2>1, <2>2, ToldSame, StatusKept
<1>10. CASE Killed
  <2>1. UNCHANGED <<got, s2c, outbox, pid, code>> /\ pc' = "done"
    BY <1>10 DEF Killed, ServerClose
  <2>2. Told' = Told
    BY <2>1, ToldSame
  <2>3. prog' = "none" => prog = "none"
    BY <1>10 DEF Killed
  <2>4. StatusIsLast'
    BY <1>10, <2>1, <2>2 DEF StatusInv, StatusIsLast, Killed
  <2> QED
    BY <2>1, <2>2, <2>4 DEF StatusInv, NoStatus
<1> QED
  BY <1>1, <1>2, <1>3, <1>4, <1>5, <1>6, <1>7, <1>8, <1>9, <1>10
     DEF SessionMoves, SessionSide, ServerStep, ProgramStep, QuietStep

-----------------------------------------------------------------------------
(***************************************************************************)
(* A session's buffer is empty when it reads again, so that buffer and     *)
(* socket hold one stream of messages: a step leaves it alone, takes its   *)
(* first message, or adds one at its end.                                  *)
(***************************************************************************)
BufferInv == inbox # <<>> => pc \in {"execute", "exit", "done"}

LEMMA BufferInit == SessionInit => BufferInv
  BY DEF SessionInit, ServerInit, BufferInv

LEMMA BufferStep ==
  ASSUME TypeInv, BufferInv, SessionMoves PROVE BufferInv'
<1> USE DEF BufferInv, Goto, Leave
<1>1. CASE \/ ChildMain \/ ChildRun \/ Reap \/ NothingToReap \/ ClearSigchld
           \/ WriteRemote \/ WriteRemoteFails
  BY <1>1 DEF ChildMain, ChildRun, Reap, NothingToReap, ClearSigchld,
              WriteRemote, WriteRemoteFails
<1>2. CASE \/ SelectFails \/ SelectScans \/ SelectWakes \/ SelectTimesOut
           \/ Deliver
  BY <1>2 DEF SelectFails, SelectScans, SelectWakes, SelectTimesOut, Deliver,
              AfterInterrupt
<1>3. CASE ReadRemote \/ RemoteEnds \/ RemoteDone
  BY <1>3 DEF ReadRemote, RemoteEnds, RemoteDone
<1>4. CASE \/ ExecuteFork \/ ExecuteForkFails \/ ExecuteWinsize \/ ExecuteStdin
           \/ ExecuteStdinFails \/ ExecuteUnknown
  BY <1>4 DEF ExecuteFork, ExecuteForkFails, ExecuteWinsize, ExecuteStdin,
              ExecuteStdinFails, ExecuteUnknown, Executed, Executing
<1>5. CASE \E s \in Streams : ReadOutput(s) \/ OutputEnds(s) \/ OutputIdle(s)
  BY <1>5 DEF ReadOutput, OutputEnds, OutputIdle, Streams
<1>6. CASE Exit \/ AlarmRings \/ Killed \/ ClientMay
  BY <1>6 DEF Exit, AlarmRings, Killed, ClientMay, serverVars
<1>7. CASE ProgramStep
  BY <1>7 DEF ProgramStep, ProgramWrites, ProgramReads, ProgramCloses,
              ProgramExits, ProgramStops, serverVars
<1> QED
  BY <1>1, <1>2, <1>3, <1>4, <1>5, <1>6, <1>7
     DEF SessionMoves, SessionSide, ServerStep

\* All that the client has asked and the session has not yet executed.
Asked == inbox \o c2s

LEMMA AskedType ==
  ASSUME TypeInv
  PROVE  inbox \in Seq(Message) /\ c2s \in Seq(Message) /\ Asked \in Seq(Message)
  BY ConcatType DEF TypeInv, TypeOK, WireTypeOK, ServerTypeOK, Asked

\* One read(2) moves a part of the stream from the socket to the buffer.
LEMMA AskedRead ==
  ASSUME TypeInv, BufferInv, ReadRemote PROVE Asked' = Asked
<1>1. PICK k \in 1 .. Len(c2s) :
        c2s' = SubSeq(c2s, k + 1, Len(c2s)) /\ inbox' = SubSeq(c2s, 1, k)
  BY DEF ReadRemote, ServerRecv
<1>2. c2s \in Seq(Message)
  BY AskedType
<1>3. inbox' \o c2s' = c2s
  BY <1>1, <1>2, PartsJoin
<1>4. inbox = <<>>
  BY DEF BufferInv, ReadRemote
<1> QED
  BY <1>2, <1>3, <1>4, ConcatEmptySeq DEF Asked

\* A message executed is the first of the stream.
LEMMA AskedTaken ==
  ASSUME TypeInv, ExecuteFork \/ ExecuteWinsize \/ ExecuteStdin
  PROVE  /\ Asked # <<>> /\ Asked[1] = inbox[1]
         /\ Asked' = Tail(Asked)
         /\ inbox # <<>> /\ inbox' = Tail(inbox) /\ c2s' = c2s
<1>1. inbox # <<>> /\ inbox' = Tail(inbox) /\ c2s' = c2s
  BY DEF ExecuteFork, ExecuteWinsize, ExecuteStdin, Executing, Executed, wireVars
<1>2. inbox \in Seq(Message) /\ c2s \in Seq(Message)
  BY AskedType
<1>3. /\ inbox \o c2s # <<>> /\ (inbox \o c2s)[1] = inbox[1]
      /\ Tail(inbox) \o c2s = Tail(inbox \o c2s)
  BY <1>1, <1>2, SMTT(60)
<1> QED
  BY <1>1, <1>3 DEF Asked

LEMMA AskedMore ==
  ASSUME TypeInv, NEW m \in Message, ClientSend(m), UNCHANGED inbox
  PROVE  Asked' = Append(Asked, m)
<1>1. inbox \in Seq(Message) /\ c2s \in Seq(Message)
  BY AskedType
<1>2. inbox \o Append(c2s, m) = Append(inbox \o c2s, m)
  BY <1>1
<1> QED
  BY <1>2 DEF Asked, ClientSend

\* No other step touches the stream.
LEMMA AskedSame ==
  ASSUME TypeInv, BufferInv, SessionMoves,
         ~(ExecuteFork \/ ExecuteWinsize \/ ExecuteStdin),
         \A m \in Message : ~ClientSend(m)
  PROVE  Asked' = Asked /\ sent' = sent
<1>1. CASE ReadRemote
  BY <1>1, AskedRead DEF ReadRemote, ServerRecv
<1>2. CASE QuietStep
  BY <1>2, QuietControl DEF Asked, wireVars
<1>3. CASE ChildMain \/ Reap \/ WriteRemote \/ Exit \/ Killed
  BY <1>3 DEF ChildMain, ServerAccept, Reap, WriteRemote, ServerSend, Exit, Killed,
              ServerClose, Asked, wireVars
<1>4. CASE \E s \in Streams : ReadOutput(s)
  BY <1>4 DEF ReadOutput, Asked, wireVars
<1>5. CASE ProgramStep
  BY <1>5 DEF ProgramStep, ProgramWrites, ProgramReads, ProgramCloses,
              ProgramExits, ProgramStops, Asked, wireVars, serverVars
<1>6. CASE ClientMay
  BY <1>6 DEF ClientMay, Connect, ClientClose, ClientRecv, Asked, wireVars, serverVars
<1> QED
  BY <1>1, <1>2, <1>3, <1>4, <1>5, <1>6
     DEF SessionMoves, SessionSide, ServerStep, QuietStep

-----------------------------------------------------------------------------
(***************************************************************************)
(* Descriptors.  The numbers of the program's output are those its kind    *)
(* has, until the stream ends; fds never holds any other.                  *)
(***************************************************************************)
KindInv ==
  /\ kind = "none" <=> pid = -1
  /\ kind = "none" => fd = NoFds /\ fds \subseteq {Remote}
  /\ kind # "none" =>
       /\ \A s \in Streams : fd[s] \in {-1, FdOf(kind)[s]}
       /\ fds \subseteq {Remote, FdOf(kind)["stdout"], FdOf(kind)["stderr"]} \ {-1}

LEMMA KindInit == SessionInit => KindInv
  BY DEF SessionInit, ServerInit, KindInv

\* What pselect(2) is asked for, and returns, are numbers of that kind too.
LEMMA WatchedKinds ==
  ASSUME TypeInv, KindInv
  PROVE  /\ kind = "none" => Watched \subseteq {Remote}
         /\ kind # "none" =>
              Watched \subseteq {Remote, FdOf(kind)["stdout"], FdOf(kind)["stderr"]} \ {-1}
         /\ Ready \subseteq Watched
<1>1. Ready \subseteq Watched
  BY ReadyType DEF TypeInv
<1>2. Remote # -1
  BY DEF Remote
<1>3. kind = "none" => Watched \subseteq {Remote}
  BY DEF KindInv, Watched, NoFds, Streams
<1> QED
  BY <1>1, <1>2, <1>3 DEF KindInv, Watched, Streams

LEMMA KindStep ==
  ASSUME TypeInv, PhaseInv, KindInv, SessionMoves PROVE KindInv'
<1>1. CASE ExecuteFork
  <2>1. /\ kind' \in Kinds /\ fd' = FdOf(kind') /\ pid' = ShellPid /\ fds' = fds
        /\ pid = -1
    <3>1. inbox[1].type \in ForkTypes
      BY <1>1 DEF ExecuteFork, Executing
    <3>2. kind' \in Kinds /\ fd' = FdOf(kind')
      BY <1>1, <3>1 DEF ExecuteFork, KindOf, ForkTypes, Kinds
    <3>3. pid = -1
      BY <1>1 DEF ExecuteFork, MayFork, TypeInv, TypeOK, ServerTypeOK, ShellPid
    <3> QED
      BY <1>1, <3>2, <3>3 DEF ExecuteFork
  <2>2. fds \subseteq {Remote} /\ Remote # -1
    BY <2>1 DEF KindInv, Remote
  <2>3. kind' # "none" /\ pid' # -1
    BY <2>1 DEF Kinds, ShellPid
  <2> QED
    BY <2>1, <2>2, <2>3 DEF KindInv
<1>2. CASE SelectScans \/ SelectTimesOut
  <2>1. UNCHANGED <<kind, pid, fd>> /\ fds' \in {Ready, fds \cup Watched, {}}
    BY <1>2 DEF SelectScans, SelectTimesOut
  <2>2. /\ kind = "none" => fds' \subseteq {Remote}
        /\ kind # "none" => fds' \subseteq {Remote, FdOf(kind)["stdout"],
                                            FdOf(kind)["stderr"]} \ {-1}
    BY <2>1, WatchedKinds DEF KindInv
  <2> QED
    BY <2>1, <2>2 DEF KindInv
<1>3. ASSUME NEW s \in Streams, OutputEnds(s) PROVE KindInv'
  <2>1. UNCHANGED <<kind, pid, fds>> /\ fd' = [fd EXCEPT ![s] = -1]
    BY <1>3 DEF OutputEnds
  <2>2. fd \in [Streams -> {-1, 6, 7, 8}]
    BY DEF TypeInv, TypeOK, ServerTypeOK
  <2>3. kind = "none" => fd' = NoFds
    BY <2>1, <2>2 DEF KindInv, NoFds
  <2>4. \A q \in Streams : fd'[q] \in {-1, fd[q]}
    BY <2>1, <2>2
  <2> QED
    BY <2>1, <2>3, <2>4 DEF KindInv
<1>4. CASE Reap
  <2>1. UNCHANGED <<kind, fd, fds>> /\ pid' = 0
    BY <1>4 DEF Reap
  <2>2. kind # "none"
    BY <1>4 DEF Reap, KindInv, PhaseInv
  <2> QED
    BY <2>1, <2>2 DEF KindInv
<1>5. CASE UNCHANGED <<kind, pid, fd, fds>>
  BY <1>5 DEF KindInv
<1> QED
  BY <1>1, <1>2, <1>3, <1>4, <1>5
     DEF SessionMoves, SessionSide, ServerStep, ProgramStep, ChildMain, ChildRun,
         NothingToReap, ClearSigchld, WriteRemote, WriteRemoteFails, SelectFails,
         SelectWakes, Deliver, ReadRemote, RemoteEnds, RemoteDone,
         ExecuteForkFails, ExecuteWinsize, ExecuteStdin, ExecuteStdinFails,
         ExecuteUnknown, ReadOutput, OutputIdle, Exit, AlarmRings, ProgramWrites,
         ProgramReads, ProgramCloses, ProgramExits, ProgramStops, serverVars,
         ClientMay, Killed


\* fds, never emptied, makes pselect(2) fail in the cases of DescriptorOnlyIf
\* only, and the session leaves its loop at once.
DescriptorInv ==
  /\ reason = "descriptor" => Ended
  /\ DescriptorOnlyIf

LEMMA DescriptorInit == SessionInit => DescriptorInv
  BY DEF SessionInit, ServerInit, DescriptorInv, DescriptorOnlyIf

\* Where both streams are watched, or neither, or the one with the higher
\* number, no other descriptor is examined.
LEMMA ExaminedOnlyIf ==
  ASSUME TypeInv, KindInv, ~(Examined \subseteq Watched)
  PROVE  \/ kind = "pipe" /\ fd["stdout"] = -1 /\ fd["stderr"] # -1
         \/ kind = "socket" /\ fd["stderr"] = -1 /\ fd["stdout"] # -1
<1>1. MaxWatched \in Watched /\ \A g \in Watched : g <= MaxWatched
  <2>1. Remote \in Watched /\ Watched \subseteq {Remote, fd["stdout"], fd["stderr"]}
    BY DEF Watched, Streams
  <2>2. Remote \in Int /\ fd["stdout"] \in Int /\ fd["stderr"] \in Int
    BY DEF Remote, Streams, TypeInv, TypeOK, ServerTypeOK
  <2>3. \E f \in Watched : \A g \in Watched : g <= f
    BY <2>1, <2>2
  <2> QED
    BY <2>3 DEF MaxWatched
<1>2. PICK f \in fds : f <= MaxWatched /\ f \notin Watched
  BY DEF Examined
<1>3. Watched = {Remote} \cup ({fd["stdout"], fd["stderr"]} \ {-1})
  BY DEF Watched, Streams
<1>4. kind \in Kinds
  BY <1>2, <1>3 DEF KindInv, TypeInv, TypeOK, ServerTypeOK
<1>5. /\ fd["stdout"] \in {-1, FdOf(kind)["stdout"]}
      /\ fd["stderr"] \in {-1, FdOf(kind)["stderr"]}
      /\ f \in {FdOf(kind)["stdout"], FdOf(kind)["stderr"]} \ {-1}
  BY <1>2, <1>3, <1>4 DEF KindInv, Streams, Kinds
<1>6. CASE kind = "pipe"
  BY <1>1, <1>2, <1>3, <1>5, <1>6 DEF FdOf, Remote
<1>7. CASE kind = "socket"
  BY <1>1, <1>2, <1>3, <1>5, <1>7 DEF FdOf, Remote
<1>8. CASE kind = "tty"
  BY <1>1, <1>2, <1>3, <1>5, <1>8 DEF FdOf, Remote
<1> QED
  BY <1>4, <1>6, <1>7, <1>8 DEF Kinds

LEMMA DescriptorStep ==
  ASSUME TypeInv, KindInv, DescriptorInv, SessionMoves PROVE DescriptorInv'
<1> USE DEF DescriptorInv, DescriptorOnlyIf, Ended
<1>1. CASE SelectFails
  BY <1>1, ExaminedOnlyIf DEF SelectFails, Leave
<1>2. CASE \/ ChildMain \/ ChildRun \/ ClearSigchld \/ WriteRemoteFails
           \/ RemoteEnds \/ ExecuteForkFails \/ ExecuteStdinFails \/ ExecuteUnknown
  BY <1>2 DEF ChildMain, ChildRun, ClearSigchld, WriteRemoteFails, RemoteEnds,
              ExecuteForkFails, ExecuteStdinFails, ExecuteUnknown, Leave, Goto
<1>3. CASE ExecuteFork \/ \E s \in Streams : OutputEnds(s)
  <2>1. ~Ended /\ UNCHANGED reason
    BY <1>3 DEF ExecuteFork, Executing, Executed, OutputEnds, Streams, Goto
  <2> QED
    BY <2>1
<1>4. CASE UNCHANGED <<reason, kind, fd>> /\ (Ended => Ended')
  BY <1>4
<1>5. CASE \/ Reap \/ NothingToReap \/ WriteRemote \/ SelectScans \/ SelectWakes
           \/ SelectTimesOut \/ Deliver \/ ReadRemote \/ RemoteDone
           \/ \E s \in Streams : ReadOutput(s) \/ OutputIdle(s)
  BY <1>4, <1>5 DEF Reap, NothingToReap, WriteRemote, SelectScans, SelectWakes,
       SelectTimesOut, Deliver, Unblocked, ReadRemote, RemoteDone, ReadOutput,
       OutputIdle, Streams, Goto
<1>6. CASE \/ ExecuteWinsize \/ ExecuteStdin \/ Exit \/ AlarmRings \/ ProgramStep
           \/ ClientMay \/ Killed
  BY <1>4, <1>6 DEF ExecuteWinsize, ExecuteStdin, Executed, Exit, Goto, AlarmRings,
       ProgramStep, ProgramWrites, ProgramReads, ProgramCloses, ProgramExits,
       ProgramStops, serverVars, ClientMay, Killed
<1> QED
  BY <1>1, <1>2, <1>3, <1>5, <1>6 DEF SessionMoves, SessionSide, ServerStep

-----------------------------------------------------------------------------
(***************************************************************************)
(* What the session sleeps on and what it reads.                           *)
(***************************************************************************)
SleepInv ==
  ~EmulatedPselect =>
    /\ pc \in {"select", "sleep"} => ~sigchld
    /\ pc \in {"reap", "clear0", "select", "sleep"} => ~(sigalrm /\ handshaking)

LEMMA SleepInit == SessionInit => SleepInv
  BY DEF SessionInit, ServerInit, SleepInv

LEMMA SleepStep ==
  ASSUME PhaseInv, SleepInv, SessionMoves PROVE SleepInv'
<1> USE DEF SleepInv, Goto, Leave
<1>1. CASE ChildRun
  BY <1>1 DEF ChildRun
<1>2. CASE ClearSigchld
  BY <1>2 DEF ClearSigchld, LoopLeaves
<1>3. CASE Deliver
  BY <1>3 DEF Deliver, Unblocked, AfterInterrupt
<1>4. CASE \/ ChildMain \/ Reap \/ NothingToReap \/ WriteRemote
           \/ WriteRemoteFails \/ SelectFails \/ SelectScans \/ SelectWakes
           \/ SelectTimesOut
  BY <1>4 DEF ChildMain, Reap, NothingToReap, WriteRemote, AfterWrite,
              WriteRemoteFails, SelectFails, SelectScans, SelectWakes,
              SelectTimesOut
<1>5. CASE \/ ReadRemote \/ RemoteEnds \/ RemoteDone \/ ExecuteFork
           \/ ExecuteForkFails \/ ExecuteWinsize \/ ExecuteStdin
           \/ ExecuteStdinFails \/ ExecuteUnknown
  BY <1>5 DEF ReadRemote, RemoteEnds, RemoteDone, ExecuteFork, ExecuteForkFails,
              ExecuteWinsize, ExecuteStdin, ExecuteStdinFails, ExecuteUnknown,
              Executed
<1>6. CASE \E s \in Streams : ReadOutput(s) \/ OutputEnds(s) \/ OutputIdle(s)
  BY <1>6 DEF ReadOutput, OutputEnds, OutputIdle, AfterStream
<1>7. CASE Exit \/ AlarmRings \/ ProgramStep \/ ClientMay \/ Killed
  BY <1>7 DEF Exit, AlarmRings, ProgramStep, ProgramWrites, ProgramReads,
       ProgramCloses, ProgramExits, ProgramStops, serverVars, ClientMay, Killed
<1> QED
  BY <1>1, <1>2, <1>3, <1>4, <1>5, <1>6, <1>7
     DEF SessionMoves, SessionSide, ServerStep

\* A stream has something to read, or has ended for good.
HasData(s) == pipe[s] # <<>> \/ AtEOF(s)

\* The places from which the round still goes to read the stream.
Before(s) ==
  \/ pc \in {"ready", "execute", s}
  \/ /\ s = "stderr"
     /\ \/ pc = "stdout"
        \/ pc = "write" /\ outbox[1].type = "StdOut"

ReadyInv ==
  /\ pc = "ready" /\ Remote \in fds => ServerReadable
  /\ \A s \in Streams : Before(s) /\ Selected(s) => HasData(s)

LEMMA ReadyInit == SessionInit => ReadyInv
  BY DEF SessionInit, ServerInit, ReadyInv, Selected, NoFds

\* Two streams never have the same number, and none has the client's.
LEMMA NumbersDiffer ==
  ASSUME TypeInv, KindInv, NEW s \in Streams, fd[s] >= 0
  PROVE  /\ fd[s] # Remote
         /\ \A q \in Streams : fd[q] = fd[s] => q = s
<1>1. kind \in Kinds
  BY DEF KindInv, NoFds, TypeInv, TypeOK, ServerTypeOK
<1>2. \A q \in Streams : fd[q] \in {-1, FdOf(kind)[q]}
  BY <1>1 DEF KindInv, Kinds
<1> QED
  BY <1>1, <1>2 DEF Kinds, FdOf, Remote, Streams

LEMMA ScanIsReady ==
  ASSUME TypeInv, KindInv, SelectScans PROVE ReadyInv'
<1>1. UNCHANGED <<wireVars, kind, fd, progVars>>
  BY DEF SelectScans
<1>2. CASE Ready # {}
  <2>1. fds' = Ready /\ pc' = "ready"
    BY <1>2 DEF SelectScans, Goto
  <2>2. Remote \in Ready => ServerReadable
    BY NumbersDiffer DEF Ready, Remote
  <2>3. \A s \in Streams : fd[s] >= 0 /\ fd[s] \in Ready => HasData(s)
    BY NumbersDiffer DEF Ready, HasData
  <2>4. ServerReadable' <=> ServerReadable
    BY <1>1 DEF ServerReadable, wireVars
  <2>5. \A s \in Streams : HasData(s)' <=> HasData(s)
    BY <1>1 DEF HasData, AtEOF, Holders, progVars
  <2> QED
    BY <1>1, <2>1, <2>2, <2>3, <2>4, <2>5 DEF ReadyInv, Selected
<1>3. CASE Ready = {}
  BY <1>3 DEF SelectScans, Goto, ReadyInv, Before, Streams
<1> QED
  BY <1>2, <1>3

\* Nothing but reading a stream takes its data away.
LEMMA DataStays ==
  ASSUME TypeInv, NEW s \in Streams, HasData(s), SessionMoves,
         ~ExecuteFork, ~ReadOutput(s)
  PROVE  HasData(s)'
<1>1. CASE UNCHANGED kind /\ pipe'[s] = pipe[s] /\ stdio' \subseteq stdio
  BY <1>1 DEF HasData, AtEOF, Holders
<1>2. CASE QuietStep
  BY <1>1, <1>2, QuietControl DEF progVars
<1>3. ASSUME NEW q \in Streams, ReadOutput(q) PROVE HasData(s)'
  <2>1. q # s /\ UNCHANGED <<kind, stdio>> /\ pipe' = [pipe EXCEPT ![q] = Tail(@)]
    BY <1>3 DEF ReadOutput
  <2>2. pipe \in [Streams -> Seq(Nat)]
    BY DEF TypeInv, TypeOK, ProgTypeOK
  <2> QED
    BY <1>1, <2>1, <2>2
<1>4. ASSUME NEW d \in {1, 2}, ProgramWrites(d) PROVE HasData(s)'
  <2> DEFINE q == StreamBehind(d)
  <2>1. pipe \in [Streams -> Seq(Nat)] /\ written \in [Streams -> Nat] /\ q \in Streams
    BY DEF TypeInv, TypeOK, ProgTypeOK, StreamBehind, Streams
  <2>2. /\ UNCHANGED <<kind, stdio>>
        /\ pipe' = [pipe EXCEPT ![q] = Append(@, written[q] + 1)]
    BY <1>4 DEF ProgramWrites, serverVars
  <2>3. CASE q = s
    <3>1. pipe'[s] = Append(pipe[s], written[s] + 1)
      BY <2>1, <2>2, <2>3
    <3>2. pipe[s] \in Seq(Nat) /\ written[s] + 1 \in Nat
      BY <2>1
    <3>3. pipe'[s] # <<>>
      BY <3>1, <3>2, AppendProperties
    <3> QED
      BY <3>3 DEF HasData
  <2>4. CASE q # s
    BY <1>1, <2>1, <2>2, <2>4
  <2> QED
    BY <2>3, <2>4
<1>5. CASE \/ ChildMain \/ Reap \/ WriteRemote \/ ReadRemote \/ ExecuteWinsize
           \/ ExecuteStdin \/ Exit \/ ClientMay \/ Killed
  BY <1>1, <1>5 DEF ChildMain, Reap, WriteRemote, ReadRemote, ExecuteWinsize,
       ExecuteStdin, Exit, ClientMay, Killed, progVars, serverVars
<1>6. CASE \/ ProgramReads \/ \E d \in {0, 1, 2} : ProgramCloses(d)
           \/ \E status \in Statuses : ProgramExits(status)
  BY <1>1, <1>6 DEF ProgramReads, ProgramCloses, ProgramExits, serverVars
<1> QED
  BY <1>2, <1>3, <1>4, <1>5, <1>6
     DEF SessionMoves, SessionSide, ServerStep, ProgramStep, QuietStep

\* Where a stream is still to be read after a step, and was asked for, it was
\* so before, and the step has not read it.
LEMMA BeforeComes ==
  ASSUME TypeInv, SessionMoves, ~SelectScans, ~ExecuteFork,
         NEW s \in Streams, Before(s)', Selected(s)'
  PROVE  Before(s) /\ Selected(s) /\ ~ReadOutput(s)
<1> USE DEF Before, Selected, Goto, Leave, Streams
<1>0. ReadOutput(s) => pc = s
  BY DEF ReadOutput
<1>1. CASE \/ ChildMain \/ ChildRun \/ Reap \/ NothingToReap \/ ClearSigchld
           \/ WriteRemoteFails \/ SelectFails \/ SelectWakes \/ SelectTimesOut
  BY <1>1 DEF ChildMain, ChildRun, Reap, Msg, NothingToReap, ClearSigchld,
       LoopLeaves, WriteRemoteFails, SelectFails, SelectWakes, SelectTimesOut
<1>2. CASE WriteRemote
  BY <1>2 DEF WriteRemote, AfterWrite, ReadOutput
<1>3. CASE Deliver
  BY <1>3 DEF Deliver, Unblocked, AfterInterrupt, ReadOutput
<1>4. CASE \/ ReadRemote \/ RemoteEnds \/ RemoteDone \/ ExecuteForkFails
           \/ ExecuteWinsize \/ ExecuteStdin \/ ExecuteStdinFails \/ ExecuteUnknown
  BY <1>4 DEF ReadRemote, RemoteEnds, RemoteDone, ExecuteForkFails,
       ExecuteWinsize, ExecuteStdin, ExecuteStdinFails, ExecuteUnknown,
       Executed, Executing, ReadOutput
<1>5. ASSUME NEW q \in Streams, ReadOutput(q)
      PROVE  Before(s) /\ Selected(s) /\ ~ReadOutput(s)
  <2>1. pc = q /\ pc' = "write" /\ outbox'[1].type = TypeOf[q] /\ UNCHANGED <<fd, fds>>
    BY <1>5 DEF ReadOutput, OutputType, Msg
  <2>2. q = "stdout" /\ s = "stderr"
    BY <2>1 DEF TypeOf
  <2> QED
    BY <1>0, <2>1, <2>2
<1>6. ASSUME NEW q \in Streams, OutputEnds(q)
      PROVE  Before(s) /\ Selected(s) /\ ~ReadOutput(s)
  <2>1. /\ pc = q /\ pc' = AfterStream(q) /\ UNCHANGED fds
        /\ fd' = [fd EXCEPT ![q] = -1] /\ pipe[q] = <<>>
    BY <1>6 DEF OutputEnds
  <2>2. q = "stdout" /\ s = "stderr"
    BY <2>1 DEF AfterStream
  <2>3. fd'[s] = fd[s]
    BY <2>1, <2>2
  <2> QED
    BY <1>0, <2>1, <2>2, <2>3
<1>7. CASE \E q \in Streams : OutputIdle(q)
  BY <1>0, <1>7 DEF OutputIdle, AfterStream
<1>8. CASE UNCHANGED <<pc, outbox, fd, fds>>
  BY <1>8 DEF ReadOutput
<1>9. CASE Exit \/ AlarmRings \/ ProgramStep \/ ClientMay \/ Killed
  BY <1>8, <1>9 DEF Exit, AlarmRings, ProgramStep, ProgramWrites, ProgramReads,
       ProgramCloses, ProgramExits, ProgramStops, serverVars, ClientMay, Killed
<1> QED
  BY <1>1, <1>2, <1>3, <1>4, <1>5, <1>6, <1>7, <1>9
     DEF SessionMoves, SessionSide, ServerStep

LEMMA ReadyStep ==
  ASSUME TypeInv, PhaseInv, KindInv, ReadyInv, SessionMoves PROVE ReadyInv'
<1>1. CASE SelectScans
  BY <1>1, ScanIsReady
<1>2. CASE ExecuteFork
  <2>1. kind = "none"
    BY <1>2 DEF ExecuteFork, MayFork, KindInv, TypeInv, TypeOK, ServerTypeOK, ShellPid
  <2>2. fds' \subseteq {Remote} /\ pc' # "ready"
    BY <1>2, <2>1 DEF ExecuteFork, Executing, Executed, KindInv
  <2>3. \A s \in Streams : fd'[s] # Remote
    <3>1. inbox[1].type \in ForkTypes
      BY <1>2 DEF ExecuteFork, Executing
    <3> QED
      BY <1>2, <3>1 DEF ExecuteFork, KindOf, ForkTypes, FdOf, Remote, Streams
  <2> QED
    BY <2>2, <2>3 DEF ReadyInv, Selected
<1>3. ASSUME ~SelectScans, ~ExecuteFork PROVE ReadyInv'
  <2>1. ASSUME pc' = "ready", Remote \in fds' PROVE ServerReadable'
    <3>1. pc = "ready" /\ UNCHANGED fds
      BY <1>3, <2>1 DEF SessionMoves, SessionSide, ServerStep, ProgramStep,
         ChildMain, ChildRun, Reap, NothingToReap, ClearSigchld, LoopLeaves,
         WriteRemote, AfterWrite, WriteRemoteFails, SelectFails, SelectWakes,
         SelectTimesOut, Deliver, AfterInterrupt, ReadRemote, RemoteEnds,
         RemoteDone, ExecuteForkFails, ExecuteWinsize, ExecuteStdin,
         ExecuteStdinFails, ExecuteUnknown, Executed, Executing, ReadOutput,
         OutputEnds, OutputIdle, AfterStream, Streams, Exit, AlarmRings,
         ProgramWrites, ProgramReads, ProgramCloses, ProgramExits, ProgramStops,
         serverVars, ClientMay, Killed, Goto, Leave
    <3>2. ServerReadable
      BY <2>1, <3>1 DEF ReadyInv
    <3>3. CASE UNCHANGED wireVars
      BY <3>2, <3>3 DEF ServerReadable, wireVars
    <3>4. CASE ClientMay
      <4>1. ASSUME NEW m \in Message, ClientSend(m) PROVE ServerReadable'
        BY <4>1, AppendProperties, AskedType DEF ClientSend, ServerReadable
      <4>2. CASE \/ Connect \/ ClientClose \/ UNCHANGED wireVars
                 \/ \E k \in 1 .. Len(s2c) : ClientRecv(k)
        BY <3>2, <4>2 DEF Connect, ClientClose, ClientRecv, wireVars, ServerReadable
      <4> QED
        BY <3>4, <4>1, <4>2 DEF ClientMay
    <3>5. CASE ProgramStep \/ Deliver \/ AlarmRings
      BY <3>3, <3>5 DEF ProgramStep, ProgramWrites, ProgramReads, ProgramCloses,
         ProgramExits, ProgramStops, Deliver, AlarmRings
    <3>6. ~ServerStep /\ ~Killed
      BY <1>3, <2>1, <3>1 DEF ServerStep,
         ChildMain, ChildRun, Reap, NothingToReap, ClearSigchld,
         WriteRemote, WriteRemoteFails, SelectFails, SelectWakes,
         SelectTimesOut, ReadRemote, RemoteEnds, RemoteDone,
         ExecuteForkFails, ExecuteWinsize, ExecuteStdin,
         ExecuteStdinFails, ExecuteUnknown, Executing, ReadOutput,
         OutputEnds, OutputIdle, Streams, Exit, Killed, Goto, Leave
    <3> QED
      BY <3>4, <3>5, <3>6 DEF SessionMoves, SessionSide
  <2>2. ASSUME NEW s \in Streams, Before(s)', Selected(s)' PROVE HasData(s)'
    BY <1>3, <2>2, BeforeComes, DataStays DEF ReadyInv
  <2> QED
    BY <2>1, <2>2 DEF ReadyInv
<1> QED
  BY <1>1, <1>2, <1>3

-----------------------------------------------------------------------------
(***************************************************************************)
(* The data.  Output is numbered by the program as it writes it; the       *)
(* numbers told to the client and those still in the pipe are all of them. *)
(***************************************************************************)
LEMMA OutputInit == SessionInit => OutputConserved
<1> SUFFICES ASSUME SessionInit, NEW s \in Streams
             PROVE  Bodies(Told, TypeOf[s]) \o pipe[s] = [i \in 1 .. written[s] |-> i]
  BY DEF OutputConserved
<1>1. Told = <<>>
  BY EmptyType, ConcatEmptySeq DEF SessionInit, WireInit, ServerInit, Told
<1>2. Bodies(Told, TypeOf[s]) = <<>> /\ pipe[s] = <<>> /\ written[s] = 0
  BY <1>1, BodiesEmpty DEF SessionInit, ProgInit
<1> QED
  BY <1>2

\* A message taken up stands at the end of what the client is told.
LEMMA ToldAppend ==
  ASSUME TypeInv, StatusInv, UNCHANGED <<got, s2c>>, NEW m \in Message,
         pc \notin {"write", "exit", "done"}, outbox' = <<m>>
  PROVE  Told' = Append(Told, m)
<1>1. outbox = <<>>
  BY DEF StatusInv
<1>2. got \o s2c \in Seq(Message)
  BY ToldType
<1>3. Told = got \o s2c
  BY <1>1, <1>2, OneMore DEF Told
<1>4. Told' = (got \o s2c) \o <<m>>
  BY DEF Told
<1> QED
  BY <1>2, <1>3, <1>4, AppendIsConcat

\* No other step changes it.
LEMMA ToldKept ==
  ASSUME TypeInv, SessionMoves, ~Reap, \A s \in Streams : ~ReadOutput(s)
  PROVE  Told' = Told
<1>1. CASE UNCHANGED <<got, s2c, outbox>>
  BY <1>1, ToldSame
<1>2. CASE QuietStep
  BY <1>1, <1>2, QuietControl DEF wireVars
<1>3. CASE WriteRemote
  BY <1>3, ToldSame
<1>4. CASE ClientMay
  <2>1. UNCHANGED outbox
    BY <1>4 DEF ClientMay, serverVars
  <2>2. CASE \E k \in 1 .. Len(s2c) : ClientRecv(k)
    BY <2>1, <2>2, ToldSame
  <2> QED
    BY <1>1, <1>4, <2>1, <2>2 DEF ClientMay, Connect, ClientClose, ClientSend, wireVars
<1>5. CASE \/ ChildMain \/ ReadRemote \/ ExecuteFork \/ ExecuteWinsize
           \/ ExecuteStdin \/ Exit \/ ProgramStep \/ Killed
  BY <1>1, <1>5 DEF ChildMain, ServerAccept, ReadRemote, ServerRecv, ExecuteFork,
       ExecuteWinsize, ExecuteStdin, Exit, ServerClose, ProgramStep, ProgramWrites,
       ProgramReads, ProgramCloses, ProgramExits, ProgramStops, Killed, wireVars,
       serverVars
<1> QED
  BY <1>2, <1>3, <1>4, <1>5
     DEF SessionMoves, SessionSide, ServerStep, QuietStep

LEMMA OutputStep ==
  ASSUME TypeInv, StatusInv, OutputConserved, SessionMoves PROVE OutputConserved'
<1>0. /\ pipe \in [Streams -> Seq(Nat)] /\ written \in [Streams -> Nat]
      /\ Told \in Seq(Message)
      /\ \A type : Bodies(Told, type) \in Seq(Nat)
  BY ToldType, BodiesType DEF TypeInv, TypeOK, ProgTypeOK
<1>1. ASSUME NEW q \in Streams, ReadOutput(q) PROVE OutputConserved'
  <2> DEFINE m == Msg(OutputType(q), Head(pipe[q]))
  <2>1. m \in Message /\ m.type = TypeOf[q] /\ m.body = Head(pipe[q])
    <3>1. Head(pipe[q]) \in Nat
      BY <1>1, TailType DEF ReadOutput, TypeInv, TypeOK, ProgTypeOK
    <3>2. OutputType(q) \in Types
      BY DEF OutputType, TypeOf, Streams, Types
    <3> QED
      BY <3>1, <3>2, MsgType DEF Msg, OutputType
  <2>2. /\ Told' = Append(Told, m) /\ pipe[q] # <<>> /\ UNCHANGED written
        /\ pipe' = [pipe EXCEPT ![q] = Tail(@)]
    <3>1. /\ UNCHANGED <<got, s2c>> /\ outbox' = <<m>> /\ pc \in Streams
          /\ pipe[q] # <<>> /\ UNCHANGED written
          /\ pipe' = [pipe EXCEPT ![q] = Tail(@)]
      BY <1>1 DEF ReadOutput, wireVars
    <3>2. pc \notin {"write", "exit", "done"}
      BY <3>1 DEF Streams
    <3> QED
      BY <2>1, <3>1, <3>2, ToldAppend
  <2>3. ASSUME NEW s \in Streams
        PROVE  (Bodies(Told, TypeOf[s]) \o pipe[s])'
                 = [i \in 1 .. written[s] |-> i]
    <3> DEFINE B == Bodies(Told, TypeOf[s])
               Bn == Bodies(Append(Told, m), TypeOf[s])
    <3>1. B \o pipe[s] = [i \in 1 .. written[s] |-> i]
      BY DEF OutputConserved
    <3>2. Bn = IF m.type = TypeOf[s] THEN Append(B, m.body) ELSE B
      BY <1>0, <2>1, BodiesAppend, ZenonT(60)
    <3>3. CASE s = q
      <4>1. Bn = Append(B, Head(pipe[s])) /\ pipe'[s] = Tail(pipe[s])
        BY <1>0, <2>1, <2>2, <3>2, <3>3
      <4>2. B \in Seq(Nat) /\ pipe[s] \in Seq(Nat) /\ pipe[s] # <<>>
        BY <1>0, <2>2, <3>3
      <4>3. Append(B, Head(pipe[s])) \o Tail(pipe[s]) = B \o pipe[s]
        BY <4>2, HeadMoves
      <4> QED
        BY <2>2, <3>1, <4>1, <4>3
    <3>4. CASE s # q
      <4>1. Bn = B
        BY <2>1, <3>2, <3>4 DEF TypeOf, Streams
      <4>2. pipe'[s] = pipe[s]
        BY <1>0, <2>2, <3>4
      <4> QED
        BY <2>2, <3>1, <4>1, <4>2
    <3> QED
      BY <3>3, <3>4
  <2> QED
    BY <2>2, <2>3 DEF OutputConserved
<1>2. CASE Reap
  <2> DEFINE m == Msg("Status", code)
  <2>1. m \in Message /\ m.type = "Status"
    BY <1>2, MsgType, StatusesAreNats DEF TypeInv, CodeKnown, Reap, Types, Msg
  <2>2. Told' = Append(Told, m) /\ UNCHANGED <<pipe, written>>
    BY <1>2, <2>1, ToldAppend DEF Reap, wireVars
  <2>3. \A s \in Streams : Bodies(Append(Told, m), TypeOf[s]) = Bodies(Told, TypeOf[s])
    BY <1>0, <2>1, BodiesAppend DEF TypeOf, Streams
  <2> QED
    BY <2>2, <2>3 DEF OutputConserved
<1>3. ASSUME NEW d \in {1, 2}, ProgramWrites(d) PROVE OutputConserved'
  <2> DEFINE q == StreamBehind(d)
  <2>1. q \in Streams
    BY DEF StreamBehind, Streams
  <2>2. /\ written' = [written EXCEPT ![q] = @ + 1]
        /\ pipe' = [pipe EXCEPT ![q] = Append(@, written[q] + 1)]
    BY <1>3 DEF ProgramWrites
  <2>3. Told' = Told
    BY <1>3, ToldSame DEF ProgramWrites, wireVars, serverVars
  <2>4. ASSUME NEW s \in Streams
        PROVE  Bodies(Told, TypeOf[s]) \o pipe'[s] = [i \in 1 .. written'[s] |-> i]
    <3> DEFINE B == Bodies(Told, TypeOf[s])
    <3>1. B \o pipe[s] = [i \in 1 .. written[s] |-> i]
      BY DEF OutputConserved
    <3>2. CASE s = q
      <4>1. pipe'[s] = Append(pipe[s], written[s] + 1) /\ written'[s] = written[s] + 1
        BY <1>0, <2>1, <2>2, <3>2
      <4>2. B \in Seq(Nat) /\ pipe[s] \in Seq(Nat) /\ written[s] \in Nat
        BY <1>0
      <4>3. B \o Append(pipe[s], written[s] + 1) = Append(B \o pipe[s], written[s] + 1)
        <5> HIDE DEF B
        <5> QED
          BY <4>2, SMTT(60)
      <4>4. Append([i \in 1 .. written[s] |-> i], written[s] + 1)
              = [i \in 1 .. written[s] + 1 |-> i]
        BY <4>2, CountingAppend
      <4> QED
        BY <3>1, <4>1, <4>3, <4>4
    <3>3. CASE s # q
      BY <1>0, <2>2, <3>1, <3>3
    <3> QED
      BY <3>2, <3>3
  <2> QED
    BY <2>3, <2>4 DEF OutputConserved
<1>4. ASSUME ~Reap, \A s \in Streams : ~ReadOutput(s), \A d \in {1, 2} : ~ProgramWrites(d)
      PROVE  OutputConserved'
  <2>1. Told' = Told
    BY <1>4, ToldKept
  <2>2. UNCHANGED <<pipe, written>>
    <3>1. CASE QuietStep
      BY <3>1, QuietControl DEF progVars
    <3>2. CASE ~QuietStep
      BY <1>4, <3>2 DEF SessionMoves, SessionSide, ServerStep, ProgramStep, QuietStep,
         ChildMain, WriteRemote, ReadRemote, ExecuteFork, ExecuteWinsize,
         ExecuteStdin, Exit, ProgramReads, ProgramCloses, ProgramExits, ClientMay,
         Killed, progVars
    <3> QED
      BY <3>1, <3>2
  <2> QED
    BY <2>1, <2>2 DEF OutputConserved
<1> QED
  BY <1>1, <1>2, <1>3, <1>4

\* Input: what the program has read, what waits in its standard input, and
\* what the session and the socket still hold, is what the client sent.
StdinInv ==
  (consumed \o inPipe) \o Bodies(Asked, "StdIn") = Bodies(sent, "StdIn")

LEMMA StdinInit == SessionInit => StdinInv
<1> SUFFICES ASSUME SessionInit PROVE StdinInv
  OBVIOUS
<1>1. <<>> \o <<>> = <<>>
  BY EmptyType, ConcatEmptySeq
<1> QED
  BY <1>1, BodiesEmpty DEF SessionInit, WireInit, ServerInit, ProgInit, Asked, StdinInv

LEMMA StdinParts == ASSUME TypeInv, StdinInv PROVE StdinConserved
<1> DEFINE B == Bodies(inbox, "StdIn")
           C == Bodies(c2s, "StdIn")
           A == consumed \o inPipe
<1>1. A \in Seq(Nat) /\ B \in Seq(Nat) /\ C \in Seq(Nat)
  BY AskedType, BodiesType, ConcatType DEF TypeInv, TypeOK, ProgTypeOK
<1>2. Bodies(Asked, "StdIn") = B \o C
  BY AskedType, BodiesConcat DEF Asked
<1>3. A \o (B \o C) = (A \o B) \o C
  <2>1. \A a, b, c \in Seq(Nat) : a \o (b \o c) = (a \o b) \o c
    BY SMTT(60)
  <2> QED
    BY <1>1, <2>1, ZenonT(60)
<1> QED
  BY <1>2, <1>3 DEF StdinInv, StdinConserved

\* Only the client sends.
LEMMA SentKept == ASSUME TypeInv, SessionMoves, ~ClientMay PROVE sent' = sent
<1>1. CASE QuietStep
  BY <1>1, QuietControl DEF wireVars
<1>2. CASE ~QuietStep
  BY <1>2 DEF SessionMoves, SessionSide, ServerStep, ProgramStep, QuietStep, ChildMain,
     ServerAccept, Reap, WriteRemote, ServerSend, ReadRemote, ServerRecv, ExecuteFork,
     ExecuteWinsize, ExecuteStdin, ReadOutput, Exit, ServerClose, ProgramWrites,
     ProgramReads, ProgramCloses, ProgramExits, ProgramStops, Killed, wireVars
<1> QED
  BY <1>1, <1>2

LEMMA StdinStep ==
  ASSUME TypeInv, BufferInv, StdinInv, SessionMoves PROVE StdinInv'
<1> DEFINE B == Bodies(Asked, "StdIn")
<1>0. /\ consumed \in Seq(Nat) /\ inPipe \in Seq(Nat)
      /\ Asked \in Seq(Message) /\ B \in Seq(Nat)
      /\ sent \in Seq(Message) /\ Bodies(sent, "StdIn") \in Seq(Nat)
  BY AskedType, BodiesType DEF TypeInv, TypeOK, ProgTypeOK, WireTypeOK
<1>1. ASSUME NEW m \in Message, ClientSend(m), UNCHANGED <<inbox, consumed, inPipe>>
      PROVE  StdinInv'
  <2> DEFINE A == consumed \o inPipe
             C == Bodies(sent, "StdIn")
  <2>1. Asked' = Append(Asked, m) /\ sent' = Append(sent, m)
    BY <1>1, AskedMore DEF ClientSend
  <2>2. /\ Bodies(Append(Asked, m), "StdIn")
             = IF m.type = "StdIn" THEN Append(B, m.body) ELSE B
        /\ Bodies(Append(sent, m), "StdIn")
             = IF m.type = "StdIn" THEN Append(C, m.body) ELSE C
    BY <1>0, BodiesAppend
  <2>3. A \in Seq(Nat) /\ m.body \in Nat /\ A \o B = C
    BY <1>0, ConcatType DEF StdinInv, Message
  <2>4. A \o Append(B, m.body) = Append(A \o B, m.body)
    <3>1. \A a, b \in Seq(Nat), e \in Nat : a \o Append(b, e) = Append(a \o b, e)
      OBVIOUS
    <3> QED
      BY <1>0, <2>3, <3>1, Zenon
  <2> QED
    BY <1>1, <2>1, <2>2, <2>3, <2>4 DEF StdinInv
<1>2. CASE ExecuteStdin
  <2> DEFINE b == inbox[1].body
             R == Bodies(Tail(Asked), "StdIn")
  <2>1. /\ Asked # <<>> /\ Asked[1] = inbox[1] /\ Asked' = Tail(Asked)
        /\ inbox[1].type = "StdIn" /\ inPipe' = Append(inPipe, b)
        /\ UNCHANGED <<consumed, sent>> /\ b \in Nat
    BY <1>2, AskedTaken, HeadType DEF ExecuteStdin, Executing, wireVars
  <2>2. B = <<b>> \o R /\ R \in Seq(Nat)
    BY <1>0, <2>1, BodiesTail, BodiesType, TailType
  <2>3. (consumed \o inPipe) \o (<<b>> \o R) = (consumed \o Append(inPipe, b)) \o R
    <3>1. \A a, d, c \in Seq(Nat), e \in Nat :
            (a \o d) \o (<<e>> \o c) = (a \o Append(d, e)) \o c
      BY UnitMoves, SMTT(60)
    <3>2. consumed \in Seq(Nat) /\ inPipe \in Seq(Nat) /\ R \in Seq(Nat) /\ b \in Nat
      BY <1>0, <2>1, <2>2
    <3> QED
      BY <3>1, <3>2, ZenonT(60)
  <2> QED
    BY <2>1, <2>2, <2>3 DEF StdinInv
<1>3. CASE ExecuteFork \/ ExecuteWinsize
  <2>1. /\ Asked # <<>> /\ Asked[1] = inbox[1] /\ Asked' = Tail(Asked)
        /\ inbox[1].type # "StdIn" /\ UNCHANGED <<inPipe, consumed, sent>>
    BY <1>3, AskedTaken DEF ExecuteFork, ExecuteWinsize, Executing, ForkTypes, wireVars
  <2>2. B = Bodies(Tail(Asked), "StdIn")
    BY <1>0, <2>1, BodiesTail
  <2> QED
    BY <2>1, <2>2 DEF StdinInv
<1>4. CASE ProgramReads
  <2>1. /\ UNCHANGED <<inbox, c2s, sent>> /\ inPipe # <<>>
        /\ consumed' = Append(consumed, Head(inPipe)) /\ inPipe' = Tail(inPipe)
    BY <1>4 DEF ProgramReads, wireVars, serverVars
  <2>2. consumed' \o inPipe' = consumed \o inPipe
    BY <1>0, <2>1, HeadMoves
  <2> QED
    BY <2>1, <2>2 DEF StdinInv, Asked
<1>5. ASSUME ~(ExecuteFork \/ ExecuteWinsize \/ ExecuteStdin), ~ProgramReads,
             \A m \in Message : ~ClientSend(m)
      PROVE  StdinInv'
  <2>1. Asked' = Asked /\ sent' = sent
    BY <1>5, AskedSame
  <2>2. UNCHANGED <<consumed, inPipe>>
    <3>1. CASE QuietStep
      BY <3>1, QuietControl DEF progVars
    <3>2. CASE ~QuietStep
      BY <1>5, <3>2 DEF SessionMoves, SessionSide, ServerStep, ProgramStep, QuietStep,
         ChildMain, Reap, WriteRemote, ReadRemote, ReadOutput, Exit, ProgramWrites,
         ProgramCloses, ProgramExits, ClientMay, Killed, progVars
    <3> QED
      BY <3>1, <3>2
  <2> QED
    BY <2>1, <2>2 DEF StdinInv
<1>6. ASSUME NEW m \in Message, ClientSend(m) PROVE UNCHANGED <<inbox, consumed, inPipe>>
  <2>1. CASE ClientMay
    BY <2>1 DEF ClientMay, serverVars, progVars
  <2>2. CASE ~ClientMay
    <3>1. sent' = sent
      BY <2>2, SentKept
    <3>2. Append(sent, m) # sent
      BY <1>0
    <3> QED
      BY <1>6, <3>1, <3>2 DEF ClientSend
  <2> QED
    BY <2>1, <2>2
<1> QED
  BY <1>1, <1>2, <1>3, <1>4, <1>5, <1>6
=============================================================================
