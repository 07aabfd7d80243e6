---------------------------- MODULE Session_proofs ----------------------------
(***************************************************************************)
(* Theorems about the jail client and the session that serves it: what the *)
(* user sees of a program, whatever the capacities, the amount typed and   *)
(* written, the signals, the resizes and the wait status.                  *)
(***************************************************************************)
EXTENDS Session, SessionLemmas

-----------------------------------------------------------------------------
(***************************************************************************)
(* Who moves.  A step is one of the client and its user, or one of the     *)
(* session, its program and the kernel.                                    *)
(***************************************************************************)
ClientTurn == ClientSide /\ UNCHANGED <<serverVars, progVars>>
SessionTurn ==
  /\ SessionSide \/ Killed \/ UNCHANGED sessionVars
  /\ UNCHANGED <<clientVars, userVars>>

LEMMA Turns == ASSUME [Next]_vars PROVE ClientTurn \/ SessionTurn
<1>1. CASE ServerMoves
  BY <1>1 DEF ServerMoves, BesideServer, SessionTurn
<1>2. CASE ClientMoves
  BY <1>2 DEF ClientMoves, BesideClient, ClientTurn
<1>3. CASE ContainerDies
  BY <1>3 DEF ContainerDies, SessionTurn, Killed
<1>4. CASE Finished \/ UNCHANGED vars
  BY <1>4 DEF Finished, vars, SessionTurn
<1> QED
  BY <1>1, <1>2, <1>3, <1>4 DEF Next

\* What the client is about to write is a message, and what it holds to write
\* or to dispatch it holds nowhere else.
HoldsInv ==
  /\ cpc = "winch" =>
       /\ Len(cout) = 1 /\ cout[1].type = "Winsize"
       /\ cwinch /\ stdinKind = "tty"
  /\ cpc = "send" => Len(cout) = 1 /\ cout[1].type = "StdIn"
  /\ cpc \notin {"winch", "send", "exit", "gone"} => cout = <<>>
  /\ cbuf # <<>> => cpc \in {"dispatch", "exit", "gone"}

ClientInv == ClientTypeOK /\ HoldsInv

LEMMA ClientInit2 == Init => ClientInv
<1> SUFFICES ASSUME Init PROVE ClientInv
  OBVIOUS
<1>1. shown \in [{"StdOut", "StdErr"} -> Seq(Nat)]
  BY EmptyType DEF Init, UserInit
<1>2. cbuf \in Seq(Message) /\ cout \in Seq(Message) /\ Len(cout) <= 1 /\ typing \in Seq(Nat)
  BY EmptyType DEF Init, ClientInit, UserInit
<1>3. HoldsInv
  BY DEF Init, ClientInit, HoldsInv
<1>4. /\ cpc \in ClientPlaces /\ stdinKind \in StdinKinds
      /\ termios \in {"cooked", "raw"} /\ hook \in BOOLEAN
      /\ cfds \subseteq {"remote", "stdin"}
      /\ cterm \in BOOLEAN /\ cwinch \in BOOLEAN
      /\ cpending \subseteq {"TERM", "WINCH"}
  BY DEF Init, ClientInit, ClientPlaces
<1>5. cstatus \in Nat \cup {-1} /\ exitCode \in -1 .. 255
  BY DEF Init, ClientInit
<1>6. typed \in Nat /\ typingEnds \in BOOLEAN /\ termSize \in Nat
  BY DEF Init, UserInit
<1> QED
  BY <1>1, <1>2, <1>3, <1>4, <1>5, <1>6 DEF ClientInv, ClientTypeOK

\* The messages a client writes.
LEMMA Requests ==
  ASSUME ClientInv
  PROVE  /\ RequestOf(stdinKind) \in Message
         /\ Msg("Winsize", termSize) \in Message
         /\ cpc \in {"winch", "send"} => cout[1] \in Message
<1>1. termSize \in Nat /\ 0 \in Nat
  BY DEF ClientInv, ClientTypeOK
<1>2. {"ForkTty", "ForkPipe", "ForkSocket", "Winsize"} \subseteq Types
  BY DEF Types, ForkTypes
<1>3. \A t \in Types, n \in Nat : Msg(t, n) \in Message
  BY MsgType DEF Msg
<1>4. RequestOf(stdinKind) \in Message
  BY <1>1, <1>2, <1>3 DEF RequestOf
<1>5. cpc \in {"winch", "send"} => cout[1] \in Message
  <2> SUFFICES ASSUME cpc \in {"winch", "send"} PROVE cout[1] \in Message
    OBVIOUS
  <2>1. cout \in Seq(Message) /\ Len(cout) = 1
    BY DEF ClientInv, ClientTypeOK, HoldsInv
  <2> QED
    BY <2>1, TailType, EmptyType
<1> QED
  BY <1>1, <1>2, <1>3, <1>4, <1>5

\* The jail client does to the socket what a client may do.
LEMMA ClientTurnMay == ASSUME ClientInv, ClientTurn PROVE ClientMay
<1>1. \/ Connect \/ ClientClose
      \/ \E m \in Message : ClientSend(m)
      \/ \E k \in 1 .. Len(s2c) : ClientRecv(k)
      \/ UNCHANGED wireVars
  <2>1. CASE Request \/ SendWinsize \/ SendInput
    BY <2>1, Requests DEF Request, SendWinsize, SendInput, At
  <2>2. CASE Start \/ ReadSession \/ ExitClient
    BY <2>2 DEF Start, ReadSession, ExitClient
  <2>3. CASE ClientDeliver \/ UserStep
    BY <2>3 DEF ClientDeliver, UserStep, UserTypes, UserEndsInput, UserResizes,
                UserTerminates
  <2>4. CASE ClientStep /\ ~(Request \/ SendWinsize \/ SendInput)
             /\ ~(Start \/ ReadSession \/ ExitClient)
    BY <2>4 DEF ClientStep, Initialize, MakeRaw, RequestFails, LoopHead, SendFails,
       Scan, Wake, TimeOut, SessionEndsFirst, SessionDone, DispatchOutput,
       DispatchFails, DispatchStatus, ReadInput, InputEnds, InputIdle
  <2> QED
    BY <2>1, <2>2, <2>3, <2>4 DEF ClientTurn, ClientSide
<1> QED
  BY <1>1 DEF ClientMay, ClientTurn

LEMMA JointMoves == ASSUME ClientInv, [Next]_vars PROVE SessionMoves
<1>1. ClientTurn => SessionMoves
  BY ClientTurnMay DEF SessionMoves
<1>2. SessionTurn => SessionMoves
  BY DEF SessionTurn, SessionMoves, ClientMay, sessionVars
<1> QED
  BY <1>1, <1>2, Turns

-----------------------------------------------------------------------------
(***************************************************************************)
(* The client's own variables.                                             *)
(***************************************************************************)
LEMMA ExitCodeType == \A c \in Nat \cup {-1} : ExitCodeOf(c) \in 0 .. 255
  BY DEF ExitCodeOf

\* The steps of the client that neither read nor write a message.
PlainStep ==
  \/ Initialize \/ MakeRaw \/ Start \/ Request \/ RequestFails
  \/ SendWinsize \/ SendFails \/ SendInput
  \/ Scan \/ Wake \/ TimeOut \/ SessionEndsFirst \/ SessionDone
  \/ DispatchFails \/ InputEnds \/ InputIdle
  \/ ClientDeliver \/ UserEndsInput \/ UserResizes \/ UserTerminates

LEMMA ClientCases ==
  ASSUME ClientTurn
  PROVE  \/ PlainStep \/ ExitClient
         \/ LoopHead \/ ReadSession \/ DispatchOutput \/ DispatchStatus
         \/ ReadInput \/ UserTypes
  BY DEF ClientTurn, ClientSide, ClientStep, UserStep, PlainStep

LEMMA PlainKeeps ==
  ASSUME PlainStep
  PROVE  /\ cpc' \in ClientPlaces \/ cpc' = cpc
         /\ termios' = termios \/ termios' = "raw"
         /\ hook' = hook \/ hook' = TRUE
         /\ cfds' = cfds \/ cfds' = ClientReady \/ cfds' = {} \/ cfds' = {"remote", "stdin"}
         /\ cout' = cout \/ cout' = <<>>
         /\ cterm' = cterm \/ cterm' \in BOOLEAN
         /\ cwinch' = cwinch \/ cwinch' \in BOOLEAN
         /\ \/ cpending' = cpending \/ cpending' = {}
            \/ cpending' = cpending \cup {"WINCH"} \/ cpending' = cpending \cup {"TERM"}
         /\ exitCode' = exitCode \/ exitCode' = 255
         /\ typingEnds' = typingEnds \/ typingEnds' = TRUE
         /\ termSize' = termSize \/ termSize' = termSize + 1
         /\ UNCHANGED <<stdinKind, cbuf, cstatus, typing, typed, shown>>
<1> USE DEF At, GoTo, Return, ClientPlaces
<1>1. CASE Initialize \/ MakeRaw \/ Start
  BY <1>1 DEF Initialize, MakeRaw, Start, userVars
<1>2. CASE Request \/ RequestFails \/ SendWinsize \/ SendFails \/ SendInput
  BY <1>2 DEF Request, RequestFails, SendWinsize, SendFails, SendInput, userVars
<1>3. CASE Scan \/ Wake \/ TimeOut
  BY <1>3 DEF Scan, Wake, TimeOut, userVars
<1>4. CASE SessionEndsFirst \/ SessionDone \/ DispatchFails \/ InputEnds \/ InputIdle
  BY <1>4 DEF SessionEndsFirst, SessionDone, DispatchFails, InputEnds, InputIdle, userVars
<1>5. CASE ClientDeliver
  BY <1>5 DEF ClientDeliver, ClientAfterInterrupt, userVars
<1>6. CASE UserEndsInput \/ UserResizes \/ UserTerminates
  BY <1>6 DEF UserEndsInput, UserResizes, UserTerminates, clientVars, userVars
<1> QED
  BY <1>1, <1>2, <1>3, <1>4, <1>5, <1>6 DEF PlainStep

LEMMA HoldsStep ==
  ASSUME ClientInv, ClientTurn PROVE HoldsInv'
<1> USE DEF At, GoTo, Return, ClientInv, HoldsInv
<1>1. CASE Initialize \/ MakeRaw \/ Start \/ Request \/ RequestFails
  BY <1>1 DEF Initialize, MakeRaw, Start, Request, RequestFails
<1>2. CASE SendWinsize \/ SendFails \/ SendInput
  BY <1>2 DEF SendWinsize, SendFails, SendInput
<1>3. CASE Scan \/ Wake \/ TimeOut
  BY <1>3 DEF Scan, Wake, TimeOut
<1>4. CASE SessionEndsFirst \/ SessionDone \/ DispatchFails \/ InputEnds \/ InputIdle
  BY <1>4 DEF SessionEndsFirst, SessionDone, DispatchFails, InputEnds, InputIdle
<1>5. CASE ClientDeliver
  BY <1>5 DEF ClientDeliver, ClientAfterInterrupt, ClientUnblocked
<1>6. CASE UserEndsInput \/ UserResizes \/ UserTerminates \/ UserTypes
  BY <1>6 DEF UserEndsInput, UserResizes, UserTerminates, UserTypes, clientVars
<1>7. CASE LoopHead
  <2>1. Len(<<Msg("Winsize", termSize)>>) = 1 /\ <<Msg("Winsize", termSize)>>[1].type = "Winsize"
    BY DEF Msg
  <2> QED
    BY <1>7, <2>1 DEF LoopHead
<1>8. CASE ReadInput
  <2>1. LET o == <<Msg("StdIn", Head(typing))>> IN Len(o) = 1 /\ o[1].type = "StdIn"
    BY DEF Msg
  <2> QED
    BY <1>8, <2>1 DEF ReadInput
<1>9. CASE ReadSession \/ DispatchOutput \/ DispatchStatus
  BY <1>9 DEF ReadSession, DispatchOutput, DispatchStatus
<1>10. CASE ExitClient
  BY <1>10 DEF ExitClient
<1> QED
  BY <1>1, <1>2, <1>3, <1>4, <1>5, <1>6, <1>7, <1>8, <1>9, <1>10, ClientCases
     DEF PlainStep

LEMMA ClientInvStep ==
  ASSUME TypeInv, ClientInv, ClientTurn \/ SessionTurn PROVE ClientInv'
<1>1. CASE SessionTurn
  BY <1>1 DEF SessionTurn, clientVars, userVars, ClientInv, ClientTypeOK, HoldsInv
<1>2. CASE ClientTurn
  <2>0. HoldsInv'
    BY <1>2, HoldsStep
  <2>a. exitCode \in -1 .. 255 /\ termSize \in Nat /\ cstatus \in Nat \cup {-1}
    BY DEF ClientInv, ClientTypeOK
  <2>b. cout \in Seq(Message) /\ Len(cout) <= 1
    BY DEF ClientInv, ClientTypeOK
  <2>1. CASE PlainStep
    <3>1. ClientReady \subseteq {"remote", "stdin"}
      BY DEF ClientReady
    <3>2. cout' = cout \/ cout' = <<>>
      BY <2>1, PlainKeeps
    <3>3. cout' \in Seq(Message) /\ Len(cout') <= 1
      <4>1. <<>> \in Seq(Message) /\ Len(<<>>) <= 1
        BY EmptyType
      <4> QED
        BY <2>b, <3>2, <4>1, Zenon
    <3>4. /\ exitCode' = exitCode \/ exitCode' = 255
          /\ termSize' = termSize \/ termSize' = termSize + 1
      BY <2>1, PlainKeeps
    <3>5. exitCode' \in -1 .. 255 /\ termSize' \in Nat
      BY <2>a, <3>4
    <3>6. /\ cpc' \in ClientPlaces /\ cfds' \subseteq {"remote", "stdin"}
          /\ termios' \in {"cooked", "raw"} /\ cpending' \subseteq {"TERM", "WINCH"}
      <4>1. /\ cpc' \in ClientPlaces \/ cpc' = cpc
            /\ termios' = termios \/ termios' = "raw"
            /\ cfds' = cfds \/ cfds' = ClientReady \/ cfds' = {} \/ cfds' = {"remote", "stdin"}
            /\ \/ cpending' = cpending \/ cpending' = {}
               \/ cpending' = cpending \cup {"WINCH"} \/ cpending' = cpending \cup {"TERM"}
        BY <2>1, PlainKeeps
      <4>2. /\ cpc \in ClientPlaces /\ cfds \subseteq {"remote", "stdin"}
            /\ termios \in {"cooked", "raw"} /\ cpending \subseteq {"TERM", "WINCH"}
        BY DEF ClientInv, ClientTypeOK
      <4> QED
        BY <3>1, <4>1, <4>2
    <3>8. /\ hook' \in BOOLEAN /\ cterm' \in BOOLEAN /\ cwinch' \in BOOLEAN
          /\ typingEnds' \in BOOLEAN
      <4>1. /\ hook' = hook \/ hook' = TRUE
            /\ cterm' = cterm \/ cterm' \in BOOLEAN
            /\ cwinch' = cwinch \/ cwinch' \in BOOLEAN
            /\ typingEnds' = typingEnds \/ typingEnds' = TRUE
        BY <2>1, PlainKeeps
      <4>2. /\ hook \in BOOLEAN /\ cterm \in BOOLEAN /\ cwinch \in BOOLEAN
            /\ typingEnds \in BOOLEAN
        BY DEF ClientInv, ClientTypeOK
      <4> QED
        BY <4>1, <4>2
    <3>7. UNCHANGED <<stdinKind, cbuf, cstatus, typing, typed, shown>>
      BY <2>1, PlainKeeps
    <3> QED
      BY <2>0, <3>3, <3>5, <3>6, <3>7, <3>8 DEF ClientInv, ClientTypeOK
  <2>2. CASE ExitClient
    BY <2>0, <2>2 DEF ClientInv, ClientTypeOK, ExitClient, userVars, ClientPlaces
  <2>3. CASE LoopHead
    <3>1. cout' \in Seq(Message) /\ Len(cout') <= 1
      BY <2>3, Requests, OneType, EmptyType DEF LoopHead
    <3>2. ExitCodeOf(cstatus) \in -1 .. 255
      <4>1. ExitCodeOf(cstatus) \in 0 .. 255
        BY <2>a, ExitCodeType
      <4> QED
        BY <4>1
    <3>3. exitCode' \in {exitCode, 255, ExitCodeOf(cstatus)} /\ cpc' \in ClientPlaces
      BY <2>3 DEF LoopHead, Return, GoTo, ClientPlaces
    <3>4. exitCode' \in -1 .. 255
      BY <2>a, <3>2, <3>3
    <3> QED
      BY <2>0, <2>3, <3>1, <3>3, <3>4 DEF ClientInv, ClientTypeOK, LoopHead, userVars
  <2>4. CASE ReadSession
    <3>1. cbuf' \in Seq(Message)
      BY <2>4, PartType DEF ClientInv, ClientTypeOK, ReadSession, TypeInv, TypeOK, WireTypeOK
    <3> QED
      BY <2>0, <2>4, <3>1 DEF ClientInv, ClientTypeOK, ReadSession, GoTo, userVars, ClientPlaces
  <2>5. CASE DispatchOutput
    <3>1. cbuf' \in Seq(Message) /\ cbuf[1] \in Message
      BY <2>5, TailType DEF ClientInv, ClientTypeOK, DispatchOutput
    <3>2. cbuf[1].body \in Nat /\ cbuf[1].type \in {"StdOut", "StdErr"}
      BY <2>5, <3>1 DEF DispatchOutput, Message
    <3>3. \A q \in Seq(Nat) : Append(q, cbuf[1].body) \in Seq(Nat)
      BY <3>2, AppendType
    <3>4. shown' \in [{"StdOut", "StdErr"} -> Seq(Nat)]
      BY <2>5, <3>2, <3>3 DEF ClientInv, ClientTypeOK, DispatchOutput, FileOf
    <3> QED
      BY <2>0, <2>5, <3>1, <3>4 DEF ClientInv, ClientTypeOK, DispatchOutput
  <2>6. CASE DispatchStatus
    <3>1. cbuf' \in Seq(Message) /\ cbuf[1] \in Message
      BY <2>6, TailType DEF ClientInv, ClientTypeOK, DispatchStatus
    <3>2. cstatus' \in Nat
      BY <2>6, <3>1 DEF DispatchStatus, Message
    <3> QED
      BY <2>0, <2>6, <3>1, <3>2 DEF ClientInv, ClientTypeOK, DispatchStatus, LeavesAfterStatus, userVars
  <2>7. CASE ReadInput
    <3>1. typing' \in Seq(Nat) /\ Head(typing) \in Nat
      BY <2>7, TailType DEF ClientInv, ClientTypeOK, ReadInput
    <3>2. Msg("StdIn", Head(typing)) \in Message
      BY <3>1, MsgType DEF Types
    <3>3. cout' \in Seq(Message) /\ Len(cout') <= 1
      BY <2>7, <3>2, OneType DEF ReadInput
    <3> QED
      BY <2>0, <2>7, <3>1, <3>3 DEF ClientInv, ClientTypeOK, ReadInput, GoTo, ClientPlaces
  <2>8. CASE UserTypes
    <3>1. typed' \in Nat
      BY <2>8 DEF ClientInv, ClientTypeOK, UserTypes
    <3>2. typing' \in Seq(Nat)
      BY <2>8, <3>1, AppendType DEF ClientInv, ClientTypeOK, UserTypes
    <3> QED
      BY <2>0, <2>8, <3>1, <3>2 DEF ClientInv, ClientTypeOK, UserTypes, clientVars
  <2> QED
    BY <1>2, <2>1, <2>2, <2>3, <2>4, <2>5, <2>6, <2>7, <2>8, ClientCases
<1> QED
  BY <1>1, <1>2

-----------------------------------------------------------------------------
LEMMA JointTypes == Spec => [](TypeInv /\ ClientInv)
<1>1. Init => TypeInv /\ ClientInv
  BY TypeInit, ClientInit2 DEF Init, SessionInit
<1>2. TypeInv /\ ClientInv /\ [Next]_vars => (TypeInv /\ ClientInv)'
  BY JointMoves, TypeStep, Turns, ClientInvStep
<1> QED
  BY <1>1, <1>2, PTL DEF Spec

\* The variables of client and session keep their types; what either writes to
\* the other is a message of the protocol, and none of their buffers ever holds
\* anything else (message.h, jail.c:205-286, child.c:759-832).
THEOREM JointTypesHold == Spec => []SessionTypeOK
<1>1. TypeInv /\ ClientInv => SessionTypeOK
  BY DEF TypeInv, ClientInv, SessionTypeOK
<1> QED
  BY <1>1, JointTypes, PTL

-----------------------------------------------------------------------------
(***************************************************************************)
(* The terminal, and what the client returns.                              *)
(***************************************************************************)
TermInv ==
  /\ termios = "raw" \/ cpc = "raw" => hook = TRUE /\ stdinKind = "tty"
  /\ cpc = "gone" => termios = "cooked"

LEMMA TermStep ==
  ASSUME ClientInv, TermInv, ClientTurn \/ SessionTurn PROVE TermInv'
<1> USE DEF At, GoTo, Return, TermInv
<1>0. termios \in {"cooked", "raw"}
  BY DEF ClientInv, ClientTypeOK
<1>1. CASE SessionTurn
  BY <1>1 DEF SessionTurn, clientVars
<1>2. CASE Initialize \/ MakeRaw
  BY <1>2 DEF Initialize, MakeRaw
<1>3. CASE ExitClient
  BY <1>0, <1>3 DEF ExitClient, RestoresTerminal
<1>4. CASE Start \/ Request \/ RequestFails \/ LoopHead
  BY <1>4 DEF Start, Request, RequestFails, LoopHead
<1>5. CASE SendWinsize \/ SendFails \/ SendInput \/ Scan \/ Wake \/ TimeOut
  BY <1>5 DEF SendWinsize, SendFails, SendInput, Scan, Wake, TimeOut
<1>6. CASE \/ SessionEndsFirst \/ SessionDone \/ DispatchFails \/ InputEnds
           \/ InputIdle \/ ReadInput
  BY <1>6 DEF SessionEndsFirst, SessionDone, DispatchFails, InputEnds, InputIdle, ReadInput
<1>7. CASE ReadSession \/ DispatchOutput \/ DispatchStatus \/ ClientDeliver
  BY <1>7 DEF ReadSession, DispatchOutput, DispatchStatus, ClientDeliver,
              ClientAfterInterrupt
<1>8. CASE UserStep
  BY <1>8 DEF UserStep, UserTypes, UserEndsInput, UserResizes, UserTerminates, clientVars
<1> QED
  BY <1>1, <1>2, <1>3, <1>4, <1>5, <1>6, <1>7, <1>8 DEF ClientTurn, ClientSide, ClientStep

\* Wherever the client was stopped, and whether or not it was given a session:
\* a terminal it had made raw is as it was before when the client is gone,
\* because the hook is registered before the terminal is touched (jail.c:419-424,
\* 524-530).
THEOREM TerminalIsRestored == Spec => []TerminalRestored
<1>1. Init => TermInv
  BY DEF Init, ClientInit, TermInv
<1>2. TypeInv /\ ClientInv /\ TermInv /\ [Next]_vars => TermInv'
  BY Turns, TermStep
<1>3. TermInv => TerminalRestored
  BY DEF TermInv, TerminalRestored
<1> QED
  BY <1>1, <1>2, <1>3, JointTypes, PTL DEF Spec

\* There is a result once the client has left its loop, and not before, and it
\* is a failure or what WIFEXITED and WEXITSTATUS make of the status it has.
ResultInv ==
  /\ exitCode = -1 <=> cpc \notin {"exit", "gone"}
  /\ exitCode \in {-1, 255, ExitCodeOf(cstatus)}

LEMMA ResultStep ==
  ASSUME ClientInv, ResultInv, ClientTurn \/ SessionTurn PROVE ResultInv'
<1> USE DEF At, GoTo, Return, ResultInv
<1>0. ExitCodeOf(cstatus) # -1 /\ 255 # -1
  <2>1. ExitCodeOf(cstatus) \in 0 .. 255
    BY ExitCodeType DEF ClientInv, ClientTypeOK
  <2> QED
    BY <2>1
<1>1. CASE SessionTurn
  BY <1>1 DEF SessionTurn, clientVars
<1>2. CASE Initialize \/ MakeRaw \/ Start \/ Request \/ RequestFails
  BY <1>0, <1>2 DEF Initialize, MakeRaw, Start, Request, RequestFails
<1>3. CASE ExitClient \/ LoopHead
  BY <1>0, <1>3 DEF ExitClient, LoopHead
<1>5. CASE SendWinsize \/ SendFails \/ SendInput \/ Scan \/ Wake \/ TimeOut
  BY <1>0, <1>5 DEF SendWinsize, SendFails, SendInput, Scan, Wake, TimeOut
<1>6. CASE \/ SessionEndsFirst \/ SessionDone \/ DispatchFails \/ InputEnds
           \/ InputIdle \/ ReadInput
  BY <1>0, <1>6
     DEF SessionEndsFirst, SessionDone, DispatchFails, InputEnds, InputIdle, ReadInput
<1>7. CASE ReadSession \/ DispatchOutput \/ ClientDeliver
  BY <1>0, <1>7 DEF ReadSession, DispatchOutput, ClientDeliver, ClientAfterInterrupt
<1>9. CASE DispatchStatus
  BY <1>0, <1>9 DEF DispatchStatus
<1>8. CASE UserStep
  BY <1>8 DEF UserStep, UserTypes, UserEndsInput, UserResizes, UserTerminates, clientVars
<1> QED
  BY <1>1, <1>2, <1>3, <1>5, <1>6, <1>7, <1>8, <1>9 DEF ClientTurn, ClientSide, ClientStep

-----------------------------------------------------------------------------
(***************************************************************************)
(* The status on its way.  What the client holds is the end of what it has *)
(* read, and so a status it dispatches is the last message of all.         *)
(***************************************************************************)
\* What a step of the session or the program leaves alone.
LEMMA SocketKept ==
  ASSUME TypeInv, SessionTurn
  PROVE  /\ UNCHANGED <<cliEnd, sent, got>>
         /\ srvEnd = "closed" => srvEnd' = "closed"
         /\ s2c # <<>> => s2c' # <<>>
<1>1. CASE QuietStep \/ UNCHANGED sessionVars
  BY <1>1, QuietControl DEF wireVars, sessionVars
<1>2. CASE ChildMain \/ Exit \/ Killed
  BY <1>2 DEF ChildMain, ServerAccept, Exit, Killed, ServerClose
<1>3. CASE WriteRemote
  <2>1. s2c' = Append(s2c, outbox[1])
    BY <1>3 DEF WriteRemote, ServerSend
  <2>2. s2c \in Seq(Message) /\ outbox[1] \in Message
    BY <1>3, TailType DEF WriteRemote, TypeInv, TypeOK, WireTypeOK, ServerTypeOK, Writing
  <2>3. Append(s2c, outbox[1]) # <<>>
    BY <2>2, AppendSome
  <2> QED
    BY <1>3, <2>1, <2>3 DEF WriteRemote, ServerSend
<1>4. CASE Reap \/ ReadRemote \/ ExecuteFork \/ ExecuteWinsize \/ ExecuteStdin
  BY <1>4 DEF Reap, ReadRemote, ServerRecv, ExecuteFork, ExecuteWinsize,
              ExecuteStdin, wireVars
<1>5. CASE (\E s \in Streams : ReadOutput(s)) \/ ProgramStep
  BY <1>5 DEF ReadOutput, ProgramStep, ProgramWrites, ProgramReads, ProgramCloses,
              ProgramExits, ProgramStops, wireVars
<1> QED
  BY <1>1, <1>2, <1>3, <1>4, <1>5
     DEF SessionTurn, SessionSide, ServerStep, QuietStep

SuffixInv ==
  /\ Len(cbuf) <= Len(got)
  /\ \A i \in 1 .. Len(cbuf) : cbuf[i] = got[Len(got) - Len(cbuf) + i]

LEMMA SuffixStep ==
  ASSUME TypeInv, ClientInv, SuffixInv, ClientTurn \/ SessionTurn PROVE SuffixInv'
<1>0. got \in Seq(Message) /\ s2c \in Seq(Message) /\ cbuf \in Seq(Message)
  BY DEF TypeInv, TypeOK, WireTypeOK, ClientInv, ClientTypeOK
<1>1. CASE UNCHANGED <<cbuf, got>>
  BY <1>1 DEF SuffixInv
<1>2. CASE SessionTurn
  BY <1>1, <1>2, SocketKept DEF SessionTurn, clientVars
<1>3. CASE ReadSession
  <2>1. PICK k \in 1 .. Len(s2c) :
          cbuf' = SubSeq(s2c, 1, k) /\ got' = got \o SubSeq(s2c, 1, k)
    BY <1>3 DEF ReadSession, ClientRecv
  <2> DEFINE q == SubSeq(s2c, 1, k)
  <2>2. q \in Seq(Message)
    BY <1>0, PartType
  <2>3. /\ Len(got \o q) = Len(got) + Len(q)
        /\ \A i \in 1 .. Len(q) : (got \o q)[Len(got) + i] = q[i]
        /\ Len(got) \in Nat /\ Len(q) \in Nat
    <3> HIDE DEF q
    <3> QED
      BY <1>0, <2>2
  <2>4. \A i \in 1 .. Len(q) : Len(got) + Len(q) - Len(q) + i = Len(got) + i
    BY <2>3
  <2>5. Len(q) <= Len(got) + Len(q)
    BY <2>3
  <2> HIDE DEF q
  <2>6. cbuf' = q /\ got' = got \o q
    BY <2>1 DEF q
  <2> QED
    BY <2>3, <2>4, <2>5, <2>6 DEF SuffixInv
<1>4. CASE DispatchOutput \/ DispatchStatus
  <2>1. cbuf # <<>> /\ cbuf' = Tail(cbuf) /\ got' = got
    BY <1>4 DEF DispatchOutput, DispatchStatus, wireVars
  <2>2. /\ Len(Tail(cbuf)) = Len(cbuf) - 1 /\ Len(cbuf) \in Nat /\ Len(got) \in Nat
        /\ \A i \in 1 .. Len(cbuf) - 1 : Tail(cbuf)[i] = cbuf[i + 1]
    BY <1>0, <2>1
  <2> QED
    BY <2>1, <2>2 DEF SuffixInv
<1>5. CASE PlainStep \/ LoopHead \/ ReadInput \/ UserTypes \/ ExitClient
  <2>1. cbuf' = cbuf
    BY <1>5, PlainKeeps DEF LoopHead, ReadInput, UserTypes, ExitClient, clientVars
  <2>2. got' = got
    <3>1. CASE Request \/ SendWinsize \/ SendInput
      BY <3>1 DEF Request, SendWinsize, SendInput, ClientSend
    <3>2. CASE Start \/ ExitClient
      BY <3>2 DEF Start, Connect, ExitClient, ClientClose, wireVars
    <3>3. CASE ~(Request \/ SendWinsize \/ SendInput) /\ ~(Start \/ ExitClient)
      BY <1>5, <3>3
         DEF PlainStep, Initialize, MakeRaw, RequestFails, LoopHead, SendFails, Scan, Wake,
             TimeOut, SessionEndsFirst, SessionDone, DispatchFails, ReadInput, InputEnds,
             InputIdle, ClientDeliver, UserEndsInput, UserResizes, UserTerminates,
             UserTypes, wireVars
    <3> QED
      BY <3>1, <3>2, <3>3
  <2> QED
    BY <1>1, <2>1, <2>2
<1> QED
  BY <1>2, <1>3, <1>4, <1>5, ClientCases

\* A status that the client dispatches is the last message, and tells what the
\* program died of.
LEMMA StatusTaken ==
  ASSUME TypeInv, ClientInv, StatusInv, SuffixInv,
         cbuf # <<>>, cbuf[1].type = "Status"
  PROVE  /\ Tail(cbuf) = <<>> /\ s2c = <<>>
         /\ prog = "reaped" /\ cbuf[1].body = code /\ code \in Statuses
<1>0. /\ got \in Seq(Message) /\ s2c \in Seq(Message) /\ cbuf \in Seq(Message)
      /\ outbox \in Seq(Message) /\ code \in Statuses \cup {-1}
  BY DEF TypeInv, TypeOK, WireTypeOK, ServerTypeOK, ProgTypeOK, ClientInv, ClientTypeOK
<1>1. /\ Len(cbuf) \in Nat /\ Len(cbuf) >= 1 /\ Len(got) \in Nat
      /\ Len(s2c) \in Nat /\ Len(outbox) \in Nat
  BY <1>0, EmptySeq
<1> DEFINE n == Len(got) - Len(cbuf) + 1
<1>2. n \in 1 .. Len(got) /\ got[n] = cbuf[1]
  BY <1>1 DEF SuffixInv
<1>3. /\ Len(Told) = Len(got) + Len(s2c) + Len(outbox)
      /\ \A i \in 1 .. Len(got) : Told[i] = got[i]
  BY <1>0 DEF Told
<1>4. n \in 1 .. Len(Told) /\ Told[n] = cbuf[1]
  BY <1>1, <1>2, <1>3
<1>5. n = Len(Told) /\ prog = "reaped" /\ cbuf[1].body = code
  BY <1>4 DEF StatusInv, StatusIsLast
<1>6. Len(cbuf) = 1 /\ Len(s2c) = 0
  <2>1. Len(got) - Len(cbuf) + 1 = Len(got) + Len(s2c) + Len(outbox)
    BY <1>3, <1>5
  <2>2. \A g, c, s, o \in Nat :
          c >= 1 /\ g - c + 1 = g + s + o => c = 1 /\ s = 0
    OBVIOUS
  <2> QED
    BY <1>1, <2>1, <2>2
<1>7. Tail(cbuf) = <<>> /\ s2c = <<>>
  <2>1. Len(Tail(cbuf)) = 0 /\ Tail(cbuf) \in Seq(Message)
    BY <1>0, <1>6
  <2> QED
    BY <1>0, <1>6, <2>1, EmptySeq
<1>8. cbuf[1].body \in Nat
  <2>1. cbuf[1] \in Message
    BY <1>0, TailType
  <2> QED
    BY <2>1 DEF Message
<1> QED
  BY <1>0, <1>5, <1>7, <1>8

\* A program that is reaped stays so, with its status.
LEMMA ReapedStays ==
  ASSUME TypeInv, PhaseInv, SessionTurn, prog = "reaped"
  PROVE  prog' = "reaped" /\ code' = code
<1>1. CASE QuietStep \/ UNCHANGED sessionVars
  BY <1>1, QuietControl DEF progVars, sessionVars
<1>2. CASE ChildMain \/ Reap \/ WriteRemote \/ ReadRemote \/ Exit \/ Killed
  BY <1>2 DEF ChildMain, Reap, WriteRemote, ReadRemote, Exit, Killed, progVars
<1>3. CASE ExecuteFork \/ ExecuteWinsize \/ ExecuteStdin
  BY <1>3 DEF ExecuteFork, MayFork, ExecuteWinsize, ExecuteStdin, PhaseInv, TypeInv,
              TypeOK, ServerTypeOK, ShellPid
<1>4. CASE (\E s \in Streams : ReadOutput(s)) \/ ProgramStep
  BY <1>4 DEF ReadOutput, ProgramStep, ProgramWrites, ProgramReads, ProgramCloses,
              ProgramExits, ProgramStops, progVars
<1> QED
  BY <1>1, <1>2, <1>3, <1>4 DEF SessionTurn, SessionSide, ServerStep, QuietStep

KnownInv == cstatus # -1 => prog = "reaped" /\ cstatus = code /\ code \in Statuses

LEMMA KnownStep ==
  ASSUME TypeInv, ClientInv, PhaseInv, StatusInv, SuffixInv, KnownInv,
         ClientTurn \/ SessionTurn
  PROVE  KnownInv'
<1>1. CASE SessionTurn
  BY <1>1, ReapedStays DEF SessionTurn, clientVars, KnownInv
<1>2. CASE DispatchStatus /\ ClientTurn
  BY <1>2, StatusTaken DEF DispatchStatus, ClientTurn, progVars, KnownInv
<1>3. CASE ~DispatchStatus /\ ClientTurn
  <2>1. cstatus' = cstatus
    BY <1>3, ClientCases, PlainKeeps DEF LoopHead, ReadSession, DispatchOutput, ReadInput,
       UserTypes, ExitClient, clientVars
  <2> QED
    BY <1>3, <2>1 DEF ClientTurn, progVars, KnownInv
<1> QED
  BY <1>1, <1>2, <1>3

\* What WIFEXITED and WEXITSTATUS say of a real wait status, and of none.
LEMMA OwnCode ==
  ASSUME NEW c \in WaitStatuses, ExitCodeOf(c) # 255
  PROVE  c = 256 * ExitCodeOf(c) /\ c % 128 = 0 /\ c \div 256 = ExitCodeOf(c) /\ c >= 0
<1>1. CASE \E e \in 0 .. 255 : c = 256 * e
  <2>1. PICK e \in 0 .. 255 : c = 256 * e
    BY <1>1
  <2>2. c % 128 = 0 /\ c \div 256 = e /\ e % 256 = e
    BY <2>1
  <2> QED
    BY <2>1, <2>2 DEF ExitCodeOf
<1>2. CASE c \in (1 .. 126) \cup (129 .. 254)
  <2>1. c % 128 # 0
    BY <1>2
  <2> QED
    BY <1>2, <2>1 DEF ExitCodeOf
<1> QED
  BY <1>1, <1>2 DEF WaitStatuses

LEMMA NoCode == ExitCodeOf(-1) = 255
  BY DEF ExitCodeOf

ReportInv == PhaseInv /\ StatusInv /\ SuffixInv /\ KnownInv /\ ResultInv

LEMMA JointReports == Spec => []ReportInv
<1>1. Init => ReportInv
  <2> SUFFICES ASSUME Init PROVE ReportInv
    OBVIOUS
  <2>1. PhaseInv /\ StatusInv
    BY PhaseInit, StatusInit DEF Init, SessionInit
  <2>2. cbuf = <<>> /\ got = <<>> /\ cstatus = -1 /\ exitCode = -1 /\ cpc = "init"
    BY DEF Init, ClientInit, WireInit
  <2>3. SuffixInv
    BY <2>2 DEF SuffixInv
  <2> QED
    BY <2>1, <2>2, <2>3 DEF ReportInv, KnownInv, ResultInv
<1>2. TypeInv /\ ClientInv /\ ReportInv /\ [Next]_vars => ReportInv'
  BY JointMoves, Turns, PhaseStep, StatusStep, SuffixStep, KnownStep, ResultStep DEF ReportInv
<1> QED
  BY <1>1, <1>2, JointTypes, PTL DEF Spec

\* Whatever client, session, program and kernel do, and whatever the program
\* ends with: an exit code other than 255 is the code the program itself
\* returned, and the program is dead (jail.c:404-413, child.c:899-913).
THEOREM ExitCodeIsTrue == Spec => []ExitCodeTrue
<1>1. ReportInv => ExitCodeTrue
  <2> SUFFICES ASSUME ReportInv, exitCode \notin {-1, 255}
               PROVE  prog = "reaped" /\ code = 256 * exitCode
    BY DEF ExitCodeTrue
  <2>1. exitCode = ExitCodeOf(cstatus) /\ ExitCodeOf(cstatus) # 255
    BY DEF ReportInv, ResultInv
  <2>2. cstatus # -1
    BY <2>1, NoCode
  <2>3. prog = "reaped" /\ cstatus = code /\ code \in WaitStatuses
    BY <2>2, StatusesAssumption DEF ReportInv, KnownInv
  <2> QED
    BY <2>1, <2>3, OwnCode
<1> QED
  BY <1>1, JointReports, PTL

-----------------------------------------------------------------------------
(***************************************************************************)
(* What the client asks for.  It asks for one program, before anything     *)
(* else, and then sends input and sizes only: what the session has not yet *)
(* executed of it begins with that request as long as there is no program. *)
(***************************************************************************)
Asking == {"init", "raw", "connect", "request"}
Served == {"loop", "winch", "select", "sleep", "ready", "dispatch", "input", "send"}

BeginInv ==
  /\ cpc \in Asking => sent = <<>>
  /\ cpc \in Served => sent # <<>>
  /\ sent = <<>> => Asked = <<>> /\ pid = -1

ProtocolInv ==
  /\ \A i \in 1 .. Len(Asked) :
       /\ Asked[i].type \in ForkTypes \cup {"Winsize", "StdIn"}
       /\ Asked[i].type \in ForkTypes <=> i = 1 /\ pid = -1
  /\ pid = -1 /\ sent # <<>> => Asked # <<>>

TalkInv == BeginInv /\ ProtocolInv

LEMMA PlacesStep ==
  ASSUME ClientTurn, ~Request
  PROVE  (cpc' \in Asking => cpc \in Asking) /\ (cpc' \in Served => cpc \in Served)
<1> USE DEF At, GoTo, Return, Asking, Served
<1>1. CASE Initialize \/ MakeRaw \/ Start \/ RequestFails
  BY <1>1 DEF Initialize, MakeRaw, Start, RequestFails
<1>2. CASE LoopHead \/ SendWinsize \/ SendFails \/ SendInput \/ Scan \/ Wake \/ TimeOut
  BY <1>2 DEF LoopHead, SendWinsize, SendFails, SendInput, Scan, Wake, TimeOut
<1>3. CASE \/ ReadSession \/ SessionEndsFirst \/ SessionDone \/ DispatchOutput
           \/ DispatchFails \/ DispatchStatus
  BY <1>3 DEF ReadSession, SessionEndsFirst, SessionDone, DispatchOutput,
              DispatchFails, DispatchStatus
<1>4. CASE InputEnds \/ InputIdle \/ ReadInput \/ ExitClient \/ ClientDeliver
  BY <1>4 DEF InputEnds, InputIdle, ReadInput, ExitClient, ClientDeliver,
              ClientAfterInterrupt
<1>5. CASE UserStep
  BY <1>5 DEF UserStep, UserTypes, UserEndsInput, UserResizes, UserTerminates, clientVars
<1> QED
  BY <1>1, <1>2, <1>3, <1>4, <1>5 DEF ClientTurn, ClientSide, ClientStep

\* A message sent shows in the history of messages.
LEMMA SendShows ==
  ASSUME TypeInv, sent' = sent PROVE \A m \in Message : ~ClientSend(m)
<1> SUFFICES ASSUME NEW m \in Message, ClientSend(m) PROVE FALSE
  OBVIOUS
<1>1. sent \in Seq(Message)
  BY DEF TypeInv, TypeOK, WireTypeOK
<1>2. Append(sent, m) # sent
  BY <1>1
<1> QED
  BY <1>2 DEF ClientSend

LEMMA SentOnly ==
  ASSUME TypeInv, ClientTurn \/ SessionTurn, ~Request, ~SendWinsize, ~SendInput
  PROVE  sent' = sent
<1>1. CASE SessionTurn
  BY <1>1, SocketKept
<1>2. CASE Start \/ ReadSession \/ ExitClient
  BY <1>2 DEF Start, Connect, ReadSession, ClientRecv, ExitClient, ClientClose, wireVars
<1>3. CASE ClientTurn /\ ~(Start \/ ReadSession \/ ExitClient)
  BY <1>3
     DEF ClientTurn, ClientSide, ClientStep, UserStep, Initialize, MakeRaw, RequestFails,
         LoopHead, SendFails, Scan, Wake, TimeOut, SessionEndsFirst, SessionDone,
         DispatchOutput, DispatchStatus, DispatchFails, ReadInput, InputEnds, InputIdle,
         ClientDeliver, UserEndsInput, UserResizes, UserTerminates, UserTypes, wireVars
<1> QED
  BY <1>1, <1>2, <1>3

\* Only child_fork makes a session have a program.
LEMMA PidKept ==
  ASSUME TypeInv, PhaseInv, SessionMoves, ~ExecuteFork PROVE pid' = -1 <=> pid = -1
<1>1. CASE QuietStep
  BY <1>1, QuietControl
<1>2. CASE Reap
  BY <1>2 DEF Reap, PhaseInv
<1>3. CASE ~QuietStep /\ ~Reap
  BY <1>3 DEF SessionMoves, SessionSide, ServerStep, ProgramStep, QuietStep, ChildMain,
     WriteRemote, ReadRemote, ExecuteWinsize, ExecuteStdin, ReadOutput, Exit,
     ProgramWrites, ProgramReads, ProgramCloses, ProgramExits, ProgramStops, Killed,
     ClientMay, serverVars
<1> QED
  BY <1>1, <1>2, <1>3

LEMMA TalkStep ==
  ASSUME TypeInv, ClientInv, PhaseInv, BufferInv, TalkInv,
         SessionMoves, ClientTurn \/ SessionTurn
  PROVE  TalkInv'
<1>0. Asked \in Seq(Message) /\ sent \in Seq(Message)
  BY AskedType DEF TypeInv, TypeOK, WireTypeOK
<1>1. ASSUME NEW m \in Message, ClientSend(m), ClientTurn,
             m.type \in ForkTypes \cup {"Winsize", "StdIn"},
             m.type \in ForkTypes <=> Asked = <<>> /\ pid = -1,
             cpc' \in Served
      PROVE  TalkInv'
  <2>1. Asked' = Append(Asked, m) /\ sent' = Append(sent, m) /\ pid' = pid
    BY <1>1, AskedMore DEF ClientSend, ClientTurn, serverVars
  <2>2. /\ Len(Append(Asked, m)) = Len(Asked) + 1 /\ Len(Asked) \in Nat
        /\ Append(Asked, m)[Len(Asked) + 1] = m
        /\ \A i \in 1 .. Len(Asked) : Append(Asked, m)[i] = Asked[i]
    BY <1>0
  <2>3. Append(sent, m) # <<>> /\ Append(Asked, m) # <<>>
    BY <1>0, AppendSome
  <2>4. Asked = <<>> <=> Len(Asked) = 0
    BY <1>0, EmptySeq
  <2>5. ASSUME NEW i \in 1 .. Len(Asked')
        PROVE  /\ Asked'[i].type \in ForkTypes \cup {"Winsize", "StdIn"}
               /\ Asked'[i].type \in ForkTypes <=> i = 1 /\ pid' = -1
    <3>1. CASE i = Len(Asked) + 1
      BY <1>1, <2>1, <2>2, <2>4, <3>1
    <3>2. CASE i \in 1 .. Len(Asked)
      BY <2>1, <2>2, <3>2 DEF TalkInv, ProtocolInv
    <3> QED
      BY <2>1, <2>2, <3>1, <3>2
  <2> QED
    BY <1>1, <2>1, <2>3, <2>5 DEF TalkInv, BeginInv, ProtocolInv, Asking, Served
<1>2. CASE ClientTurn /\ Request
  <2>1. RequestOf(stdinKind).type \in ForkTypes
    BY DEF RequestOf, Msg, ForkTypes
  <2>2. Asked = <<>> /\ pid = -1
    BY <1>2 DEF TalkInv, BeginInv, Request, At, Asking
  <2>3. cpc' \in Served /\ ClientSend(RequestOf(stdinKind))
    BY <1>2 DEF Request, GoTo, Served
  <2> QED
    BY <1>1, <1>2, <2>1, <2>2, <2>3, Requests
<1>3. CASE ClientTurn /\ (SendWinsize \/ SendInput)
  <2>1. cpc \in {"winch", "send"} /\ ClientSend(cout[1]) /\ cpc' \in Served
    BY <1>3 DEF SendWinsize, SendInput, At, GoTo, Served
  <2>2. cout[1] \in Message /\ cout[1].type \in {"Winsize", "StdIn"}
    BY <2>1, Requests DEF ClientInv, HoldsInv
  <2>3. cout[1].type \notin ForkTypes
    BY <2>2 DEF ForkTypes
  <2>4. ~(Asked = <<>> /\ pid = -1)
    BY <2>1 DEF TalkInv, BeginInv, ProtocolInv, Served
  <2> QED
    BY <1>1, <1>3, <2>1, <2>2, <2>3, <2>4
<1>4. CASE SessionTurn /\ (ExecuteFork \/ ExecuteWinsize \/ ExecuteStdin)
  <2>1. /\ Asked # <<>> /\ Asked[1] = inbox[1] /\ Asked' = Tail(Asked)
    BY <1>4, AskedTaken
  <2>2. /\ Len(Tail(Asked)) = Len(Asked) - 1 /\ Len(Asked) \in Nat
        /\ \A i \in 1 .. Len(Asked) - 1 : Tail(Asked)[i] = Asked[i + 1]
    BY <1>0, <2>1
  <2>3. pid' # -1
    <3>1. CASE ExecuteFork
      BY <3>1 DEF ExecuteFork, ShellPid
    <3>2. CASE ExecuteWinsize \/ ExecuteStdin
      <4>1. Asked[1].type \notin ForkTypes /\ pid' = pid
        BY <2>1, <3>2 DEF ExecuteWinsize, ExecuteStdin, Executing, ForkTypes
      <4>2. 1 \in 1 .. Len(Asked)
        BY <1>0, <2>1, EmptySeq
      <4> QED
        BY <4>1, <4>2 DEF TalkInv, ProtocolInv
    <3> QED
      BY <1>4, <3>1, <3>2
  <2>4. sent' = sent /\ cpc' = cpc /\ sent # <<>>
    BY <1>4, <2>1, SocketKept DEF SessionTurn, clientVars, TalkInv, BeginInv
  <2>5. ASSUME NEW i \in 1 .. Len(Asked')
        PROVE  /\ Asked'[i].type \in ForkTypes \cup {"Winsize", "StdIn"}
               /\ Asked'[i].type \notin ForkTypes
    <3>1. i + 1 \in 1 .. Len(Asked) /\ i + 1 # 1 /\ Asked'[i] = Asked[i + 1]
      BY <2>1, <2>2
    <3> QED
      BY <3>1 DEF TalkInv, ProtocolInv
  <2> QED
    BY <2>3, <2>4, <2>5 DEF TalkInv, BeginInv, ProtocolInv
<1>5. CASE ~Request /\ ~SendWinsize /\ ~SendInput
           /\ ~(ExecuteFork \/ ExecuteWinsize \/ ExecuteStdin)
  <2>1. sent' = sent
    BY <1>5, SentOnly
  <2>2. Asked' = Asked
    BY <1>5, <2>1, SendShows, AskedSame
  <2>3. pid' = -1 <=> pid = -1
    BY <1>5, PidKept
  <2>4. (cpc' \in Asking => cpc \in Asking) /\ (cpc' \in Served => cpc \in Served)
    BY <1>5, PlacesStep DEF SessionTurn, clientVars
  <2> QED
    BY <2>1, <2>2, <2>3, <2>4 DEF TalkInv, BeginInv, ProtocolInv
<1>6. ~(ClientTurn /\ (ExecuteFork \/ ExecuteWinsize \/ ExecuteStdin))
  BY DEF ClientTurn, serverVars, ExecuteFork, ExecuteWinsize, ExecuteStdin, Executing, Executed
<1>7. ~(SessionTurn /\ (Request \/ SendWinsize \/ SendInput))
  BY SocketKept, SendShows, Requests DEF Request, SendWinsize, SendInput, At
<1> QED
  BY <1>2, <1>3, <1>4, <1>5, <1>6, <1>7

-----------------------------------------------------------------------------
(***************************************************************************)
(* Why a session ends while its program runs.                              *)
(***************************************************************************)
KeptInv ==
  /\ pc = "boot" => pid = -1
  /\ Ended /\ prog = "running" =>
       cliEnd = "closed" \/ reason \in {"refused", "descriptor"}

LEMMA HeadAsked ==
  ASSUME TypeInv, TalkInv, inbox # <<>>
  PROVE  /\ inbox[1].type \in ForkTypes \cup {"Winsize", "StdIn"}
         /\ inbox[1].type \in ForkTypes => pid = -1
<1>1. inbox \in Seq(Message) /\ c2s \in Seq(Message) /\ Asked \in Seq(Message)
  BY AskedType
<1>2. Asked[1] = inbox[1] /\ 1 \in 1 .. Len(Asked)
  <2>1. /\ Len(inbox \o c2s) = Len(inbox) + Len(c2s) /\ Len(c2s) \in Nat
        /\ \A i \in 1 .. Len(inbox) : (inbox \o c2s)[i] = inbox[i]
    BY <1>1
  <2>2. Len(inbox) \in Nat /\ Len(inbox) >= 1
    BY <1>1, EmptySeq
  <2> QED
    BY <2>1, <2>2 DEF Asked
<1> QED
  BY <1>2 DEF TalkInv, ProtocolInv

LEMMA KeptStep ==
  ASSUME TypeInv, PhaseInv, KindInv, ReadyInv, TalkInv, KeptInv,
         ClientTurn \/ SessionTurn, SessionMoves
  PROVE  KeptInv'
<1> USE DEF KeptInv, Ended, Goto, Leave
<1>1. CASE ClientTurn
  <2>1. cliEnd = "closed" => cliEnd' = "closed"
    <3>1. CASE Start \/ ExitClient \/ ReadSession
      BY <3>1 DEF Start, Connect, ExitClient, ClientClose, ReadSession, ClientRecv, wireVars
    <3>2. CASE Request \/ SendWinsize \/ SendInput
      BY <3>2 DEF Request, SendWinsize, SendInput, ClientSend
    <3>3. CASE ~(Start \/ ExitClient \/ ReadSession) /\ ~(Request \/ SendWinsize \/ SendInput)
      BY <1>1, <3>3
         DEF ClientTurn, ClientSide, ClientStep, UserStep, Initialize, MakeRaw, RequestFails,
             LoopHead, SendFails, Scan, Wake, TimeOut, SessionEndsFirst, SessionDone,
             DispatchOutput, DispatchStatus, DispatchFails, ReadInput, InputEnds, InputIdle,
             ClientDeliver, UserEndsInput, UserResizes, UserTerminates, UserTypes, wireVars
    <3> QED
      BY <3>1, <3>2, <3>3
  <2> QED
    BY <1>1, <2>1 DEF ClientTurn, serverVars, progVars
<1> SUFFICES ASSUME SessionTurn PROVE KeptInv'
  BY <1>1
<1>2. cliEnd' = cliEnd
  BY SocketKept
<1>3. pid = -1 => prog # "running"
  BY DEF PhaseInv
<1>4. CASE ChildMain \/ ChildRun \/ ClearSigchld
  BY <1>2, <1>3, <1>4
     DEF ChildMain, ChildRun, RunContinues, NotStartedInTime, ClearSigchld, LoopLeaves,
         PhaseInv, progVars, TypeInv, TypeOK, ServerTypeOK, ShellPid
<1>5. CASE Reap \/ NothingToReap \/ WriteRemote \/ WriteRemoteFails \/ SelectFails
  BY <1>2, <1>5
     DEF Reap, NothingToReap, WriteRemote, WriteRemoteFails, SelectFails, AfterWrite, progVars
<1>6. CASE SelectScans \/ SelectWakes \/ SelectTimesOut \/ Deliver \/ ReadRemote \/ RemoteDone
  BY <1>2, <1>6
     DEF SelectScans, SelectWakes, SelectTimesOut, Deliver, AfterInterrupt, ReadRemote,
         RemoteDone, Unblocked, progVars
<1>7. CASE RemoteEnds
  BY <1>2, <1>7 DEF RemoteEnds, ReadyInv, ServerReadable, progVars
<1>8. CASE ExecuteForkFails
  <2>1. pid = -1
    BY <1>8, HeadAsked DEF ExecuteForkFails, Executing
  <2> QED
    BY <1>3, <1>8, <2>1 DEF ExecuteForkFails, progVars
<1>9. CASE ExecuteStdinFails
  BY <1>3, <1>9 DEF ExecuteStdinFails, KindInv, progVars
<1>10. CASE ExecuteUnknown
  BY <1>10, HeadAsked DEF ExecuteUnknown, Executing
<1>11. CASE ExecuteFork \/ ExecuteWinsize \/ ExecuteStdin
  BY <1>11 DEF ExecuteFork, ExecuteWinsize, ExecuteStdin, Executing, Executed
<1>12. CASE \E s \in Streams : ReadOutput(s) \/ OutputEnds(s) \/ OutputIdle(s)
  BY <1>12 DEF ReadOutput, OutputEnds, OutputIdle, AfterStream, Streams
<1>13. CASE Exit \/ AlarmRings
  BY <1>2, <1>13 DEF Exit, AlarmRings, progVars
<1>14. CASE Killed \/ UNCHANGED sessionVars
  BY <1>2, <1>14 DEF Killed, sessionVars, serverVars, progVars
<1>15. CASE ProgramStep
  BY <1>2, <1>15
     DEF ProgramStep, ProgramWrites, ProgramReads, ProgramCloses, ProgramExits,
         ProgramStops, serverVars, progVars
<1> QED
  BY <1>4, <1>5, <1>6, <1>7, <1>8, <1>9, <1>10, <1>11, <1>12, <1>13, <1>14, <1>15
     DEF SessionTurn, SessionSide, ServerStep

TalksInv ==
  PhaseInv /\ BufferInv /\ KindInv /\ ReadyInv /\ DescriptorInv /\ TalkInv /\ KeptInv

LEMMA JointTalks == Spec => []TalksInv
<1>1. Init => TalksInv
  <2> SUFFICES ASSUME Init PROVE TalksInv
    OBVIOUS
  <2>1. PhaseInv /\ BufferInv /\ KindInv /\ ReadyInv /\ DescriptorInv
    BY PhaseInit, BufferInit, KindInit, ReadyInit, DescriptorInit DEF Init, SessionInit
  <2>2. /\ cpc = "init" /\ sent = <<>> /\ inbox = <<>> /\ c2s = <<>>
        /\ pid = -1 /\ pc = "boot" /\ prog = "none"
    BY DEF Init, ClientInit, WireInit, ServerInit, ProgInit
  <2>3. Asked = <<>> /\ Len(<<>>) = 0
    <3>1. <<>> \o <<>> = <<>>
      BY EmptyType, ConcatEmptySeq
    <3> QED
      BY <2>2, <3>1, EmptyType DEF Asked
  <2> QED
    BY <2>1, <2>2, <2>3
       DEF TalksInv, TalkInv, BeginInv, ProtocolInv, KeptInv, Asking, Served, Ended
<1>2. TypeInv /\ ClientInv /\ TalksInv /\ [Next]_vars => TalksInv'
  BY JointMoves, Turns, PhaseStep, BufferStep, KindStep, ReadyStep, DescriptorStep,
     TalkStep, KeptStep DEF TalksInv
<1> QED
  BY <1>1, <1>2, JointTypes, PTL DEF Spec

\* The jail client is never dismissed for breaking the protocol, or by the
\* timer, once its program runs: while it listens, only a standard input that
\* nobody holds, or the closed descriptor left in fds, ends its session
\* (child.c:834-858, 931-983).
THEOREM KeptWhileItRuns == Spec => []KeptWhileRunning
<1>1. TalksInv => KeptWhileRunning
  BY DEF TalksInv, KeptInv, DescriptorInv, KeptWhileRunning
<1> QED
  BY <1>1, JointTalks, PTL

-----------------------------------------------------------------------------
(***************************************************************************)
(* How the client leaves.  A round begun at pselect(2) still knows in its  *)
(* last step what was readable in its first.                               *)
(***************************************************************************)
RoundInv ==
  /\ cpc = "ready" /\ "remote" \in cfds => ClientReadable
  /\ cpc \in {"ready", "dispatch", "input"} /\ "stdin" \in cfds =>
       typing # <<>> \/ typingEnds
  /\ cpc = "send" => "stdin" \in cfds

\* After the status the client goes on for the rest of the round only.
LostInv ==
  /\ cstatus # -1 =>
       /\ cterm /\ cbuf = <<>>
       /\ cpc \in {"dispatch", "input", "send", "loop", "exit", "gone"}
  /\ cpc \in {"exit", "gone"} /\ cstatus # -1 /\ exitCode # ExitCodeOf(cstatus) =>
       "stdin" \in cfds /\ (typingEnds \/ srvEnd = "closed")

LeaveInv ==
  cpc \in {"exit", "gone"} =>
    \/ sent = <<>> \/ typingEnds \/ cterm \/ cbuf # <<>> \/ srvEnd = "closed"
    \/ cwinch /\ stdinKind # "tty"

LEMMA RoundStep ==
  ASSUME TypeInv, ClientInv, RoundInv, ClientTurn \/ SessionTurn PROVE RoundInv'
<1> USE DEF At, GoTo, Return, RoundInv, ClientReadable
<1>1. CASE SessionTurn
  BY <1>1, SocketKept DEF SessionTurn, clientVars, userVars
<1>2. CASE Initialize \/ MakeRaw \/ Start \/ Request \/ RequestFails \/ LoopHead
  BY <1>2 DEF Initialize, MakeRaw, Start, Request, RequestFails, LoopHead
<1>3. CASE SendWinsize \/ SendFails \/ SendInput \/ Wake \/ TimeOut
  BY <1>3 DEF SendWinsize, SendFails, SendInput, Wake, TimeOut
<1>4. CASE Scan
  BY <1>4 DEF Scan, ClientReady, ClientReadable, wireVars, userVars
<1>5. CASE SessionEndsFirst \/ SessionDone \/ DispatchFails \/ InputEnds \/ InputIdle
  BY <1>5 DEF SessionEndsFirst, SessionDone, DispatchFails, InputEnds, InputIdle, userVars
<1>6. CASE ReadSession \/ DispatchOutput \/ DispatchStatus \/ ReadInput \/ ExitClient
  BY <1>6 DEF ReadSession, DispatchOutput, DispatchStatus, ReadInput, ExitClient, userVars
<1>7. CASE ClientDeliver
  BY <1>7 DEF ClientDeliver, ClientAfterInterrupt, wireVars, userVars
<1>8. CASE UserTypes
  <2>1. typing' # <<>>
    <3>1. typing \in Seq(Nat) /\ typed' \in Nat
      BY <1>8 DEF UserTypes, ClientInv, ClientTypeOK
    <3> QED
      BY <1>8, <3>1, AppendSome DEF UserTypes
  <2> QED
    BY <1>8, <2>1 DEF UserTypes, clientVars, wireVars
<1>9. CASE UserEndsInput \/ UserResizes \/ UserTerminates
  BY <1>9 DEF UserEndsInput, UserResizes, UserTerminates, clientVars, wireVars, userVars
<1> QED
  BY <1>1, <1>2, <1>3, <1>4, <1>5, <1>6, <1>7, <1>8, <1>9
     DEF ClientTurn, ClientSide, ClientStep, UserStep

LEMMA LostStep ==
  ASSUME TypeInv, ClientInv, RoundInv, StatusInv, SuffixInv, LostInv,
         ClientTurn \/ SessionTurn
  PROVE  LostInv'
<1> USE DEF At, GoTo, Return, LostInv
<1>0. cbuf # <<>> => cpc \in {"dispatch", "exit", "gone"}
  BY DEF ClientInv, HoldsInv
<1>1. CASE SessionTurn
  BY <1>1, SocketKept DEF SessionTurn, clientVars, userVars
<1>2. CASE Initialize \/ MakeRaw \/ Start \/ Request \/ RequestFails
  BY <1>2 DEF Initialize, MakeRaw, Start, Request, RequestFails
<1>3. CASE LoopHead \/ ExitClient
  BY <1>3 DEF LoopHead, ExitClient, ClientClose, wireVars, userVars
<1>4. CASE SendWinsize \/ SendInput \/ Scan \/ Wake \/ TimeOut
  BY <1>4 DEF SendWinsize, SendInput, Scan, Wake, TimeOut
<1>5. CASE SendFails
  BY <1>5 DEF SendFails, RoundInv, wireVars
<1>6. CASE InputEnds
  BY <1>6 DEF InputEnds, RoundInv, userVars
<1>7. CASE SessionEndsFirst \/ SessionDone \/ DispatchFails \/ InputIdle
  BY <1>7 DEF SessionEndsFirst, SessionDone, DispatchFails, InputIdle
<1>8. CASE ReadSession \/ DispatchOutput \/ ReadInput
  BY <1>8 DEF ReadSession, DispatchOutput, ReadInput
<1>9. CASE DispatchStatus
  BY <1>9, StatusTaken DEF DispatchStatus, LeavesAfterStatus
<1>10. CASE ClientDeliver
  BY <1>10 DEF ClientDeliver, ClientAfterInterrupt, ClientUnblocked
<1>11. CASE UserTypes \/ UserEndsInput \/ UserResizes \/ UserTerminates
  BY <1>11 DEF UserTypes, UserEndsInput, UserResizes, UserTerminates, clientVars,
               wireVars, userVars
<1> QED
  BY <1>1, <1>2, <1>3, <1>4, <1>5, <1>6, <1>7, <1>8, <1>9, <1>10, <1>11
     DEF ClientTurn, ClientSide, ClientStep, UserStep

LEMMA LeaveStep ==
  ASSUME TypeInv, ClientInv, RoundInv, TalkInv, LeaveInv, ClientTurn \/ SessionTurn
  PROVE  LeaveInv'
<1> USE DEF At, GoTo, Return, LeaveInv
<1>1. CASE SessionTurn
  BY <1>1, SocketKept DEF SessionTurn, clientVars, userVars
<1>2. CASE Initialize \/ MakeRaw \/ Start \/ RequestFails
  BY <1>2 DEF Initialize, MakeRaw, Start, Connect, RequestFails, TalkInv, BeginInv,
              Asking, wireVars
<1>3. CASE Request \/ SendWinsize \/ SendInput \/ Scan \/ Wake \/ TimeOut
  BY <1>3 DEF Request, SendWinsize, SendInput, Scan, Wake, TimeOut
<1>4. CASE LoopHead \/ ExitClient
  BY <1>4 DEF LoopHead, ExitClient, ClientClose, wireVars, userVars
<1>5. CASE SendFails \/ DispatchFails
  BY <1>5 DEF SendFails, DispatchFails, wireVars
<1>6. CASE InputEnds
  BY <1>6 DEF InputEnds, RoundInv, userVars
<1>7. CASE SessionEndsFirst
  BY <1>7 DEF SessionEndsFirst, RoundInv, ClientReadable, wireVars
<1>8. CASE SessionDone \/ InputIdle \/ ReadSession \/ DispatchOutput \/ DispatchStatus \/ ReadInput
  BY <1>8 DEF SessionDone, InputIdle, ReadSession, DispatchOutput, DispatchStatus, ReadInput
<1>10. CASE ClientDeliver
  BY <1>10 DEF ClientDeliver, ClientAfterInterrupt, ClientUnblocked
<1>11. CASE UserTypes \/ UserEndsInput \/ UserResizes \/ UserTerminates
  BY <1>11 DEF UserTypes, UserEndsInput, UserResizes, UserTerminates, clientVars,
               wireVars, userVars
<1> QED
  BY <1>1, <1>2, <1>3, <1>4, <1>5, <1>6, <1>7, <1>8, <1>10, <1>11
     DEF ClientTurn, ClientSide, ClientStep, UserStep

EndsInv == RoundInv /\ LostInv /\ LeaveInv

LEMMA JointEnds == Spec => []EndsInv
<1>1. Init => EndsInv
  BY DEF Init, ClientInit, EndsInv, RoundInv, LostInv, LeaveInv
<1>2. TypeInv /\ ClientInv /\ ReportInv /\ TalksInv /\ EndsInv /\ [Next]_vars => EndsInv'
  BY Turns, RoundStep, LostStep, LeaveStep DEF EndsInv, ReportInv, TalksInv
<1> QED
  BY <1>1, <1>2, JointTypes, JointReports, JointTalks, PTL DEF Spec

\* A client that was told the program's status and does not return it was, in
\* the very round that brought the status, also sending input, or at its end
\* (jail.c:290-324, 404-413).
THEOREM StatusLostOnlyThen == Spec => []StatusLostOnlyIf
<1>1. EndsInv => StatusLostOnlyIf
  BY DEF EndsInv, LostInv, StatusLostOnlyIf
<1> QED
  BY <1>1, JointEnds, PTL

\* A client never leaves a running program but for the end of its input, a
\* signal that asks it to, a failure of its own output, or a resize of a
\* terminal that is not its standard input (jail.c:362, 388-417).
THEOREM ClientLeavesForCause == Spec => []LeavesForCause
<1>1. TalksInv /\ EndsInv => LeavesForCause
  <2>1. PhaseInv /\ pid = -1 => prog # "running"
    BY DEF PhaseInv
  <2> QED
    BY <2>1 DEF TalksInv, TalkInv, BeginInv, EndsInv, LeaveInv, LeavesForCause
<1> QED
  BY <1>1, JointTalks, JointEnds, PTL

-----------------------------------------------------------------------------
(***************************************************************************)
(* Data.  What the client showed and still holds is what it has read; what *)
(* it sent and still holds, with what it has not read, is what was typed.  *)
(***************************************************************************)
ShownInv ==
  \A s \in Streams :
    shown[TypeOf[s]] \o Bodies(cbuf, TypeOf[s]) = Bodies(got, TypeOf[s])

TypedInv ==
  (Bodies(sent, "StdIn") \o Bodies(cout, "StdIn")) \o typing = [i \in 1 .. typed |-> i]

\* Steps that neither read nor dispatch leave got, cbuf and shown alone.
LEMMA GotKept ==
  ASSUME TypeInv, ClientTurn \/ SessionTurn, ~ReadSession, ~DispatchOutput, ~DispatchStatus
  PROVE  UNCHANGED <<got, cbuf, shown>>
<1>1. CASE SessionTurn
  BY <1>1, SocketKept DEF SessionTurn, clientVars, userVars
<1>2. CASE ClientTurn
  <2>1. cbuf' = cbuf /\ shown' = shown
    BY <1>2, ClientCases, PlainKeeps
       DEF LoopHead, ReadInput, UserTypes, ExitClient, clientVars, userVars
  <2>2. CASE Request \/ SendWinsize \/ SendInput
    BY <2>1, <2>2 DEF Request, SendWinsize, SendInput, ClientSend
  <2>3. CASE Start \/ ExitClient
    BY <2>1, <2>3 DEF Start, Connect, ExitClient, ClientClose, wireVars
  <2>4. CASE ~(Request \/ SendWinsize \/ SendInput) /\ ~(Start \/ ExitClient)
    BY <1>2, <2>1, <2>4
       DEF ClientTurn, ClientSide, ClientStep, UserStep, Initialize, MakeRaw, RequestFails,
           LoopHead, SendFails, Scan, Wake, TimeOut, SessionEndsFirst, SessionDone,
           DispatchFails, ReadInput, InputEnds, InputIdle, ClientDeliver, UserEndsInput,
           UserResizes, UserTerminates, UserTypes, wireVars
  <2> QED
    BY <2>2, <2>3, <2>4
<1> QED
  BY <1>1, <1>2

LEMMA ShownStep ==
  ASSUME TypeInv, ClientInv, ShownInv, ClientTurn \/ SessionTurn PROVE ShownInv'
<1>0. /\ got \in Seq(Message) /\ s2c \in Seq(Message) /\ cbuf \in Seq(Message)
      /\ shown \in [{"StdOut", "StdErr"} -> Seq(Nat)]
      /\ \A s \in Streams : TypeOf[s] \in {"StdOut", "StdErr"}
  BY DEF TypeInv, TypeOK, WireTypeOK, ClientInv, ClientTypeOK, Streams, TypeOf
<1>1. CASE UNCHANGED <<got, cbuf, shown>>
  BY <1>1 DEF ShownInv
<1>2. CASE ReadSession
  <2>1. PICK k \in 1 .. Len(s2c) :
          cbuf' = SubSeq(s2c, 1, k) /\ got' = got \o SubSeq(s2c, 1, k)
    BY <1>2 DEF ReadSession, ClientRecv
  <2>2. cbuf' \in Seq(Message) /\ got' = got \o cbuf' /\ shown' = shown
    BY <1>0, <1>2, <2>1, PartType DEF ReadSession, userVars
  <2>3. cbuf = <<>>
    BY <1>2 DEF ReadSession, At, ClientInv, HoldsInv
  <2>4. ASSUME NEW s \in Streams
        PROVE  shown'[TypeOf[s]] \o Bodies(cbuf', TypeOf[s]) = Bodies(got', TypeOf[s])
    <3>1. shown[TypeOf[s]] = Bodies(got, TypeOf[s])
      <4>1. shown[TypeOf[s]] \o <<>> = shown[TypeOf[s]]
        BY <1>0, ConcatEmptySeq
      <4> QED
        BY <2>3, <4>1, BodiesEmpty DEF ShownInv
    <3>2. Bodies(got \o cbuf', TypeOf[s]) = Bodies(got, TypeOf[s]) \o Bodies(cbuf', TypeOf[s])
      BY <1>0, <2>2, BodiesConcat
    <3> QED
      BY <2>2, <3>1, <3>2
  <2> QED
    BY <2>4 DEF ShownInv
<1>3. CASE DispatchOutput
  <2>1. /\ cbuf # <<>> /\ cbuf' = Tail(cbuf) /\ got' = got
        /\ shown' = [shown EXCEPT ![cbuf[1].type] = Append(@, cbuf[1].body)]
        /\ cbuf[1].type \in {"StdOut", "StdErr"}
    BY <1>3 DEF DispatchOutput, FileOf, wireVars
  <2>2. cbuf[1] \in Message /\ Tail(cbuf) \in Seq(Message) /\ cbuf[1].body \in Nat
    <3>1. cbuf[1] \in Message /\ Tail(cbuf) \in Seq(Message)
      BY <1>0, <2>1, TailType
    <3> QED
      BY <3>1 DEF Message
  <2>3. ASSUME NEW s \in Streams
        PROVE  shown'[TypeOf[s]] \o Bodies(cbuf', TypeOf[s]) = Bodies(got', TypeOf[s])
    <3> DEFINE R == Bodies(Tail(cbuf), TypeOf[s])
               e == cbuf[1].body
               q == shown[TypeOf[s]]
    <3>1. q \o Bodies(cbuf, TypeOf[s]) = Bodies(got, TypeOf[s])
      BY DEF ShownInv
    <3>2. Bodies(cbuf, TypeOf[s]) = IF cbuf[1].type = TypeOf[s] THEN <<e>> \o R ELSE R
      BY <1>0, <2>1, BodiesTail
    <3>3. q \in Seq(Nat) /\ R \in Seq(Nat) /\ e \in Nat
      BY <1>0, <2>2, BodiesType
    <3>4. Append(q, e) \o R = q \o (<<e>> \o R)
      <4>1. \A a, b \in Seq(Nat), d \in Nat : Append(a, d) \o b = a \o (<<d>> \o b)
        OBVIOUS
      <4> QED
        BY <3>3, <4>1, Zenon
    <3>5. shown'[TypeOf[s]] = IF cbuf[1].type = TypeOf[s] THEN Append(q, e) ELSE q
      BY <1>0, <2>1
    <3> QED
      BY <2>1, <3>1, <3>2, <3>4, <3>5
  <2> QED
    BY <2>3 DEF ShownInv
<1>4. CASE DispatchStatus
  <2>1. cbuf # <<>> /\ cbuf' = Tail(cbuf) /\ got' = got /\ shown' = shown
        /\ cbuf[1].type = "Status"
    BY <1>4 DEF DispatchStatus, wireVars, userVars
  <2>2. \A s \in Streams : Bodies(cbuf, TypeOf[s]) = Bodies(Tail(cbuf), TypeOf[s])
    BY <1>0, <2>1, BodiesTail
  <2> QED
    BY <2>1, <2>2 DEF ShownInv
<1> QED
  BY <1>1, <1>2, <1>3, <1>4, GotKept

LEMMA TypedStep ==
  ASSUME TypeInv, ClientInv, TypedInv, ClientTurn \/ SessionTurn PROVE TypedInv'
<1> DEFINE S == Bodies(sent, "StdIn")
           C == Bodies(cout, "StdIn")
<1>0. /\ sent \in Seq(Message) /\ cout \in Seq(Message) /\ typing \in Seq(Nat)
      /\ S \in Seq(Nat) /\ C \in Seq(Nat) /\ typed \in Nat
  BY BodiesType DEF TypeInv, TypeOK, WireTypeOK, ClientInv, ClientTypeOK
<1>1. CASE (Request \/ SendWinsize \/ SendInput) /\ ClientTurn
  <2>1. PICK m \in Message : sent' = Append(sent, m) /\ cout' = <<>>
                             /\ ((cout = <<>> /\ m.type # "StdIn") \/ cout = <<m>>)
    <3>1. CASE Request
      <4>1. RequestOf(stdinKind) \in Message /\ RequestOf(stdinKind).type # "StdIn"
        BY Requests DEF RequestOf, Msg
      <4>2. cout = <<>>
        BY <3>1 DEF Request, At, ClientInv, HoldsInv
      <4> QED
        BY <3>1, <4>1, <4>2 DEF Request, ClientSend
    <3>2. CASE SendWinsize \/ SendInput
      <4>1. cpc \in {"winch", "send"} /\ ClientSend(cout[1]) /\ cout' = <<>>
        BY <3>2 DEF SendWinsize, SendInput, At
      <4>2. cout[1] \in Message /\ Len(cout) = 1
        BY <4>1, Requests DEF ClientInv, HoldsInv
      <4>3. cout = <<cout[1]>>
        BY <1>0, <4>2
      <4> QED
        BY <4>1, <4>2, <4>3 DEF ClientSend
    <3> QED
      BY <1>1, <3>1, <3>2
  <2>2. /\ Bodies(sent', "StdIn") = IF m.type = "StdIn" THEN Append(S, m.body) ELSE S
        /\ Bodies(<<>>, "StdIn") = <<>>
    BY <1>0, <2>1, BodiesAppend, BodiesEmpty
  <2>3. C = IF cout = <<>> THEN <<>> ELSE IF m.type = "StdIn" THEN <<m.body>> ELSE <<>>
    BY <2>1, BodiesOne, BodiesEmpty
  <2>4. m.body \in Nat
    BY DEF Message
  <2>5. Append(S, m.body) \o <<>> = S \o <<m.body>>
    <3>1. \A a \in Seq(Nat), d \in Nat : Append(a, d) \o <<>> = a \o <<d>>
      BY ConcatEmptySeq, AppendIsConcat, AppendType
    <3> QED
      BY <1>0, <2>4, <3>1, Zenon
  <2>6. Bodies(sent', "StdIn") \o Bodies(cout', "StdIn") = S \o C
    <3>1. CASE cout = <<>>
      BY <2>1, <2>2, <2>3, <3>1
    <3>2. CASE cout # <<>>
      BY <2>1, <2>2, <2>3, <2>5, <3>2
    <3> QED
      BY <3>1, <3>2
  <2>7. UNCHANGED <<typing, typed>>
    BY <1>1 DEF Request, SendWinsize, SendInput, userVars
  <2> QED
    BY <2>6, <2>7 DEF TypedInv
<1>2. CASE ReadInput
  <2>1. /\ typing # <<>> /\ typing' = Tail(typing) /\ sent' = sent /\ typed' = typed
        /\ cout = <<>> /\ cout' = <<Msg("StdIn", Head(typing))>>
    BY <1>2 DEF ReadInput, At, ClientInv, HoldsInv, wireVars
  <2>2. Head(typing) \in Nat /\ Tail(typing) \in Seq(Nat) /\ typing = <<Head(typing)>> \o Tail(typing)
    BY <1>0, <2>1
  <2>3. C = <<>> /\ Bodies(cout', "StdIn") = <<Head(typing)>>
    <3>1. Msg("StdIn", Head(typing)) \in Message
      BY <2>2, MsgType DEF Types
    <3>2. Bodies(<<Msg("StdIn", Head(typing))>>, "StdIn") = <<Msg("StdIn", Head(typing)).body>>
      BY <3>1, BodiesOne DEF Msg
    <3> QED
      BY <2>1, <3>2, BodiesEmpty DEF Msg
  <2>4. (S \o <<Head(typing)>>) \o Tail(typing) = (S \o <<>>) \o (<<Head(typing)>> \o Tail(typing))
    <3>1. \A a, b \in Seq(Nat), d \in Nat : (a \o <<d>>) \o b = (a \o <<>>) \o (<<d>> \o b)
      <4> SUFFICES ASSUME NEW a \in Seq(Nat), NEW b \in Seq(Nat), NEW d \in Nat
                   PROVE  (a \o <<d>>) \o b = (a \o <<>>) \o (<<d>> \o b)
        OBVIOUS
      <4>1. a \o <<>> = a
        BY ConcatEmptySeq
      <4> QED
        BY <4>1
    <3> QED
      BY <1>0, <2>2, <3>1, Zenon
  <2> QED
    BY <2>1, <2>2, <2>3, <2>4 DEF TypedInv
<1>3. CASE UserTypes
  <2>1. typing' = Append(typing, typed + 1) /\ typed' = typed + 1 /\ UNCHANGED <<sent, cout>>
    BY <1>3 DEF UserTypes, clientVars, wireVars
  <2>2. (S \o C) \o Append(typing, typed + 1) = Append((S \o C) \o typing, typed + 1)
    <3>1. \A a, b, c \in Seq(Nat), d \in Nat : (a \o b) \o Append(c, d) = Append((a \o b) \o c, d)
      BY SMTT(60)
    <3>2. typed + 1 \in Nat
      BY <1>0
    <3> QED
      BY <1>0, <3>1, <3>2, ZenonT(60)
  <2>3. Append([i \in 1 .. typed |-> i], typed + 1) = [i \in 1 .. typed + 1 |-> i]
    BY <1>0, CountingAppend
  <2> QED
    BY <2>1, <2>2, <2>3 DEF TypedInv
<1>4. CASE LoopHead
  <2>1. /\ cout = <<>> /\ UNCHANGED <<sent, typing, typed>>
        /\ cout' = <<>> \/ cout' = <<Msg("Winsize", termSize)>>
    BY <1>4 DEF LoopHead, At, ClientInv, HoldsInv, wireVars, userVars
  <2>2. Bodies(<<Msg("Winsize", termSize)>>, "StdIn") = <<>> /\ Bodies(<<>>, "StdIn") = <<>>
    <3>1. Msg("Winsize", termSize) \in Message
      BY Requests
    <3>2. Msg("Winsize", termSize).type # "StdIn"
      BY DEF Msg
    <3> QED
      BY <3>1, <3>2, BodiesOne, BodiesEmpty
  <2> QED
    BY <2>1, <2>2 DEF TypedInv
<1>5. CASE /\ ~((Request \/ SendWinsize \/ SendInput) /\ ClientTurn)
           /\ ~ReadInput /\ ~UserTypes /\ ~LoopHead
  <2>1. UNCHANGED <<cout, typing, typed>>
    <3>1. CASE SessionTurn
      BY <3>1 DEF SessionTurn, clientVars, userVars
    <3>2. CASE ClientTurn
      BY <1>5, <3>2
         DEF ClientTurn, ClientSide, ClientStep, UserStep, Initialize, MakeRaw, Start,
             RequestFails, SendFails, Scan, Wake, TimeOut, ReadSession, SessionEndsFirst,
             SessionDone, DispatchOutput, DispatchFails, DispatchStatus, InputEnds,
             InputIdle, ExitClient, ClientDeliver, UserEndsInput, UserResizes,
             UserTerminates, clientVars, userVars
    <3> QED
      BY <3>1, <3>2
  <2>2. sent' = sent
    BY <1>5, SentOnly, SocketKept
  <2> QED
    BY <2>1, <2>2 DEF TypedInv
<1> QED
  BY <1>1, <1>2, <1>3, <1>4, <1>5

LEMMA OutputOrdered ==
  ASSUME TypeInv, ClientInv, OutputConserved, ShownInv PROVE OutputInOrder
<1> SUFFICES ASSUME NEW s \in Streams
             PROVE  shown[TypeOf[s]] \o Bodies(cbuf \o s2c \o outbox, TypeOf[s]) \o pipe[s]
                      = [i \in 1 .. written[s] |-> i]
  BY DEF OutputInOrder
<1> DEFINE Sh == shown[TypeOf[s]]
           Bg == Bodies(got, TypeOf[s])
           Bc == Bodies(cbuf, TypeOf[s])
           Bs == Bodies(s2c, TypeOf[s])
           Bo == Bodies(outbox, TypeOf[s])
<1>0. /\ got \in Seq(Message) /\ s2c \in Seq(Message) /\ cbuf \in Seq(Message)
      /\ outbox \in Seq(Message) /\ shown \in [{"StdOut", "StdErr"} -> Seq(Nat)]
      /\ pipe \in [Streams -> Seq(Nat)] /\ TypeOf[s] \in {"StdOut", "StdErr"}
  BY SMTT(60) DEF TypeInv, TypeOK, WireTypeOK, ServerTypeOK, ProgTypeOK, ClientInv, ClientTypeOK,
         Streams, TypeOf
<1>1. /\ Sh \in Seq(Nat) /\ Bg \in Seq(Nat) /\ Bc \in Seq(Nat)
      /\ Bs \in Seq(Nat) /\ Bo \in Seq(Nat) /\ pipe[s] \in Seq(Nat)
      /\ got \o s2c \in Seq(Message) /\ cbuf \o s2c \in Seq(Message)
  BY <1>0, BodiesType, ConcatType
<1>2. Bodies((got \o s2c) \o outbox, TypeOf[s]) = (Bg \o Bs) \o Bo
  <2>1. Bodies((got \o s2c) \o outbox, TypeOf[s]) = Bodies(got \o s2c, TypeOf[s]) \o Bo
    BY <1>0, <1>1, BodiesConcat
  <2>2. Bodies(got \o s2c, TypeOf[s]) = Bg \o Bs
    BY <1>0, BodiesConcat
  <2> QED
    BY <2>1, <2>2
<1>3. Bodies((cbuf \o s2c) \o outbox, TypeOf[s]) = (Bc \o Bs) \o Bo
  <2>1. Bodies((cbuf \o s2c) \o outbox, TypeOf[s]) = Bodies(cbuf \o s2c, TypeOf[s]) \o Bo
    BY <1>0, <1>1, BodiesConcat
  <2>2. Bodies(cbuf \o s2c, TypeOf[s]) = Bc \o Bs
    BY <1>0, BodiesConcat
  <2> QED
    BY <2>1, <2>2
<1>4. Sh \o Bc = Bg
  BY DEF ShownInv
<1>5. ((Bg \o Bs) \o Bo) \o pipe[s] = [i \in 1 .. written[s] |-> i]
  BY <1>2 DEF OutputConserved, Told
<1>6. Sh \o ((Bc \o Bs) \o Bo) = ((Sh \o Bc) \o Bs) \o Bo
  <2> HIDE DEF Sh, Bc, Bs, Bo
  <2>1. \A a, b, c \in Seq(Nat) : a \o (b \o c) = (a \o b) \o c
    BY SMTT(60)
  <2>2. /\ Sh \in Seq(Nat) /\ Bc \in Seq(Nat) /\ Bs \in Seq(Nat) /\ Bo \in Seq(Nat)
        /\ Bc \o Bs \in Seq(Nat)
    BY <1>1, ConcatType
  <2>3. Sh \o ((Bc \o Bs) \o Bo) = (Sh \o (Bc \o Bs)) \o Bo
    BY <2>1, <2>2, ZenonT(60)
  <2>4. Sh \o (Bc \o Bs) = (Sh \o Bc) \o Bs
    BY <2>1, <2>2, ZenonT(60)
  <2> QED
    BY <2>3, <2>4, Zenon
<1> QED
  BY <1>3, <1>4, <1>5, <1>6

LEMMA InputOrdered ==
  ASSUME TypeInv, ClientInv, StdinInv, TypedInv PROVE InputInOrder
<1> DEFINE P == consumed \o inPipe
           A == Bodies(Asked, "StdIn")
           C == Bodies(cout, "StdIn")
<1>1. /\ P \in Seq(Nat) /\ A \in Seq(Nat) /\ C \in Seq(Nat) /\ typing \in Seq(Nat)
      /\ cout \in Seq(Message) /\ Asked \in Seq(Message)
  BY AskedType, BodiesType, ConcatType
     DEF TypeInv, TypeOK, ProgTypeOK, ClientInv, ClientTypeOK
<1>2. Bodies((inbox \o c2s) \o cout, "StdIn") = A \o C
  BY <1>1, BodiesConcat DEF Asked
<1>3. P \o (A \o C) = (P \o A) \o C
  <2>1. \A a, b, c \in Seq(Nat) : a \o (b \o c) = (a \o b) \o c
    BY SMTT(60)
  <2> QED
    BY <1>1, <2>1, ZenonT(60)
<1>4. ((P \o A) \o C) \o typing = [i \in 1 .. typed |-> i]
  BY DEF StdinInv, TypedInv
<1> QED
  BY <1>2, <1>3, <1>4 DEF InputInOrder

DataInv == OutputConserved /\ ShownInv /\ StdinInv /\ TypedInv

LEMMA JointData == Spec => []DataInv
<1>1. Init => DataInv
  <2> SUFFICES ASSUME Init PROVE DataInv
    OBVIOUS
  <2>1. OutputConserved /\ StdinInv
    BY OutputInit, StdinInit DEF Init, SessionInit
  <2>2. /\ cbuf = <<>> /\ got = <<>> /\ sent = <<>> /\ cout = <<>>
        /\ typing = <<>> /\ typed = 0
        /\ shown = [t \in {"StdOut", "StdErr"} |-> <<>>]
    BY DEF Init, ClientInit, WireInit, UserInit
  <2>3. <<>> \o <<>> = <<>>
    BY EmptyType, ConcatEmptySeq
  <2>4. ShownInv
    <3>1. \A s \in Streams : shown[TypeOf[s]] = <<>>
      BY <2>2 DEF Streams, TypeOf
    <3>2. \A type : Bodies(cbuf, type) = <<>> /\ Bodies(got, type) = <<>>
      BY <2>2, BodiesEmpty
    <3> QED
      BY <2>3, <3>1, <3>2 DEF ShownInv
  <2>5. TypedInv
    <3>1. [i \in 1 .. 0 |-> i] = <<>>
      OBVIOUS
    <3> QED
      BY <2>2, <2>3, <3>1, BodiesEmpty DEF TypedInv
  <2> QED
    BY <2>1, <2>4, <2>5 DEF DataInv
<1>2. TypeInv /\ ClientInv /\ ReportInv /\ TalksInv /\ DataInv /\ [Next]_vars => DataInv'
  BY JointMoves, Turns, OutputStep, StdinStep, ShownStep, TypedStep
     DEF DataInv, ReportInv, TalksInv
<1> QED
  BY <1>1, <1>2, JointTypes, JointReports, JointTalks, PTL DEF Spec

\* However the stream is cut on its way and whoever stops when: what the user
\* was shown, what client, socket and session still hold and what waits in the
\* pipe is, in order, all that the program wrote, per stream (jail.c:260-286,
\* child.c:860-886).
THEOREM OutputComesInOrder == Spec => []OutputInOrder
<1>1. TypeInv /\ ClientInv /\ DataInv => OutputInOrder
  BY OutputOrdered DEF DataInv
<1> QED
  BY <1>1, JointTypes, JointData, PTL

\* And what the program read, with all that is on its way to it, is, in order,
\* what was typed (jail.c:326-350, child.c:739-757, 797-832).
THEOREM InputComesInOrder == Spec => []InputInOrder
<1>1. TypeInv /\ ClientInv /\ DataInv => InputInOrder
  BY InputOrdered DEF DataInv
<1> QED
  BY <1>1, JointTypes, JointData, PTL

-----------------------------------------------------------------------------
(***************************************************************************)
(* The size of the terminal.  Unless a resize has still to be noticed, the *)
(* last size on its way to the program is the terminal's, or else the      *)
(* program's terminal has it already.                                      *)
(***************************************************************************)
Rounds == {"loop", "select", "sleep", "ready", "dispatch", "input", "send"}
Sized(m) == m.type \in {"ForkTty", "Winsize"}

SizeOnItsWay ==
  \/ \E i \in 1 .. Len(Asked) :
       /\ Sized(Asked[i]) /\ Asked[i].body = termSize
       /\ \A j \in i + 1 .. Len(Asked) : ~Sized(Asked[j])
  \/ /\ \A i \in 1 .. Len(Asked) : ~Sized(Asked[i])
     /\ kind = "tty" => ttySize = termSize

SizeInv ==
  "WINCH" \notin cpending =>
    /\ cpc = "winch" => cout[1].body = termSize
    /\ cpc \in Rounds /\ cwinch = FALSE => SizeOnItsWay

LEMMA SizeKept ==
  ASSUME TypeInv, SessionMoves, ~ExecuteFork, ~ExecuteWinsize
  PROVE  UNCHANGED <<kind, ttySize>>
<1>1. CASE QuietStep
  BY <1>1, QuietControl DEF progVars
<1>2. CASE ~QuietStep
  BY <1>2 DEF SessionMoves, SessionSide, ServerStep, ProgramStep, QuietStep, ChildMain,
     Reap, WriteRemote, ReadRemote, ExecuteStdin, ReadOutput, Exit, ProgramWrites,
     ProgramReads, ProgramCloses, ProgramExits, ProgramStops, Killed, ClientMay,
     serverVars, progVars
<1> QED
  BY <1>1, <1>2

\* A message without a size changes nothing, one with the size settles it.
LEMMA SizeSent ==
  ASSUME TypeInv, NEW m \in Message, Asked' = Append(Asked, m),
         UNCHANGED <<kind, ttySize, termSize>>,
         IF Sized(m) THEN m.body = termSize ELSE SizeOnItsWay
  PROVE  SizeOnItsWay'
<1>1. Asked \in Seq(Message)
  BY AskedType
<1>2. /\ Len(Append(Asked, m)) = Len(Asked) + 1 /\ Len(Asked) \in Nat
      /\ Append(Asked, m)[Len(Asked) + 1] = m
      /\ \A i \in 1 .. Len(Asked) : Append(Asked, m)[i] = Asked[i]
  BY <1>1
<1>3. CASE Sized(m)
  <2>1. Len(Asked) + 1 \in 1 .. Len(Asked') /\ Asked'[Len(Asked) + 1] = m
    BY <1>2
  <2>2. \A j \in (Len(Asked) + 1) + 1 .. Len(Asked') : FALSE
    BY <1>2
  <2> QED
    BY <1>3, <2>1, <2>2 DEF SizeOnItsWay, Sized
<1>4. CASE ~Sized(m) /\ \E i \in 1 .. Len(Asked) :
             /\ Sized(Asked[i]) /\ Asked[i].body = termSize
             /\ \A j \in i + 1 .. Len(Asked) : ~Sized(Asked[j])
  <2>1. PICK i \in 1 .. Len(Asked) :
             /\ Sized(Asked[i]) /\ Asked[i].body = termSize
             /\ \A j \in i + 1 .. Len(Asked) : ~Sized(Asked[j])
    BY <1>4
  <2>2. i \in 1 .. Len(Asked') /\ Asked'[i] = Asked[i]
    BY <1>2
  <2>3. ASSUME NEW j \in i + 1 .. Len(Asked') PROVE ~Sized(Asked'[j])
    <3>1. CASE j = Len(Asked) + 1
      BY <1>2, <1>4, <3>1
    <3>2. CASE j # Len(Asked) + 1
      <4>1. j \in i + 1 .. Len(Asked) /\ j \in 1 .. Len(Asked)
        BY <1>2, <3>2
      <4> QED
        BY <1>2, <2>1, <4>1
    <3> QED
      BY <3>1, <3>2
  <2> QED
    BY <2>1, <2>2, <2>3 DEF SizeOnItsWay, Sized
<1>5. CASE /\ ~Sized(m)
           /\ \A i \in 1 .. Len(Asked) : ~Sized(Asked[i])
           /\ kind = "tty" => ttySize = termSize
  <2>1. ASSUME NEW i \in 1 .. Len(Asked') PROVE ~Sized(Asked'[i])
    BY <1>2, <1>5
  <2> QED
    BY <1>5, <2>1 DEF SizeOnItsWay, Sized
<1> QED
  BY <1>3, <1>4, <1>5 DEF SizeOnItsWay

\* The session executes the first of what was asked.
LEMMA SizeTaken ==
  ASSUME TypeInv, SizeOnItsWay, UNCHANGED termSize,
         ExecuteFork \/ ExecuteWinsize \/ ExecuteStdin
  PROVE  SizeOnItsWay'
<1>0. Asked \in Seq(Message)
  BY AskedType
<1>1. Asked # <<>> /\ Asked[1] = inbox[1] /\ Asked' = Tail(Asked)
  BY AskedTaken
<1>2. /\ Len(Tail(Asked)) = Len(Asked) - 1 /\ Len(Asked) \in Nat /\ Len(Asked) >= 1
      /\ \A i \in 1 .. Len(Asked) - 1 : Tail(Asked)[i] = Asked[i + 1]
  BY <1>0, <1>1
<1>3. /\ Sized(Asked[1]) => (kind' = "tty" => ttySize' = Asked[1].body)
      /\ ~Sized(Asked[1]) => (kind' = "tty" => kind = "tty" /\ ttySize' = ttySize)
  BY <1>1 DEF ExecuteFork, ExecuteWinsize, ExecuteStdin, Executing, ForkTypes, KindOf, Sized
<1>4. CASE \E i \in 1 .. Len(Asked) :
             /\ Sized(Asked[i]) /\ Asked[i].body = termSize
             /\ \A j \in i + 1 .. Len(Asked) : ~Sized(Asked[j])
  <2>1. PICK i \in 1 .. Len(Asked) :
             /\ Sized(Asked[i]) /\ Asked[i].body = termSize
             /\ \A j \in i + 1 .. Len(Asked) : ~Sized(Asked[j])
    BY <1>4
  <2>2. CASE i = 1
    <3>1. ASSUME NEW k \in 1 .. Len(Asked') PROVE ~Sized(Asked'[k])
      <4>1. Asked'[k] = Asked[k + 1] /\ k + 1 \in i + 1 .. Len(Asked)
        BY <1>1, <1>2, <2>2
      <4> QED
        BY <2>1, <4>1
    <3> QED
      BY <1>3, <2>1, <2>2, <3>1 DEF SizeOnItsWay, Sized
  <2>3. CASE i # 1
    <3>1. i - 1 \in 1 .. Len(Asked') /\ Asked'[i - 1] = Asked[i]
      BY <1>1, <1>2, <2>3
    <3>2. ASSUME NEW k \in (i - 1) + 1 .. Len(Asked') PROVE ~Sized(Asked'[k])
      <4>1. Asked'[k] = Asked[k + 1] /\ k + 1 \in i + 1 .. Len(Asked)
        BY <1>1, <1>2, <2>3
      <4> QED
        BY <2>1, <4>1
    <3> QED
      BY <2>1, <3>1, <3>2 DEF SizeOnItsWay, Sized
  <2> QED
    BY <2>2, <2>3
<1>5. CASE /\ \A i \in 1 .. Len(Asked) : ~Sized(Asked[i])
           /\ kind = "tty" => ttySize = termSize
  <2>1. ASSUME NEW k \in 1 .. Len(Asked') PROVE ~Sized(Asked'[k])
    <3>1. Asked'[k] = Asked[k + 1] /\ k + 1 \in 1 .. Len(Asked)
      BY <1>1, <1>2
    <3> QED
      BY <1>5, <3>1
  <2>2. ~Sized(Asked[1])
    BY <1>2, <1>5
  <2> QED
    BY <1>3, <1>5, <2>1, <2>2 DEF SizeOnItsWay, Sized
<1> QED
  BY <1>4, <1>5 DEF SizeOnItsWay

LEMMA SizeStep ==
  ASSUME TypeInv, ClientInv, KindInv, BufferInv, TalkInv, SizeInv,
         SessionMoves, ClientTurn \/ SessionTurn
  PROVE  SizeInv'
<1>0. cwinch \in BOOLEAN /\ termSize \in Nat /\ stdinKind \in StdinKinds
  BY DEF ClientInv, ClientTypeOK
<1>1. CASE SessionTurn
  <2>1. UNCHANGED <<cpc, cout, cpending, cwinch, termSize>>
    BY <1>1 DEF SessionTurn, clientVars, userVars
  <2>2. SizeOnItsWay => SizeOnItsWay'
    <3>1. CASE ExecuteFork \/ ExecuteWinsize \/ ExecuteStdin
      BY <2>1, <3>1, SizeTaken
    <3>2. CASE ~(ExecuteFork \/ ExecuteWinsize \/ ExecuteStdin)
      BY <1>1, <2>1, <3>2, SocketKept, SendShows, AskedSame, SizeKept
         DEF SizeOnItsWay, Sized
    <3> QED
      BY <3>1, <3>2
  <2> QED
    BY <2>1, <2>2 DEF SizeInv
<1>2. CASE ClientTurn
  <2>0. UNCHANGED <<inbox, kind, ttySize, pid>>
    BY <1>2 DEF ClientTurn, serverVars, progVars
  <2>1. CASE Request
    <3> DEFINE m == RequestOf(stdinKind)
    <3>1. m \in Message /\ ClientSend(m) /\ UNCHANGED <<termSize, cpending, cwinch>> /\ cpc' = "loop"
      BY <2>1, Requests DEF Request, GoTo, userVars
    <3>2. Asked' = Append(Asked, m)
      BY <2>0, <3>1, AskedMore
    <3>3. Asked = <<>> /\ kind = "none" /\ Len(<<>>) = 0
      BY <2>1 DEF Request, At, TalkInv, BeginInv, KindInv, Asking
    <3>4. SizeOnItsWay
      BY <3>3 DEF SizeOnItsWay
    <3>5. IF Sized(m) THEN m.body = termSize ELSE SizeOnItsWay
      BY <3>4 DEF RequestOf, Msg, Sized
    <3>6. SizeOnItsWay'
      <4> HIDE DEF m
      <4> QED
        BY <2>0, <3>1, <3>2, <3>5, SizeSent
    <3> QED
      BY <3>1, <3>6 DEF SizeInv
  <2>2. CASE SendWinsize
    <3>1. /\ cpc = "winch" /\ ClientSend(cout[1]) /\ cout[1].type = "Winsize"
          /\ cout[1] \in Message /\ UNCHANGED <<termSize, cpending>> /\ cpc' = "select"
      BY <2>2, Requests DEF SendWinsize, At, GoTo, userVars, ClientInv, HoldsInv
    <3>2. Asked' = Append(Asked, cout[1])
      BY <2>0, <3>1, AskedMore
    <3>3. "WINCH" \notin cpending => SizeOnItsWay'
      BY <2>0, <3>1, <3>2, SizeSent DEF SizeInv, Sized
    <3> QED
      BY <3>1, <3>3 DEF SizeInv
  <2>3. CASE SendInput
    <3>1. /\ cpc = "send" /\ ClientSend(cout[1]) /\ cout[1].type = "StdIn"
          /\ cout[1] \in Message /\ UNCHANGED <<termSize, cpending, cwinch>> /\ cpc' = "loop"
      BY <2>3, Requests DEF SendInput, At, GoTo, userVars, ClientInv, HoldsInv
    <3>2. Asked' = Append(Asked, cout[1])
      BY <2>0, <3>1, AskedMore
    <3>3. SizeOnItsWay => SizeOnItsWay'
      BY <2>0, <3>1, <3>2, SizeSent DEF Sized
    <3> QED
      BY <3>1, <3>3 DEF SizeInv, Rounds
  <2>4. CASE ~Request /\ ~SendWinsize /\ ~SendInput
    <3>1. Asked' = Asked
      <4>1. sent' = sent
        BY <1>2, <2>4, SentOnly
      <4>2. ~(ExecuteFork \/ ExecuteWinsize \/ ExecuteStdin)
        BY <2>0 DEF ExecuteFork, ExecuteWinsize, ExecuteStdin, Executing, Executed
      <4> QED
        BY <4>1, <4>2, SendShows, AskedSame
    <3>2. termSize' = termSize /\ SizeOnItsWay => SizeOnItsWay'
      BY <2>0, <3>1 DEF SizeOnItsWay, Sized
    <3> USE DEF At, GoTo, Return, SizeInv, Rounds
    <3>3. CASE Initialize \/ MakeRaw \/ Start \/ RequestFails \/ SendFails
      BY <3>3 DEF Initialize, MakeRaw, Start, RequestFails, SendFails
    <3>4. CASE LoopHead
      BY <1>0, <3>2, <3>4 DEF LoopHead, Msg, userVars
    <3>5. CASE Scan \/ Wake \/ TimeOut
      BY <3>2, <3>5 DEF Scan, Wake, TimeOut, userVars
    <3>6. CASE ReadSession \/ SessionEndsFirst \/ SessionDone
      BY <3>2, <3>6 DEF ReadSession, SessionEndsFirst, SessionDone, userVars
    <3>7. CASE DispatchOutput \/ DispatchFails \/ DispatchStatus
      BY <3>2, <3>7 DEF DispatchOutput, DispatchFails, DispatchStatus, userVars
    <3>8. CASE ReadInput \/ InputEnds \/ InputIdle \/ ExitClient
      BY <3>2, <3>8 DEF ReadInput, InputEnds, InputIdle, ExitClient, userVars
    <3>9. CASE ClientDeliver
      <4>1. /\ cpc' # "winch" /\ (cpc' \in Rounds => cpc \in Rounds)
            /\ cwinch' = (cwinch \/ "WINCH" \in cpending) /\ termSize' = termSize
        BY <3>9 DEF ClientDeliver, ClientAfterInterrupt, ClientUnblocked, userVars
      <4>2. cwinch' = FALSE => cwinch = FALSE /\ "WINCH" \notin cpending
        BY <1>0, <4>1
      <4> QED
        BY <3>2, <4>1, <4>2
    <3>10. CASE UserTypes \/ UserEndsInput \/ UserResizes \/ UserTerminates
      BY <3>2, <3>10 DEF UserTypes, UserEndsInput, UserResizes, UserTerminates,
                         clientVars, userVars
    <3> QED
      BY <1>2, <2>4, <3>3, <3>4, <3>5, <3>6, <3>7, <3>8, <3>9, <3>10
         DEF ClientTurn, ClientSide, ClientStep, UserStep
  <2> QED
    BY <2>1, <2>2, <2>3, <2>4
<1> QED
  BY <1>1, <1>2

\* When a client sleeps with no signal to come and nothing on its way, the
\* terminal of its program has the size of its own, however often that changed
\* and in whatever place the client was at the time (jail.c:352-372).
THEOREM ResizesAreKept == Spec => []ResizeNotLost
<1>1. Init => SizeInv
  BY DEF Init, ClientInit, SizeInv, Rounds
<1>2. TypeInv /\ ClientInv /\ TalksInv /\ SizeInv /\ [Next]_vars => SizeInv'
  BY JointMoves, Turns, SizeStep DEF TalksInv
<1>3. Spec => []SizeInv
  BY <1>1, <1>2, JointTypes, JointTalks, PTL DEF Spec
<1>4. TypeInv /\ ClientInv /\ SizeInv => ResizeNotLost
  <2> SUFFICES ASSUME TypeInv, ClientInv, SizeInv, cpc = "sleep", cpending = {}, ~cwinch,
                      c2s = <<>>, inbox = <<>>, kind = "tty"
               PROVE  ttySize = termSize
    BY DEF ResizeNotLost, At
  <2>1. Asked = <<>> /\ Len(<<>>) = 0
    <3>1. <<>> \o <<>> = <<>>
      BY EmptyType, ConcatEmptySeq
    <3> QED
      BY <3>1, EmptyType DEF Asked
  <2>2. cwinch = FALSE
    BY DEF ClientInv, ClientTypeOK
  <2>3. SizeOnItsWay
    BY <2>2 DEF SizeInv, Rounds
  <2> QED
    BY <2>1, <2>3 DEF SizeOnItsWay
<1> QED
  BY <1>3, <1>4, JointTypes, PTL


-----------------------------------------------------------------------------
(***************************************************************************)
(* The two together implement RemoteExec.  What it calls the program, and  *)
(* what the program wrote per file, is seen here so:                       *)
(***************************************************************************)
FilesSeen == {TypeOf[s] : s \in Streams}
ProgramSeen == CASE prog \in {"none", "running"} -> prog [] OTHER -> "ended"
WrittenSeen == [f \in FilesSeen |-> written[CHOOSE s \in Streams : TypeOf[s] = f]]
Seen == <<ProgramSeen, code, WrittenSeen, shown, typed, consumed, exitCode>>

LEMMA StreamOf ==
  ASSUME NEW s \in Streams
  PROVE  (CHOOSE r \in Streams : TypeOf[r] = TypeOf[s]) = s
<1> DEFINE c == CHOOSE r \in Streams : TypeOf[r] = TypeOf[s]
<1>1. c \in Streams /\ TypeOf[c] = TypeOf[s]
  OBVIOUS
<1>2. \A r \in Streams : TypeOf[r] = TypeOf[s] => r = s
  BY DEF Streams, TypeOf
<1> QED
  BY <1>1, <1>2

LEMMA WrittenIsSeen ==
  /\ \A s \in Streams : TypeOf[s] \in FilesSeen /\ WrittenSeen[TypeOf[s]] = written[s]
  /\ DOMAIN WrittenSeen = FilesSeen
<1>1. ASSUME NEW s \in Streams
      PROVE  TypeOf[s] \in FilesSeen /\ WrittenSeen[TypeOf[s]] = written[s]
  <2>1. TypeOf[s] \in FilesSeen
    BY DEF FilesSeen
  <2> QED
    BY <2>1, StreamOf DEF WrittenSeen
<1> QED
  BY <1>1 DEF WrittenSeen

\* Its descriptors are open only of a program that was started.
StdioInv == stdio # {} => prog # "none"

LEMMA StdioStep ==
  ASSUME TypeInv, StdioInv, ClientTurn \/ SessionTurn PROVE StdioInv'
<1> USE DEF StdioInv
<1>1. CASE ClientTurn
  BY <1>1 DEF ClientTurn, progVars
<1>2. CASE QuietStep \/ UNCHANGED sessionVars
  BY <1>2, QuietControl DEF progVars, sessionVars
<1>3. CASE ChildMain \/ Reap \/ WriteRemote \/ ReadRemote \/ Exit \/ Killed
  BY <1>3 DEF ChildMain, Reap, WriteRemote, ReadRemote, Exit, Killed, progVars
<1>4. CASE ExecuteFork \/ ExecuteWinsize \/ ExecuteStdin
  BY <1>4 DEF ExecuteFork, ExecuteWinsize, ExecuteStdin
<1>5. CASE (\E s \in Streams : ReadOutput(s)) \/ ProgramStep
  BY <1>5 DEF ReadOutput, ProgramStep, ProgramWrites, ProgramReads, ProgramCloses,
              ProgramExits, ProgramStops, progVars
<1> QED
  BY <1>1, <1>2, <1>3, <1>4, <1>5 DEF SessionTurn, SessionSide, ServerStep, QuietStep

\* What is next in a part of the units 1, 2, ... n.
LEMMA NextUnit ==
  ASSUME NEW q \in Seq(Nat), NEW b \in Seq(Nat), NEW p \in Seq(Nat), b # <<>>,
         NEW n \in Nat, (q \o b) \o p = [i \in 1 .. n |-> i]
  PROVE  Head(b) = Len(q) + 1 /\ Len(q) < n
<1> DEFINE w == (q \o b) \o p
<1>1. Len(w) = Len(q) + Len(b) + Len(p) /\ Len(b) >= 1 /\ w[Len(q) + 1] = b[1]
  <2>1. Len(b) \in Nat /\ Len(b) # 0
    BY EmptySeq
  <2>2. Len(q \o b) = Len(q) + Len(b) /\ q \o b \in Seq(Nat) /\ Len(q) \in Nat
    OBVIOUS
  <2>3. (q \o b)[Len(q) + 1] = b[1]
    BY <2>1
  <2>4. w[Len(q) + 1] = (q \o b)[Len(q) + 1]
    <3> DEFINE a == q \o b
    <3>1. a \in Seq(Nat) /\ Len(q) + 1 \in 1 .. Len(a)
      BY <2>1, <2>2
    <3> HIDE DEF a
    <3>2. (a \o p)[Len(q) + 1] = a[Len(q) + 1]
      BY <3>1
    <3> QED
      BY <3>2 DEF a
  <2>5. Len(w) = Len(q \o b) + Len(p)
    BY <2>2
  <2> HIDE DEF w
  <2> QED
    BY <2>1, <2>2, <2>3, <2>4, <2>5 DEF w
<1>2. Len(w) = n /\ \A i \in 1 .. n : w[i] = i
  <2>1. [i \in 1 .. n |-> i] \in Seq(Nat) /\ Len([i \in 1 .. n |-> i]) = n
    OBVIOUS
  <2> QED
    BY <2>1
<1>3. Len(q) \in Nat /\ Len(b) \in Nat /\ Len(p) \in Nat
  OBVIOUS
<1>4. Len(q) + 1 \in 1 .. n
  BY <1>1, <1>2, <1>3
<1> QED
  BY <1>1, <1>2, <1>3, <1>4


\* The client returns once, a failure or what the status it has says.
LEMMA ReturnOnce ==
  ASSUME ClientTurn, exitCode' # exitCode
  PROVE  /\ cpc \notin {"exit", "gone"}
         /\ exitCode' \in {255, ExitCodeOf(cstatus)}
         /\ UNCHANGED <<typed, shown>>
<1> USE DEF At, GoTo, Return
<1>1. CASE Initialize \/ MakeRaw \/ Start \/ Request \/ RequestFails
  BY <1>1 DEF Initialize, MakeRaw, Start, Request, RequestFails, userVars
<1>2. CASE LoopHead
  BY <1>2 DEF LoopHead, userVars
<1>3. CASE SendWinsize \/ SendFails \/ SendInput \/ Scan \/ Wake \/ TimeOut
  BY <1>3 DEF SendWinsize, SendFails, SendInput, Scan, Wake, TimeOut, userVars
<1>4. CASE \/ SessionEndsFirst \/ SessionDone \/ DispatchFails \/ InputEnds
           \/ InputIdle
  BY <1>4 DEF SessionEndsFirst, SessionDone, DispatchFails, InputEnds, InputIdle, userVars
<1>5. CASE \/ ReadInput \/ ReadSession \/ DispatchOutput \/ DispatchStatus
           \/ ClientDeliver \/ ExitClient
  BY <1>5 DEF ReadInput, ReadSession, DispatchOutput, DispatchStatus, ClientDeliver,
              ExitClient
<1>6. CASE UserStep
  BY <1>6 DEF UserStep, UserTypes, UserEndsInput, UserResizes, UserTerminates, clientVars
<1> QED
  BY <1>1, <1>2, <1>3, <1>4, <1>5, <1>6 DEF ClientTurn, ClientSide, ClientStep

LEMMA ReturnMaps ==
  ASSUME TypeInv, ReportInv, ClientTurn, exitCode' # exitCode PROVE Exec!Return
<1>1. /\ exitCode = -1 /\ exitCode' \in {255, ExitCodeOf(cstatus)}
      /\ UNCHANGED <<typed, shown>>
  BY ReturnOnce DEF ReportInv, ResultInv
<1>2. UNCHANGED <<prog, code, written, consumed>>
  BY DEF ClientTurn, progVars
<1>3. exitCode' # 255 => exitCode' \in Exec!OwnCode
  <2> SUFFICES ASSUME exitCode' # 255 PROVE exitCode' \in Exec!OwnCode
    OBVIOUS
  <2>1. exitCode' = ExitCodeOf(cstatus) /\ ExitCodeOf(cstatus) # 255
    BY <1>1
  <2>2. cstatus = code /\ code \in WaitStatuses
    BY <2>1, NoCode, StatusesAssumption DEF ReportInv, KnownInv
  <2> QED
    BY <2>1, <2>2, OwnCode DEF Exec!OwnCode
<1> QED
  BY <1>1, <1>2, <1>3 DEF Exec!Return, Exec!Failure

LEMMA ShowMaps ==
  ASSUME TypeInv, ClientInv, ReportInv, OutputInOrder, ClientTurn, DispatchOutput
  PROVE  \E f \in FilesSeen : Exec!Show(f)
<1>1. /\ cpc = "dispatch" /\ cbuf # <<>> /\ UNCHANGED <<typed, exitCode>>
      /\ shown' = [shown EXCEPT ![cbuf[1].type] = Append(@, cbuf[1].body)]
      /\ cbuf[1].type \in {"StdOut", "StdErr"}
  BY DEF DispatchOutput, FileOf, At
<1>2. PICK s \in Streams : TypeOf[s] = cbuf[1].type
  BY <1>1 DEF Streams, TypeOf
<1> DEFINE q == shown[TypeOf[s]]
           ms == (cbuf \o s2c) \o outbox
           b == Bodies(ms, TypeOf[s])
<1>3. /\ cbuf \in Seq(Message) /\ s2c \in Seq(Message) /\ outbox \in Seq(Message)
      /\ pipe[s] \in Seq(Nat) /\ written[s] \in Nat /\ q \in Seq(Nat)
      /\ shown \in [{"StdOut", "StdErr"} -> Seq(Nat)]
  BY <1>1, <1>2 DEF TypeInv, TypeOK, WireTypeOK, ServerTypeOK, ProgTypeOK, ClientInv, ClientTypeOK
<1>4. ms \in Seq(Message) /\ ms # <<>> /\ ms[1] = cbuf[1]
  BY <1>1, <1>3
<1>5. b = <<cbuf[1].body>> \o Bodies(Tail(ms), TypeOf[s])
  <2> HIDE DEF ms
  <2> QED
    BY <1>2, <1>4, BodiesTail
<1>6. /\ cbuf[1].body \in Nat /\ Bodies(Tail(ms), TypeOf[s]) \in Seq(Nat)
  <2>1. cbuf[1] \in Message /\ Tail(ms) \in Seq(Message)
    <3> HIDE DEF ms
    <3> QED
      BY <1>1, <1>3, <1>4, TailType
  <2> QED
    BY <2>1, BodiesType DEF Message
<1>7. b \in Seq(Nat) /\ b # <<>> /\ Head(b) = cbuf[1].body
  <2>1. \A r \in Seq(Nat), e \in Nat :
          <<e>> \o r \in Seq(Nat) /\ <<e>> \o r # <<>> /\ Head(<<e>> \o r) = e
    OBVIOUS
  <2> QED
    BY <1>5, <1>6, <2>1
<1>8. (q \o b) \o pipe[s] = [i \in 1 .. written[s] |-> i]
  BY DEF OutputInOrder
<1>9. cbuf[1].body = Len(q) + 1 /\ Len(q) < written[s]
  <2> HIDE DEF b, q
  <2> QED
    BY <1>3, <1>7, <1>8, NextUnit
<1>10. exitCode = -1
  BY <1>1 DEF ReportInv, ResultInv
<1>11. UNCHANGED <<prog, code, written, consumed>>
  BY DEF ClientTurn, progVars
<1>12. Len(shown[TypeOf[s]]) < WrittenSeen[TypeOf[s]] /\ TypeOf[s] \in FilesSeen
  BY <1>9, WrittenIsSeen
<1>13. shown' = [shown EXCEPT ![TypeOf[s]] = Append(@, Len(@) + 1)]
  BY <1>1, <1>2, <1>9
<1>14. Exec!Show(TypeOf[s])
  <2>1. UNCHANGED <<ProgramSeen, WrittenSeen>>
    BY <1>11 DEF ProgramSeen, WrittenSeen
  <2>2. UNCHANGED <<code, typed, consumed, exitCode>>
    BY <1>1, <1>11
  <2> QED
    BY <1>10, <1>12, <1>13, <2>1, <2>2, Zenon
       DEF Exec!Show, ProgramSeen, WrittenSeen, FilesSeen
<1> QED
  BY <1>12, <1>14

LEMMA ClientMaps ==
  ASSUME TypeInv, ClientInv, ReportInv, OutputInOrder, ClientTurn
  PROVE  Exec!Next \/ UNCHANGED Seen
<1>0. UNCHANGED <<prog, code, written, consumed>>
  BY DEF ClientTurn, progVars
<1>1. CASE exitCode' # exitCode
  BY <1>1, ReturnMaps DEF Exec!Next
<1>2. CASE DispatchOutput
  BY <1>2, ShowMaps DEF Exec!Next, FilesSeen
<1>3. CASE UserTypes
  <2>1. typed' = typed + 1 /\ UNCHANGED <<shown, exitCode>>
    BY <1>3 DEF UserTypes, clientVars
  <2>2. Exec!Type
    BY <1>0, <2>1 DEF Exec!Type
  <2> QED
    BY <2>2 DEF Exec!Next
<1>4. CASE exitCode' = exitCode /\ ~DispatchOutput /\ ~UserTypes
  <2>1. UNCHANGED <<typed, shown>>
    BY <1>4, ClientCases, PlainKeeps DEF LoopHead, ReadSession, DispatchStatus, ReadInput,
       ExitClient, userVars
  <2> QED
    BY <1>0, <1>4, <2>1 DEF Seen, ProgramSeen, WrittenSeen
<1> QED
  BY <1>1, <1>2, <1>3, <1>4


\* What a step of the session, the program or the kernel does to the program.
LEMMA ProgramCases ==
  ASSUME TypeInv, PhaseInv, SessionTurn
  PROVE  \/ ExecuteFork
         \/ \E d \in {1, 2} : ProgramWrites(d)
         \/ ProgramReads
         \/ \E status \in Statuses : ProgramExits(status)
         \/ Killed /\ prog = "running"
         \/ UNCHANGED <<ProgramSeen, code, written, consumed>>
<1> USE DEF ProgramSeen
<1>1. CASE QuietStep \/ UNCHANGED sessionVars
  BY <1>1, QuietControl DEF progVars, sessionVars
<1>2. CASE ChildMain \/ WriteRemote \/ ReadRemote \/ Exit
  BY <1>2 DEF ChildMain, WriteRemote, ReadRemote, Exit, progVars
<1>3. CASE Reap
  BY <1>3 DEF Reap
<1>4. CASE Killed /\ prog # "running"
  BY <1>4 DEF Killed
<1>5. CASE ExecuteWinsize \/ ExecuteStdin
  BY <1>5 DEF ExecuteWinsize, ExecuteStdin
<1>6. CASE (\E s \in Streams : ReadOutput(s)) \/ (\E d \in {0, 1, 2} : ProgramCloses(d))
  BY <1>6 DEF ReadOutput, ProgramCloses
<1> QED
  BY <1>1, <1>2, <1>3, <1>4, <1>5, <1>6
     DEF SessionTurn, SessionSide, ServerStep, QuietStep, ProgramStep

LEMMA SessionMaps ==
  ASSUME TypeInv, PhaseInv, StdioInv, ClientInv, InputInOrder, SessionTurn
  PROVE  Exec!Next \/ UNCHANGED Seen
<1>0. UNCHANGED <<typed, shown, exitCode>>
  BY DEF SessionTurn, clientVars, userVars
<1>1. CASE ExecuteFork
  <2>1. prog = "none" /\ prog' = "running" /\ UNCHANGED <<code, written, consumed>>
    BY <1>1 DEF ExecuteFork, MayFork, PhaseInv, TypeInv, TypeOK, ServerTypeOK, ShellPid
  <2>2. Exec!Start
    BY <1>0, <2>1 DEF Exec!Start
  <2> QED
    BY <2>2 DEF Exec!Next
<1>2. ASSUME NEW d \in {1, 2}, ProgramWrites(d) PROVE Exec!Next
  <2>0. PICK s \in Streams : s = StreamBehind(d)
    BY DEF StreamBehind, Streams
  <2>1. /\ d \in stdio
        /\ written' = [written EXCEPT ![s] = @ + 1] /\ UNCHANGED <<prog, code, consumed>>
    BY <1>2, <2>0 DEF ProgramWrites
  <2>2. prog # "none" /\ ProgramSeen # "none"
    BY <2>1 DEF StdioInv, ProgramSeen
  <2>3. WrittenSeen' = [WrittenSeen EXCEPT ![TypeOf[s]] = @ + 1]
    <3>1. written \in [Streams -> Nat]
      BY DEF TypeInv, TypeOK, ProgTypeOK
    <3>2. ASSUME NEW f \in FilesSeen
          PROVE  WrittenSeen'[f] = [WrittenSeen EXCEPT ![TypeOf[s]] = @ + 1][f]
      <4>1. PICK r \in Streams : f = TypeOf[r]
        BY DEF FilesSeen
      <4>2. WrittenSeen[f] = written[r] /\ WrittenSeen'[f] = written'[r]
        <5>1. WrittenSeen'[f] = written'[CHOOSE u \in Streams : TypeOf[u] = f]
          BY DEF WrittenSeen
        <5>2. (CHOOSE u \in Streams : TypeOf[u] = f) = r
          BY <4>1, StreamOf
        <5> QED
          BY <4>1, <5>1, <5>2, WrittenIsSeen
      <4>3. TypeOf[r] = TypeOf[s] <=> r = s
        BY <2>1 DEF Streams, TypeOf
      <4>4. DOMAIN WrittenSeen = FilesSeen /\ TypeOf[s] \in FilesSeen
        BY <2>1, WrittenIsSeen
      <4> QED
        BY <2>1, <3>1, <4>1, <4>2, <4>3, <4>4
    <3> QED
      BY <3>2 DEF WrittenSeen, FilesSeen
  <2>4. TypeOf[s] \in FilesSeen
    BY <2>1 DEF FilesSeen
  <2>5. Exec!Write(TypeOf[s])
    BY <1>0, <2>1, <2>2, <2>3 DEF Exec!Write, WrittenSeen, FilesSeen, ProgramSeen
  <2>6. \E f \in FilesSeen : Exec!Write(f)
    BY <2>4, <2>5
  <2> QED
    BY <2>6 DEF Exec!Next, FilesSeen
<1>3. CASE ProgramReads
  <2>1. /\ inPipe # <<>> /\ 0 \in stdio /\ consumed' = Append(consumed, Head(inPipe))
        /\ UNCHANGED <<prog, code, written>>
    BY <1>3 DEF ProgramReads
  <2>2. ProgramSeen # "none"
    BY <2>1 DEF StdioInv, ProgramSeen
  <2>3. Head(inPipe) = Len(consumed) + 1 /\ Len(consumed) < typed
    <3> DEFINE B == Bodies((inbox \o c2s) \o cout, "StdIn")
    <3>1. /\ inbox \in Seq(Message) /\ c2s \in Seq(Message) /\ cout \in Seq(Message)
          /\ consumed \in Seq(Nat) /\ inPipe \in Seq(Nat) /\ typing \in Seq(Nat) /\ typed \in Nat
      BY DEF TypeInv, TypeOK, WireTypeOK, ServerTypeOK, ProgTypeOK, ClientInv, ClientTypeOK
    <3>2. B \in Seq(Nat)
      BY <3>1, ConcatType, BodiesType
    <3>3. ((consumed \o inPipe) \o B) \o typing = [i \in 1 .. typed |-> i]
      BY DEF InputInOrder
    <3> HIDE DEF B
    <3>4. ((consumed \o inPipe) \o B) \o typing = (consumed \o inPipe) \o (B \o typing)
      <4>1. \A a, b, c \in Seq(Nat) : (a \o b) \o c = a \o (b \o c)
        BY SMTT(60)
      <4>2. consumed \o inPipe \in Seq(Nat)
        BY <3>1, ConcatType
      <4> QED
        BY <3>1, <3>2, <4>1, <4>2, ZenonT(60)
    <3>5. B \o typing \in Seq(Nat)
      BY <3>1, <3>2, ConcatType
    <3> QED
      BY <2>1, <3>1, <3>3, <3>4, <3>5, NextUnit
  <2>4. Exec!Read
    BY <1>0, <2>1, <2>2, <2>3 DEF Exec!Read, ProgramSeen
  <2> QED
    BY <2>4 DEF Exec!Next
<1>4. CASE (\E status \in Statuses : ProgramExits(status)) \/ (Killed /\ prog = "running")
  <2>1. /\ prog = "running" /\ prog' \in {"zombie", "reaped"}
        /\ code' \in Statuses \cup {-1} /\ UNCHANGED <<written, consumed>>
    BY <1>4 DEF ProgramExits, Killed, TypeInv, TypeOK, ProgTypeOK
  <2>2. Exec!End
    BY <1>0, <2>1 DEF Exec!End
  <2> QED
    BY <2>2 DEF Exec!Next
<1>5. CASE UNCHANGED <<ProgramSeen, code, written, consumed>>
  BY <1>0, <1>5 DEF Seen, WrittenSeen
<1> QED
  BY <1>1, <1>2, <1>3, <1>4, <1>5, ProgramCases

\* Client, session, socket and kernel together do what RemoteExec says of
\* running a program: whatever its output, its input, the signals and the ways
\* to die, it is started at most once, shown and fed in order, and its result
\* is its own code, after its end, or a failure (jail.c:375-417,
\* child.c:931-983).
THEOREM ExecutesAsPromised == Spec => ExecutesRemotely
<1>1. Init => Exec!Init /\ StdioInv
  <2> SUFFICES ASSUME Init PROVE Exec!Init /\ StdioInv
    OBVIOUS
  <2>1. /\ prog = "none" /\ stdio = {} /\ code = -1 /\ consumed = <<>> /\ typed = 0
        /\ exitCode = -1
        /\ written = [s \in Streams |-> 0] /\ shown = [t \in {"StdOut", "StdErr"} |-> <<>>]
    BY DEF Init, ProgInit, ClientInit, UserInit
  <2>2. FilesSeen = {"StdOut", "StdErr"}
    BY DEF FilesSeen, Streams, TypeOf
  <2>3. WrittenSeen = [f \in FilesSeen |-> 0]
    <3>1. \A s \in Streams : WrittenSeen[TypeOf[s]] = 0
      BY <2>1, WrittenIsSeen
    <3>2. \A f \in FilesSeen : WrittenSeen[f] = 0
      BY <3>1 DEF FilesSeen
    <3> QED
      BY <3>2 DEF WrittenSeen
  <2> QED
    BY <2>1, <2>2, <2>3 DEF Exec!Init, StdioInv, WrittenSeen, FilesSeen, ProgramSeen
<1>2. TypeInv /\ ClientInv /\ StdioInv /\ [Next]_vars => StdioInv'
  BY Turns, StdioStep
<1>3. Spec => []StdioInv
  BY <1>1, <1>2, JointTypes, PTL DEF Spec
<1>4. TypeInv /\ ClientInv /\ ReportInv /\ DataInv /\ StdioInv /\ [Next]_vars
        => [Exec!Next]_Seen
  <2> SUFFICES ASSUME TypeInv, ClientInv, ReportInv, DataInv, StdioInv, [Next]_vars
               PROVE  Exec!Next \/ UNCHANGED Seen
    OBVIOUS
  <2>1. OutputInOrder /\ InputInOrder
    BY OutputOrdered, InputOrdered DEF DataInv
  <2> QED
    BY <2>1, Turns, ClientMaps, SessionMaps DEF ReportInv
<1>5. TypeInv /\ ClientInv /\ ReportInv /\ DataInv /\ StdioInv /\ [Next]_vars
        => [Exec!Next]_Exec!vars
  BY <1>4 DEF Seen, Exec!vars, ProgramSeen, WrittenSeen, FilesSeen
<1> QED
  BY <1>1, <1>3, <1>5, JointTypes, JointReports, JointData, PTL
     DEF Spec, ExecutesRemotely, Exec!Spec
=============================================================================
