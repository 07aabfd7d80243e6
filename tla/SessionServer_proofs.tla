------------------------ MODULE SessionServer_proofs ------------------------
(***************************************************************************)
(* Theorems about a session of jaild with an arbitrary client, for every   *)
(* capacity of socket and pipes, every number of messages and units, every *)
(* set of wait statuses, and both kinds of pselect(2).                     *)
(***************************************************************************)
EXTENDS AnyClient, SessionLemmas

LEMMA AnyInit == Init => SessionInit
  BY DEF Init, SessionInit

\* An arbitrary client does what a client may do.
LEMMA AnyMoves == ASSUME TypeInv, [Next]_vars PROVE SessionMoves
<1>1. CASE ClientSends
  <2>1. Len(sent) + 1 \in Nat
    BY DEF TypeInv, TypeOK, WireTypeOK
  <2>2. Sendable \subseteq Message
    BY <2>1, SizesAssumption, RequestsAssumption DEF Sendable, Message
  <2> QED
    BY <1>1, <2>2 DEF ClientSends, ClientMay, SessionMoves
<1>2. CASE ClientConnects \/ ClientReads \/ ClientCloses
  BY <1>2 DEF ClientConnects, ClientReads, ClientCloses, ClientMay, SessionMoves
<1>3. CASE UNCHANGED vars
  BY <1>3 DEF vars, sessionVars, ClientMay, SessionMoves
<1> QED
  BY <1>1, <1>2, <1>3 DEF Next, Finished, SessionMoves

LEMMA AnyTypes == Spec => []TypeInv
  BY AnyInit, TypeInit, AnyMoves, TypeStep, PTL DEF Spec

LEMMA AnyPhases == Spec => []PhaseInv
  BY AnyInit, PhaseInit, AnyMoves, AnyTypes, PhaseStep, PTL DEF Spec

\* Every variable of a session and of its socket keeps its type, for every
\* client: what the session writes to the client is always a message of the
\* protocol, and its buffer holds nothing else (child.c:48-58, 759-832).
THEOREM TypesHold == Spec => []TypeOK
<1>1. Spec => []TypeInv
  BY AnyTypes
<1>2. TypeInv => TypeOK
  BY DEF TypeInv
<1> QED
  BY <1>1, <1>2, PTL

\* Whoever the client is, and whether or not pselect(2) is atomic: as long as
\* the session goes on, a program that died and was not reaped has SIGCHLD
\* pending or g_child_sigchld set, so that the next round reaps it.
THEOREM DeathIsNoticed == Spec => []ExitNoticed
<1>1. Spec => []DeathInv
  BY AnyInit, AnyMoves, AnyTypes, DeathInit, DeathStep, PTL DEF Spec
<1>2. DeathInv => ExitNoticed
  BY DEF DeathInv
<1> QED
  BY <1>1, <1>2, PTL

\* A session never dismisses, with its timer, a client whose program was
\* started; it leaves its loop after a status only with the program dead; and
\* child_run never ends the loop on its own (child.c:834-858, 941-944).
THEOREM EndsOnlyForCause == Spec => []EndsForCause
<1>1. Spec => []PhaseInv
  BY AnyPhases
<1>2. PhaseInv => EndsForCause
  BY DEF PhaseInv, EndsForCause
<1> QED
  BY <1>1, <1>2, PTL

\* Whatever the client does and however long the session lasts: a status is
\* the last message the session writes, it writes one at most, the program is
\* dead by then, and the status is the one it died with (child.c:888-929,
\* 941-944).
THEOREM StatusComesLast == Spec => []StatusIsLast
<1>1. Spec => []StatusInv
  BY AnyInit, AnyMoves, AnyTypes, AnyPhases, StatusInit, StatusStep, PTL DEF Spec
<1>2. StatusInv => StatusIsLast
  BY DEF StatusInv
<1> QED
  BY <1>1, <1>2, PTL


LEMMA AnyKinds == Spec => []KindInv
  BY AnyInit, KindInit, AnyMoves, AnyTypes, AnyPhases, KindStep, PTL DEF Spec

\* Whoever the client is: no unit of either output stream is lost, repeated,
\* reordered or sent as the other stream, from the write of the program to the
\* client's end of the socket (child_process_output, child.c:860-886).
THEOREM OutputIsConserved == Spec => []OutputConserved
<1>1. Spec => []StatusInv
  BY AnyInit, AnyMoves, AnyTypes, AnyPhases, StatusInit, StatusStep, PTL DEF Spec
<1> QED
  BY <1>1, AnyInit, AnyMoves, AnyTypes, OutputInit, OutputStep, PTL DEF Spec

\* Wherever read(2) cuts the stream of messages: what the program has read and
\* may still read, the session's buffer and the socket hold between them, in
\* order, all the input that the client ever sent (child_process_remote,
\* child.c:797-832; child_execute_stdin, child.c:739-757).
THEOREM InputIsConserved == Spec => []StdinConserved
<1>1. Spec => []BufferInv
  BY AnyInit, AnyMoves, AnyTypes, BufferInit, BufferStep, PTL DEF Spec
<1>2. Spec => []StdinInv
  BY <1>1, AnyInit, AnyMoves, AnyTypes, StdinInit, StdinStep, PTL DEF Spec
<1> QED
  BY <1>2, AnyTypes, StdinParts, PTL

\* The session never reads a stream that would make it wait, or that has not
\* ended: the bits of fds it acts upon are as true at the third descriptor as
\* they were when pselect(2) wrote them (child.c:955-979).
THEOREM ReadsNeverBlock == Spec => []ReadsWhatIsReady
<1>1. Spec => []ReadyInv
  BY AnyInit, AnyMoves, AnyTypes, AnyPhases, AnyKinds, ReadyInit, ReadyStep, PTL DEF Spec
<1>2. ReadyInv => ReadsWhatIsReady
  BY DEF ReadyInv, ReadsWhatIsReady, HasData, Before, Streams
<1> QED
  BY <1>1, <1>2, PTL

\* A closed descriptor left in fds ends a session in one case only, whatever
\* the kind and the order of events: the stream with the lower descriptor has
\* ended, the other not (child.c:939, 945-953).
THEOREM DescriptorOnlyOnce == Spec => []DescriptorOnlyIf
<1>1. Spec => []DescriptorInv
  BY AnyInit, AnyMoves, AnyTypes, AnyKinds, DescriptorInit, DescriptorStep, PTL DEF Spec
<1>2. DescriptorInv => DescriptorOnlyIf
  BY DEF DescriptorInv
<1> QED
  BY <1>1, <1>2, PTL

\* With an atomic pselect(2) no session goes to sleep over a death or an alarm
\* it has been told of and not acted upon (child.c:106-113, 956).
THEOREM SleepsClean == Spec => []SleepIsClean
<1>1. Spec => []SleepInv
  BY AnyInit, AnyMoves, AnyTypes, AnyPhases, SleepInit, SleepStep, PTL DEF Spec
<1>2. SleepInv => SleepIsClean
  BY DEF SleepInv, SleepIsClean
<1> QED
  BY <1>1, <1>2, PTL
=============================================================================
