---------------------------- MODULE Jaild_proofs ----------------------------
(***************************************************************************)
(* Proofs about Jaild, for any set of clients and every value of the       *)
(* bounds.                                                                 *)
(***************************************************************************)
EXTENDS Jaild, TLAPS

-----------------------------------------------------------------------------
\* Between two connections the master has none open; so it has one at most.
OneHeld == mpc \notin {"fork", "close"} => held = {}

\* There is no master before server_fork.
NotForked == bpc \in MainPlaces => mpc = "none"

TypeInv == TypeOK /\ OneHeld /\ NotForked

LEMMA TypeInit == Init => TypeInv
<1> SUFFICES ASSUME Init PROVE TypeInv
  OBVIOUS
<1>1. BabysitterTypeOK
  BY DEF Init, BabysitterTypeOK, MainPlaces
<1>2. MasterTypeOK
  BY DEF Init, MasterTypeOK
<1>3. ClientsTypeOK
  BY MaxRefusalsAssumption DEF Init, ClientsTypeOK
<1> QED
  BY <1>1, <1>2, <1>3 DEF Init, TypeInv, TypeOK, OneHeld, NotForked

\* The types of the babysitter's variables, per action.
LEMMA BabysitterTypes == ASSUME BabysitterTypeOK, [Next]_vars PROVE BabysitterTypeOK'
<1> USE DEF BabysitterTypeOK, MainPlaces, BabysitterPlaces, hostVars, babysitterVars
<1>1. CASE Bind \/ BindFails \/ Listen
  BY <1>1 DEF Bind, BindFails, AfterBindFails, Listen
<1>2. CASE StartFails
  BY <1>2 DEF StartFails, ServerStop
<1>3. CASE Daemonize \/ Detach \/ ServerFork
  BY <1>3 DEF Daemonize, Detach, ServerFork
<1>4. CASE CloseListener \/ Check \/ WaitForMaster \/ Unlink
  BY <1>4 DEF CloseListener, Check, WaitForMaster, Unlink
<1>5. CASE BabysitterDelivers
  BY <1>5 DEF BabysitterDelivers
<1>6. CASE MasterExits \/ KillMaster
  <2>1. bpending' \subseteq {"TERM", "CHLD"} /\ killed' \subseteq MayKill
    BY <1>6 DEF MasterExits, KillMaster, MasterDies
  <2>2. UNCHANGED <<hostVars, path, bpc, bterm>>
    BY <1>6 DEF MasterExits, KillMaster
  <2> QED
    BY <2>1, <2>2
<1>7. CASE \/ MasterStarts \/ MasterLoops \/ MasterReaps \/ MasterReapsNone \/ MasterClears
           \/ MasterSelects \/ MasterWakes \/ MasterTimesOut \/ MasterDelivers
  <2>1. UNCHANGED <<hostVars, path, babysitterVars>>
    BY <1>7 DEF MasterStarts, MasterLoops, MasterReaps, MasterReapsNone, MasterClears,
                MasterSelects, MasterWakes, MasterTimesOut, MasterDelivers
  <2> QED
    BY <2>1
<1>8. CASE Accept \/ AcceptFails \/ SessionStarts \/ ForkFails \/ CloseConnection
  <2>1. UNCHANGED <<hostVars, path, babysitterVars>>
    BY <1>8 DEF Accept, AcceptFails, SessionStarts, ForkFails, CloseConnection
  <2> QED
    BY <2>1
<1>9. CASE \E c \in Clients : ClientComes(c) \/ SessionEnds(c)
  BY <1>9, ZenonT(60) DEF ClientComes, SessionEnds
<1>10. CASE AskedToStop \/ MasterAsked \/ KillBabysitter \/ RivalBinds
  BY <1>10, ZenonT(60) DEF AskedToStop, MasterAsked, KillBabysitter, RivalBinds
<1>11. CASE UNCHANGED vars
  BY <1>11 DEF vars
<1>12. CASE MasterMounts
  <2>1. hostTouched' \in BOOLEAN
    BY <1>12 DEF MasterMounts
  <2> QED
    BY <1>12, <2>1 DEF MasterMounts
<1> QED
  BY <1>1, <1>2, <1>3, <1>4, <1>5, <1>6, <1>7, <1>8, <1>9, <1>10, <1>11, <1>12
     DEF Next, BabysitterStep, MasterStep, Outside, Finished

LEMMA MasterTypes == ASSUME MasterTypeOK, [Next]_vars PROVE MasterTypeOK'
<1> USE DEF MasterTypeOK, MasterLives, masterVars
<1>1. CASE Bind \/ BindFails \/ Listen \/ StartFails \/ Daemonize \/ Detach
  BY <1>1 DEF Bind, BindFails, Listen, StartFails, Daemonize, Detach
<1>2. CASE ServerFork
  BY <1>2 DEF ServerFork, MayFork
<1>3. CASE CloseListener \/ Check \/ WaitForMaster \/ Unlink \/ BabysitterDelivers
  BY <1>3 DEF CloseListener, Check, WaitForMaster, Unlink, BabysitterDelivers
<1>4. CASE MasterExits \/ KillMaster
  BY <1>4 DEF MasterExits, KillMaster, MasterDies
<1>5. CASE MasterStarts \/ MasterMounts \/ MasterLoops \/ MasterReaps \/ MasterReapsNone \/ MasterClears
  BY <1>5 DEF MasterStarts, MasterMounts, MasterLoops, MasterReaps, AfterReap, MasterReapsNone, MasterClears
<1>6. CASE MasterSelects \/ MasterWakes \/ MasterTimesOut
  BY <1>6 DEF MasterSelects, MasterWakes, MasterTimesOut
<1>7. CASE MasterDelivers
  BY <1>7 DEF MasterDelivers
<1>8. CASE Accept \/ AcceptFails \/ SessionStarts \/ ForkFails \/ CloseConnection
  BY <1>8 DEF Accept, AcceptFails, SessionStarts, ForkFails, AfterForkFails, CloseConnection
<1>9. CASE \E c \in Clients : ClientComes(c) \/ SessionEnds(c)
  BY <1>9 DEF ClientComes, SessionEnds
<1>10. CASE AskedToStop \/ MasterAsked \/ KillBabysitter \/ RivalBinds \/ UNCHANGED vars
  BY <1>10 DEF AskedToStop, MasterAsked, KillBabysitter, RivalBinds, vars
<1> QED
  BY <1>1, <1>2, <1>3, <1>4, <1>5, <1>6, <1>7, <1>8, <1>9, <1>10
     DEF Next, BabysitterStep, MasterStep, Outside, Finished

LEMMA ForkedOnce == ASSUME NotForked, [Next]_vars PROVE NotForked'
<1> USE DEF NotForked, MainPlaces, babysitterVars, masterVars
<1>1. CASE BabysitterStep
  BY <1>1 DEF BabysitterStep, Bind, BindFails, Listen, StartFails, Daemonize, Detach,
              ServerFork, CloseListener, Check, WaitForMaster, Unlink
<1>2. CASE BabysitterDelivers \/ MasterDelivers
  BY <1>2 DEF BabysitterDelivers, MasterDelivers
<1>3. CASE MasterStep
  <2> USE DEF MasterStep
  <2>1. CASE \/ MasterStarts \/ MasterMounts \/ MasterLoops \/ MasterReaps \/ MasterReapsNone
             \/ MasterClears \/ MasterSelects \/ MasterWakes \/ MasterTimesOut
    BY <2>1 DEF MasterStarts, MasterMounts, MasterLoops, MasterReaps, MasterReapsNone, MasterClears,
                MasterSelects, MasterWakes, MasterTimesOut
  <2>2. CASE Accept \/ AcceptFails \/ SessionStarts \/ ForkFails \/ CloseConnection \/ MasterExits
    BY <2>2 DEF Accept, AcceptFails, SessionStarts, ForkFails, CloseConnection, MasterExits
  <2> QED
    BY <1>3, <2>1, <2>2
<1>4. CASE Outside
  BY <1>4 DEF Outside, ClientComes, SessionEnds, AskedToStop, MasterAsked, KillBabysitter, KillMaster,
              MasterAlive, MasterLives, RivalBinds
<1>5. CASE UNCHANGED vars
  BY <1>5 DEF vars
<1> QED
  BY <1>1, <1>2, <1>3, <1>4, <1>5 DEF Next, Finished

LEMMA ClientsTypes ==
  ASSUME ClientsTypeOK, OneHeld, NotForked, [Next]_vars
  PROVE  ClientsTypeOK' /\ OneHeld'
<1> USE DEF ClientsTypeOK, OneHeld, clientVars, masterVars
<1>1. CASE Bind \/ BindFails \/ Listen \/ Daemonize \/ Detach \/ ServerFork
  BY <1>1 DEF Bind, BindFails, Listen, Daemonize, Detach, ServerFork, NotForked, MainPlaces
<1>2. CASE StartFails \/ CloseListener \/ KillBabysitter
  <2>1. queue' \subseteq Clients
    BY <1>2 DEF StartFails, CloseListener, KillBabysitter, QueueFollows
  <2> QED
    BY <1>2, <2>1 DEF StartFails, CloseListener, KillBabysitter
<1>3. CASE Check \/ WaitForMaster \/ Unlink \/ BabysitterDelivers
  BY <1>3 DEF Check, WaitForMaster, Unlink, BabysitterDelivers
<1>4. CASE MasterExits \/ KillMaster
  <2>1. session' \in [Clients -> {"none", "running", "zombie", "gone"}]
    BY <1>4 DEF MasterExits, KillMaster, MasterDies
  <2> QED
    BY <1>4, <2>1 DEF MasterExits, KillMaster, MasterDies, QueueFollows
<1>5. CASE MasterStarts \/ MasterMounts \/ MasterLoops \/ MasterReapsNone \/ MasterClears
  BY <1>5 DEF MasterStarts, MasterMounts, MasterLoops, MasterReapsNone, MasterClears
<1>6. CASE MasterReaps
  BY <1>6 DEF MasterReaps, AfterReap
<1>7. CASE MasterSelects \/ MasterWakes \/ MasterTimesOut \/ MasterDelivers
  BY <1>7 DEF MasterSelects, MasterWakes, MasterTimesOut, MasterDelivers
<1>8. CASE Accept \/ AcceptFails
  BY <1>8, MaxRefusalsAssumption DEF Accept, AcceptFails
<1>9. CASE SessionStarts \/ ForkFails \/ CloseConnection
  BY <1>9 DEF SessionStarts, ForkFails, AfterForkFails, CloseConnection
<1>10. CASE \E c \in Clients : ClientComes(c) \/ SessionEnds(c)
  BY <1>10 DEF ClientComes, SessionEnds
<1>11. CASE AskedToStop \/ MasterAsked \/ RivalBinds \/ UNCHANGED vars
  BY <1>11 DEF AskedToStop, MasterAsked, RivalBinds, vars
<1> QED
  BY <1>1, <1>2, <1>3, <1>4, <1>5, <1>6, <1>7, <1>8, <1>9, <1>10, <1>11
     DEF Next, BabysitterStep, MasterStep, Outside, Finished

\* Every variable keeps its type, and the master has at most one connection
\* open, which it closes before it comes back to its loop (jaild.c:260-271).
THEOREM TypesHold == Spec => []TypeOK
<1>1. TypeInv /\ [Next]_vars => TypeInv'
  BY BabysitterTypes, MasterTypes, ForkedOnce, ClientsTypes DEF TypeInv, TypeOK
<1>2. TypeInv => TypeOK
  BY DEF TypeInv
<1> QED
  BY TypeInit, <1>1, <1>2, PTL DEF Spec

-----------------------------------------------------------------------------
(***************************************************************************)
(* The socket's file.  It is there from bind(2) on, and it is jaild's own, *)
(* until jaild removes it in the same step as it leaves.                   *)
(***************************************************************************)
PathInv ==
  /\ bpc \notin {"begin", "gone"} => path = "own"
  /\ path = "own" /\ bpc \in {"begin", "gone"} => "babysitter" \in killed

\* The master never touches the file.
LEMMA MasterKeepsPath ==
  ASSUME MasterStep \/ MasterDelivers PROVE UNCHANGED <<path, bpc, killed>>
<1> USE DEF babysitterVars
<1>1. CASE \/ MasterStarts \/ MasterMounts \/ MasterLoops \/ MasterReaps \/ MasterReapsNone
           \/ MasterClears \/ MasterSelects \/ MasterWakes \/ MasterTimesOut
  BY <1>1 DEF MasterStarts, MasterMounts, MasterLoops, MasterReaps, MasterReapsNone, MasterClears,
              MasterSelects, MasterWakes, MasterTimesOut
<1>2. CASE \/ Accept \/ AcceptFails \/ SessionStarts \/ ForkFails \/ CloseConnection
           \/ MasterExits \/ MasterDelivers
  BY <1>2 DEF Accept, AcceptFails, SessionStarts, ForkFails, CloseConnection,
              MasterExits, MasterDelivers
<1> QED
  BY <1>1, <1>2 DEF MasterStep

LEMMA PathStep == ASSUME PathInv, [Next]_vars PROVE PathInv'
<1> USE DEF PathInv, babysitterVars
<1>1. CASE BabysitterStep
  BY <1>1 DEF BabysitterStep, Bind, BindFails, AfterBindFails, Listen, StartFails,
              ServerStop, Daemonize, Detach, ServerFork, CloseListener, Check,
              WaitForMaster, Unlink
<1>2. CASE BabysitterDelivers
  BY <1>2 DEF BabysitterDelivers, Suspended
<1>3. CASE MasterStep \/ MasterDelivers
  BY <1>3, MasterKeepsPath
<1>4. CASE Outside
  BY <1>4 DEF Outside, ClientComes, SessionEnds, AskedToStop, MasterAsked, KillBabysitter,
              KillMaster, RivalBinds
<1>5. CASE UNCHANGED vars
  BY <1>5 DEF vars
<1> QED
  BY <1>1, <1>2, <1>3, <1>4, <1>5 DEF Next, Finished

LEMMA PathInit == Init => PathInv
  BY DEF Init, PathInv

\* jaild never removes the file of a rival: neither when bind(2) has found it
\* there, nor when it shows up as soon as jaild's own is gone.
THEOREM RivalIsSafe == Spec => RivalUntouched
<1>1. PathInv /\ [Next]_vars => [path = "other" => path' = "other"]_vars
  <2> SUFFICES ASSUME PathInv, [Next]_vars, path = "other"
               PROVE  path' = "other"
    OBVIOUS
  <2> USE DEF PathInv, babysitterVars
  <2>1. CASE BabysitterStep
    BY <2>1 DEF BabysitterStep, Bind, BindFails, AfterBindFails, Listen, StartFails,
                Daemonize, Detach, ServerFork, CloseListener, Check, WaitForMaster,
                Unlink
  <2>2. CASE BabysitterDelivers
    BY <2>2 DEF BabysitterDelivers
  <2>3. CASE MasterStep \/ MasterDelivers
    BY <2>3, MasterKeepsPath
  <2>4. CASE Outside
    BY <2>4 DEF Outside, ClientComes, SessionEnds, AskedToStop, MasterAsked, KillBabysitter,
                KillMaster, RivalBinds
  <2>5. CASE UNCHANGED vars
    BY <2>5 DEF vars
  <2> QED
    BY <2>1, <2>2, <2>3, <2>4, <2>5 DEF Next, Finished
<1>2. Spec => []PathInv
  BY PathInit, PathStep, PTL DEF Spec
<1> QED
  BY <1>1, <1>2, PTL DEF Spec, RivalUntouched

-----------------------------------------------------------------------------
(***************************************************************************)
(* Master and sessions at the end: the babysitter leaves for good only     *)
(* when it has reaped the master, and the master of a namespace takes its  *)
(* sessions with it.                                                       *)
(***************************************************************************)
AllOver == \A c \in Clients : session[c] \in {"none", "gone"}

EndInv ==
  /\ bpc = "unlink" => mpc = "reaped"
  /\ bpc = "gone" /\ "babysitter" \notin killed => mpc \in {"none", "reaped"}
  /\ mpc = "none" => AllOver
  /\ cloned /\ mpc \in {"zombie", "reaped"} => AllOver

LEMMA EndStep == ASSUME TypeInv, EndInv, [Next]_vars PROVE EndInv'
<1> USE DEF EndInv, AllOver, babysitterVars, masterVars, clientVars
<1>0. /\ session \in [Clients -> {"none", "running", "zombie", "gone"}]
      /\ NotForked
  BY DEF TypeInv, TypeOK, ClientsTypeOK
<1>1. CASE BabysitterStep
  <2>1. CASE \/ Bind \/ BindFails \/ Listen \/ StartFails \/ Daemonize \/ Detach
    BY <1>0, <2>1 DEF Bind, BindFails, Listen, StartFails, Daemonize, Detach, NotForked,
                      MainPlaces
  <2>2. CASE ServerFork
    BY <2>2 DEF ServerFork
  <2>3. CASE CloseListener \/ Check \/ Unlink
    BY <2>3 DEF CloseListener, Check, Unlink
  <2>4. CASE WaitForMaster
    BY <2>4 DEF WaitForMaster
  <2> QED
    BY <1>1, <2>1, <2>2, <2>3, <2>4 DEF BabysitterStep
<1>2. CASE BabysitterDelivers
  BY <1>2 DEF BabysitterDelivers, Suspended
<1>3. CASE MasterExits \/ KillMaster
  <2>1. /\ mpc' = "zombie" /\ mpc \notin {"none", "reaped"}
        /\ bpc' = bpc /\ cloned' = cloned
        /\ killed \subseteq killed'
    BY <1>3 DEF MasterExits, KillMaster, MasterDies, MasterAlive, MasterLives
  <2>2. cloned => AllOver'
    BY <1>0, <1>3 DEF MasterExits, KillMaster, MasterDies
  <2> QED
    BY <2>1, <2>2
<1>4. CASE MasterReaps
  BY <1>0, <1>4 DEF MasterReaps, AfterReap
<1>5. CASE \/ MasterStarts \/ MasterMounts \/ MasterLoops \/ MasterReapsNone \/ MasterClears
           \/ MasterSelects \/ MasterWakes \/ MasterTimesOut \/ MasterDelivers
  BY <1>5 DEF MasterStarts, MasterMounts, MasterLoops, MasterReapsNone, MasterClears,
              MasterSelects, MasterWakes, MasterTimesOut, MasterDelivers
<1>6. CASE Accept \/ AcceptFails \/ SessionStarts \/ ForkFails \/ CloseConnection
  BY <1>6 DEF Accept, AcceptFails, SessionStarts, ForkFails, AfterForkFails,
              CloseConnection
<1>7. CASE \E c \in Clients : ClientComes(c) \/ SessionEnds(c)
  BY <1>0, <1>7 DEF ClientComes, SessionEnds
<1>8. CASE AskedToStop \/ MasterAsked \/ KillBabysitter \/ RivalBinds
  BY <1>8 DEF AskedToStop, MasterAsked, KillBabysitter, RivalBinds
<1>9. CASE UNCHANGED vars
  BY <1>9 DEF vars
<1> QED
  BY <1>1, <1>2, <1>3, <1>4, <1>5, <1>6, <1>7, <1>8, <1>9
     DEF Next, MasterStep, Outside, Finished

LEMMA EndInit == Init => EndInv
  BY DEF Init, EndInv, AllOver

\* Unless the babysitter is killed, the end of jaild leaves neither its file
\* nor a master, and with namespaces no session.
THEOREM EndsCleanly == Spec => []CleanEnd
<1>1. PathInv /\ EndInv /\ TypeInv => CleanEnd
  <2> SUFFICES ASSUME PathInv, EndInv, TypeInv, bpc = "gone", "babysitter" \notin killed
               PROVE  /\ path # "own"
                      /\ mpc \in {"none", "reaped"}
                      /\ cloned => AllOver
    BY DEF CleanEnd, AllOver
  <2> QED
    BY DEF PathInv, EndInv
<1>2. TypeInv /\ EndInv /\ [Next]_vars => EndInv'
  BY EndStep
<1>3. PathInv /\ [Next]_vars => PathInv'
  BY PathStep
<1>4. TypeInv /\ [Next]_vars => TypeInv'
  BY BabysitterTypes, MasterTypes, ForkedOnce, ClientsTypes DEF TypeInv, TypeOK
<1> QED
  BY TypeInit, PathInit, EndInit, <1>1, <1>2, <1>3, <1>4, PTL DEF Spec

-----------------------------------------------------------------------------
(***************************************************************************)
(* Signals.  SIGCHLD does not count, and its flag is cleared only after    *)
(* waitpid(2) has had nothing left to report: whoever dies between the two *)
(* is announced by a signal that stays pending meanwhile.                  *)
(***************************************************************************)
SomeZombie == \E c \in Clients : session[c] = "zombie"

NoticeInv ==
  /\ DeathsNoticed
  /\ mpc = "clear" /\ SomeZombie => "CHLD" \in mpending
  /\ mpc = "none" => ~SomeZombie

LEMMA NoticeStep == ASSUME TypeInv, NoticeInv, [Next]_vars PROVE NoticeInv'
<1> USE DEF NoticeInv, DeathsNoticed, SomeZombie, MasterAlive, MasterLives,
            masterVars, clientVars
<1>0. /\ session \in [Clients -> {"none", "running", "zombie", "gone"}]
      /\ NotForked
  BY DEF TypeInv, TypeOK, ClientsTypeOK
<1>1. CASE \/ Bind \/ BindFails \/ Listen \/ StartFails \/ Daemonize \/ Detach
  BY <1>1 DEF Bind, BindFails, Listen, StartFails, Daemonize, Detach
<1>2. CASE ServerFork
  BY <1>0, <1>2 DEF ServerFork, NotForked, MainPlaces
<1>3. CASE CloseListener \/ Check \/ WaitForMaster \/ Unlink \/ BabysitterDelivers
  BY <1>3 DEF CloseListener, Check, WaitForMaster, Unlink, BabysitterDelivers
<1>4. CASE MasterReaps
  BY <1>0, <1>4 DEF MasterReaps, AfterReap
<1>5. CASE MasterReapsNone \/ MasterClears
  BY <1>5 DEF MasterReapsNone, MasterClears
<1>6. CASE MasterStarts \/ MasterMounts \/ MasterLoops \/ MasterSelects \/ MasterWakes \/ MasterTimesOut
  BY <1>6 DEF MasterStarts, MasterMounts, MasterLoops, MasterSelects, MasterWakes, MasterTimesOut
<1>7. CASE MasterDelivers
  BY <1>7 DEF MasterDelivers, MasterUnblocked, Handled
<1>8. CASE Accept \/ AcceptFails \/ ForkFails \/ CloseConnection
  BY <1>8 DEF Accept, AcceptFails, ForkFails, AfterForkFails, CloseConnection
<1>9. CASE SessionStarts
  <2>1. SomeZombie' => SomeZombie
    BY <1>0, <1>9 DEF SessionStarts
  <2>2. mpc = "fork" /\ mpc' = "close" /\ UNCHANGED <<mchld, mpending>>
    BY <1>9 DEF SessionStarts
  <2> QED
    BY <2>1, <2>2
<1>10. CASE MasterExits \/ KillMaster
  BY <1>10 DEF MasterExits, KillMaster, MasterDies
<1>11. ASSUME NEW c \in Clients, ClientComes(c) PROVE NoticeInv'
  BY <1>11 DEF ClientComes
<1>12. ASSUME NEW c \in Clients, SessionEnds(c) PROVE NoticeInv'
  <2>1. CASE MasterAlive
    <3>1. "CHLD" \in mpending' /\ mpc' = mpc
      BY <1>12, <2>1 DEF SessionEnds
    <3> QED
      BY <2>1, <3>1
  <2>2. CASE ~MasterAlive
    <3>1. mpc' = mpc /\ (SomeZombie' => SomeZombie)
      BY <1>0, <1>12, <2>2 DEF SessionEnds
    <3> QED
      BY <2>2, <3>1
  <2> QED
    BY <2>1, <2>2
<1>13. CASE AskedToStop \/ MasterAsked \/ KillBabysitter \/ RivalBinds \/ UNCHANGED vars
  BY <1>13 DEF AskedToStop, MasterAsked, KillBabysitter, RivalBinds, vars
<1> QED
  BY <1>1, <1>2, <1>3, <1>4, <1>5, <1>6, <1>7, <1>8, <1>9, <1>10, <1>11, <1>12, <1>13
     DEF Next, BabysitterStep, MasterStep, Outside, Finished

\* However many sessions die, and whenever, none is forgotten by the master.
THEOREM DeathsAreNoticed == Spec => []DeathsNoticed
<1>1. Init => NoticeInv
  BY DEF Init, NoticeInv, DeathsNoticed, SomeZombie, MasterAlive, MasterLives
<1>2. TypeInv /\ NoticeInv /\ [Next]_vars => NoticeInv'
  BY NoticeStep
<1>3. TypeInv /\ [Next]_vars => TypeInv'
  BY BabysitterTypes, MasterTypes, ForkedOnce, ClientsTypes DEF TypeInv, TypeOK
<1>4. NoticeInv => DeathsNoticed
  BY DEF NoticeInv
<1> QED
  BY TypeInit, <1>1, <1>2, <1>3, <1>4, PTL DEF Spec

\* What each has tested on its way to sleep still holds when it sleeps.
SleepInv ==
  /\ bpc \in {"wait", "suspend"} => ~bterm
  /\ ~EmulatedPselect =>
       /\ mpc \in {"reap", "clear", "select", "sleep"} => ~mterm
       /\ mpc \in {"select", "sleep"} => ~mchld

LEMMA SleepStep == ASSUME SleepInv, [Next]_vars PROVE SleepInv'
<1> USE DEF SleepInv, babysitterVars, masterVars
<1>1. CASE BabysitterStep
  <2>1. CASE Bind \/ BindFails \/ Listen \/ StartFails \/ Daemonize \/ Detach
    BY <2>1 DEF Bind, BindFails, Listen, StartFails, Daemonize, Detach
  <2>2. CASE ServerFork
    BY <2>2 DEF ServerFork
  <2>3. CASE Check \/ WaitForMaster
    BY <2>3 DEF Check, WaitForMaster
  <2>4. CASE CloseListener \/ Unlink
    BY <2>4 DEF CloseListener, Unlink
  <2> QED
    BY <1>1, <2>1, <2>2, <2>3, <2>4 DEF BabysitterStep
<1>2. CASE BabysitterDelivers
  BY <1>2 DEF BabysitterDelivers, Suspended
<1>3. CASE MasterLoops
  BY <1>3 DEF MasterLoops
<1>4. CASE MasterReaps \/ MasterReapsNone \/ MasterClears
  BY <1>4 DEF MasterReaps, AfterReap, MasterReapsNone, MasterClears
<1>5. CASE MasterStarts \/ MasterMounts \/ MasterSelects \/ MasterWakes \/ MasterTimesOut
  BY <1>5 DEF MasterStarts, MasterMounts, MasterSelects, MasterWakes, MasterTimesOut
<1>6. CASE MasterDelivers
  <2>1. UNCHANGED <<bpc, bterm>> /\ (mpc = "sleep" => mpc' = "loop")
    BY <1>6 DEF MasterDelivers
  <2>2. ~EmulatedPselect => mpc = "sleep"
    BY <1>6 DEF MasterDelivers, MasterUnblocked
  <2> QED
    BY <2>1, <2>2
<1>7. CASE Accept \/ AcceptFails \/ SessionStarts \/ ForkFails \/ CloseConnection
  BY <1>7 DEF Accept, AcceptFails, SessionStarts, ForkFails, AfterForkFails,
              CloseConnection
<1>8. CASE MasterExits \/ KillMaster
  BY <1>8 DEF MasterExits, KillMaster, MasterDies
<1>9. CASE \E c \in Clients : ClientComes(c) \/ SessionEnds(c)
  BY <1>9 DEF ClientComes, SessionEnds
<1>10. CASE AskedToStop \/ MasterAsked \/ KillBabysitter \/ RivalBinds \/ UNCHANGED vars
  BY <1>10 DEF AskedToStop, MasterAsked, KillBabysitter, RivalBinds, vars
<1> QED
  BY <1>1, <1>2, <1>3, <1>4, <1>5, <1>6, <1>7, <1>8, <1>9, <1>10
     DEF Next, MasterStep, Outside, Finished

\* Neither process ever sleeps on a signal it has been handed and not answered.
THEOREM NobodySleepsOnSignals == Spec => []NoSignalSleptOn
<1>1. Init => SleepInv
  BY DEF Init, SleepInv
<1>2. SleepInv /\ [Next]_vars => SleepInv'
  BY SleepStep
<1>3. SleepInv => NoSignalSleptOn
  BY DEF SleepInv, NoSignalSleptOn
<1> QED
  BY <1>1, <1>2, <1>3, PTL DEF Spec

-----------------------------------------------------------------------------
(***************************************************************************)
(* Mounts.  What may be mounted is settled when the master is made.        *)
(***************************************************************************)
MountInv ==
  /\ hostTouched => cloned /\ shared
  /\ hostTouched => mpc # "none"
  /\ mpc # "none" => cloned \/ ~confined

LEMMA MountStep == ASSUME NotForked, MountInv, [Next]_vars PROVE MountInv'
<1> USE DEF MountInv, hostVars, masterVars
<1>1. CASE ServerFork
  <2>1. mpc = "none" /\ cloned' \in {TRUE} \cup (IF confined THEN {} ELSE {FALSE})
    BY <1>1 DEF ServerFork, MayFork, NotForked, MainPlaces
  <2>2. mpc' = "init" /\ UNCHANGED hostVars
    BY <1>1 DEF ServerFork
  <2>3. cloned' \/ ~confined
    BY <2>1
  <2> QED
    BY <2>1, <2>2, <2>3
<1>2. CASE MasterMounts
  <2>1. UNCHANGED <<confined, shared, cloned>> /\ mpc = "mount" /\ mpc' \in {"loop", "exit"}
    BY <1>2 DEF MasterMounts
  <2>2. hostTouched' => hostTouched \/ MountsReachHost
    BY <1>2 DEF MasterMounts
  <2>3. MountsReachHost => cloned /\ shared
    BY <2>1 DEF MountsReachHost
  <2> QED
    BY <2>1, <2>2, <2>3
<1>3. ASSUME UNCHANGED <<hostVars, cloned>>, mpc' = "none" <=> mpc = "none"
      PROVE  MountInv'
  BY <1>3
<1>4. CASE \/ Bind \/ BindFails \/ Listen \/ StartFails \/ Daemonize \/ Detach
           \/ CloseListener \/ Check \/ WaitForMaster \/ Unlink \/ BabysitterDelivers
  <2>1. UNCHANGED <<hostVars, cloned>> /\ (mpc' = "none" <=> mpc = "none")
    BY <1>4 DEF Bind, BindFails, Listen, StartFails, Daemonize, Detach, CloseListener,
                Check, WaitForMaster, Unlink, BabysitterDelivers
  <2> QED
    BY <2>1, <1>3
<1>5. CASE \/ MasterStarts \/ MasterLoops \/ MasterReaps \/ MasterReapsNone \/ MasterClears
           \/ MasterSelects \/ MasterWakes \/ MasterTimesOut \/ MasterDelivers
  <2>1. UNCHANGED <<hostVars, cloned>> /\ (mpc' = "none" <=> mpc = "none")
    BY <1>5 DEF MasterStarts, MasterLoops, MasterReaps, AfterReap, MasterReapsNone,
                MasterClears, MasterSelects, MasterWakes, MasterTimesOut, MasterDelivers
  <2> QED
    BY <2>1, <1>3
<1>6. CASE \/ Accept \/ AcceptFails \/ SessionStarts \/ ForkFails \/ CloseConnection
           \/ MasterExits \/ KillMaster
  <2>1. UNCHANGED <<hostVars, cloned>> /\ (mpc' = "none" <=> mpc = "none")
    BY <1>6 DEF Accept, AcceptFails, SessionStarts, ForkFails, AfterForkFails,
                CloseConnection, MasterExits, KillMaster, MasterDies, MasterAlive, MasterLives
  <2> QED
    BY <2>1, <1>3
<1>7. CASE \/ \E c \in Clients : ClientComes(c) \/ SessionEnds(c)
           \/ AskedToStop \/ MasterAsked \/ KillBabysitter \/ RivalBinds \/ UNCHANGED vars
  <2>1. UNCHANGED <<hostVars, cloned, mpc>>
    BY <1>7 DEF ClientComes, SessionEnds, AskedToStop, MasterAsked, KillBabysitter, RivalBinds, vars
  <2> QED
    BY <2>1, <1>3
<1> QED
  BY <1>1, <1>2, <1>4, <1>5, <1>6, <1>7
     DEF Next, BabysitterStep, MasterStep, Outside, Finished

\* The mounts of a container stay in it, on a host that does not share its own:
\* without a namespace jaild mounts nothing.
THEOREM HostIsKept == Spec => []HostTouchedOnlyIf
<1>1. Init => NotForked /\ MountInv
  BY DEF Init, NotForked, MountInv
<1>2. NotForked /\ MountInv /\ [Next]_vars => (NotForked /\ MountInv)'
  BY ForkedOnce, MountStep
<1>3. MountInv => HostTouchedOnlyIf
  BY DEF MountInv, HostTouchedOnlyIf
<1> QED
  BY <1>1, <1>2, <1>3, PTL DEF Spec

-----------------------------------------------------------------------------
(***************************************************************************)
(* The service.  What the processes do to each other, their connections    *)
(* and their queue is to a client what Service promises.                   *)
(***************************************************************************)
ServiceInv ==
  /\ queue \cup held \subseteq came
  /\ queue \cap held = {}
  /\ \A c \in Clients : session[c] # "none" => c \in came /\ c \notin queue
  /\ mpc = "fork" => \A c \in held : session[c] = "none"
  /\ ~Listening => queue = {}

LEMMA ServiceInit == Init => ServiceInv
  BY DEF Init, ServiceInv

\* A queue is cut when nobody listens any more.
LEMMA QueueCut ==
  ASSUME QueueFollows
  PROVE  /\ queue' \subseteq queue
         /\ Listening' => queue' = queue
         /\ ~Listening' => queue' = {}
  BY DEF QueueFollows

LEMMA ServiceStep == ASSUME TypeInv, ServiceInv, [Next]_vars PROVE ServiceInv'
<1> USE DEF ServiceInv, clientVars, masterVars, babysitterVars
<1>0. /\ session \in [Clients -> {"none", "running", "zombie", "gone"}]
      /\ queue \subseteq Clients /\ held \subseteq Clients
      /\ OneHeld /\ NotForked
  BY DEF TypeInv, TypeOK, ClientsTypeOK
<1>1. CASE Bind \/ BindFails \/ Listen \/ Daemonize \/ Detach
  BY <1>1 DEF Bind, BindFails, Listen, Daemonize, Detach, Listening, MasterAlive
<1>2. CASE ServerFork
  BY <1>0, <1>2 DEF ServerFork, Listening, MasterAlive, MasterLives, OneHeld,
                    NotForked, MainPlaces
<1>3. CASE StartFails \/ CloseListener \/ KillBabysitter
  BY <1>3, QueueCut DEF StartFails, CloseListener, KillBabysitter
<1>4. CASE Check \/ WaitForMaster \/ Unlink \/ BabysitterDelivers
  BY <1>4 DEF Check, WaitForMaster, Unlink, BabysitterDelivers, Suspended, Listening,
              MasterAlive, MasterLives
<1>5. CASE MasterExits \/ KillMaster
  <2>1. queue' \subseteq queue /\ (~Listening' => queue' = {})
    BY <1>5, QueueCut DEF MasterExits, KillMaster
  <2>2. /\ mpc' = "zombie" /\ held' = {} /\ came' = came
        /\ \A c \in Clients : session'[c] # "none" => session[c] # "none"
    BY <1>0, <1>5 DEF MasterExits, KillMaster, MasterDies
  <2> QED
    BY <2>1, <2>2
<1>6. CASE \/ MasterStarts \/ MasterMounts \/ MasterLoops \/ MasterReapsNone \/ MasterClears
           \/ MasterSelects \/ MasterWakes \/ MasterTimesOut \/ MasterDelivers
  BY <1>6 DEF MasterStarts, MasterMounts, MasterLoops, MasterReapsNone, MasterClears,
     MasterSelects, MasterWakes, MasterTimesOut, MasterDelivers, MasterUnblocked,
     Listening, MasterAlive, MasterLives
<1>7. CASE MasterReaps
  BY <1>0, <1>7 DEF MasterReaps, AfterReap, Listening, MasterAlive, MasterLives
<1>8. CASE Accept
  BY <1>0, <1>8 DEF Accept, Listening, MasterAlive, MasterLives, OneHeld
<1>9. CASE SessionStarts
  BY <1>0, <1>9 DEF SessionStarts, Listening, MasterAlive, MasterLives
<1>10. CASE AcceptFails \/ ForkFails \/ CloseConnection
  BY <1>10 DEF AcceptFails, ForkFails, AfterForkFails, CloseConnection, Listening,
               MasterAlive, MasterLives
<1>11. ASSUME NEW c \in Clients, ClientComes(c) PROVE ServiceInv'
  <2>1. /\ c \notin came /\ Listening /\ Listening'
        /\ UNCHANGED <<mpc, session, held>>
        /\ came' = came \cup {c} /\ queue' = queue \cup {c}
    BY <1>11 DEF ClientComes, Listening, MasterAlive
  <2> QED
    BY <1>0, <2>1
<1>12. ASSUME NEW c \in Clients, SessionEnds(c) PROVE ServiceInv'
  <2>1. /\ session[c] = "running" /\ (Listening' <=> Listening)
        /\ UNCHANGED <<mpc, queue, held, came>>
        /\ \A d \in Clients : session'[d] # "none" => session[d] # "none"
        /\ \A d \in Clients : session[d] = "none" => session'[d] = "none"
    BY <1>0, <1>12 DEF SessionEnds, Listening, MasterAlive
  <2> QED
    BY <1>0, <2>1
<1>13. CASE AskedToStop \/ MasterAsked \/ RivalBinds \/ UNCHANGED vars
  BY <1>13 DEF AskedToStop, MasterAsked, RivalBinds, vars, Listening, MasterAlive
<1> QED
  BY <1>1, <1>2, <1>3, <1>4, <1>5, <1>6, <1>7, <1>8, <1>9, <1>10, <1>11, <1>12, <1>13
     DEF Next, BabysitterStep, MasterStep, Outside, Finished

\* Steps that serve nobody and let nobody in are steps of the service if whoever
\* they concern leaves, and everyone who waits does when it closes.
Departs ==
  /\ \A c \in Clients :
       \/ ClientState(c)' = ClientState(c)
       \/ ClientState(c) \in {"waiting", "served"} /\ ClientState(c)' = "left"
  /\ \/ ServicePhase' = ServicePhase
     \/ /\ ServicePhase # "closed" /\ ServicePhase' = "closed"
        /\ \A c \in Clients : ClientState(c)' # "waiting"

LEMMA DepartsIsPromised == ASSUME Departs PROVE Promise!Next
<1> DEFINE leaving == {c \in Clients : /\ ClientState(c) \in {"waiting", "served"}
                                       /\ ClientState(c)' = "left"}
<1>0. \A c \in Clients : ClientStates[c] = ClientState(c)
  BY DEF ClientStates
<1>1. leaving \in SUBSET Promise!Present
  BY <1>0 DEF Promise!Present
<1>2. ClientStates' = Promise!Gone(leaving)
  <2>1. \A c \in Clients :
          ClientState(c)' = IF c \in leaving THEN "left" ELSE ClientStates[c]
    BY <1>0 DEF Departs
  <2>2. ClientStates' = [c \in Clients |-> ClientState(c)']
    BY DEF ClientStates
  <2> HIDE DEF leaving
  <2>3. [c \in Clients |-> ClientState(c)']
          = [c \in Clients |-> IF c \in leaving THEN "left" ELSE ClientStates[c]]
    BY <2>1, Zenon
  <2> QED
    BY <2>2, <2>3 DEF Promise!Gone
<1>3. CASE ServicePhase' = ServicePhase
  <2>1. Promise!Leave(leaving)
    BY <1>2, <1>3 DEF Promise!Leave
  <2> QED
    BY <1>1, <2>1 DEF Promise!Next
<1>4. CASE /\ ServicePhase # "closed" /\ ServicePhase' = "closed"
           /\ \A c \in Clients : ClientState(c)' # "waiting"
  <2>1. Promise!Waiting \subseteq leaving
    BY <1>0, <1>4 DEF Promise!Waiting, Departs
  <2>2. Promise!Close(leaving)
    BY <1>2, <1>4, <2>1 DEF Promise!Close
  <2> QED
    BY <1>1, <2>2 DEF Promise!Next
<1> QED
  BY <1>3, <1>4 DEF Departs

\* What a client sees depends on these alone.
LEMMA SameForClients ==
  ASSUME UNCHANGED <<came, session>>,
         \A c \in Clients : c \in queue' \cup held' <=> c \in queue \cup held,
         ServicePhase' = ServicePhase
  PROVE  Departs
<1>1. ASSUME NEW c \in Clients PROVE ClientState(c)' = ClientState(c)
  BY DEF ClientState
<1> QED
  BY <1>1 DEF Departs

\* Nobody is served or let in by the end of a process.
LEMMA EndDeparts ==
  ASSUME TypeInv, ServiceInv,
         StartFails \/ CloseListener \/ KillBabysitter \/ MasterExits \/ KillMaster
  PROVE  Departs
<1>0. /\ session \in [Clients -> {"none", "running", "zombie", "gone"}]
      /\ OneHeld /\ NotForked
  BY DEF TypeInv, TypeOK, ClientsTypeOK
<1>1. /\ came' = came /\ queue' \subseteq queue /\ held' \subseteq held
      /\ Listening' => queue' = queue
      /\ ~Listening' => queue' = {}
  BY QueueCut DEF StartFails, CloseListener, KillBabysitter, MasterExits, KillMaster,
                  MasterDies
<1>2. /\ Listening' => Listening
      /\ MasterAlive' => MasterAlive
      /\ ~MasterAlive' => held' = {}
      /\ ~Listening' => ~MasterAlive'
  BY <1>0 DEF StartFails, CloseListener, KillBabysitter, MasterExits, KillMaster,
     MasterDies, masterVars, Listening, MasterAlive, MasterLives, OneHeld
<1>3. /\ bpc' \in {"begin", "bound"} => bpc \in {"begin", "bound"} /\ bpc' = bpc
      /\ bpc \in {"begin", "bound"} => ~MasterAlive
  BY <1>0 DEF StartFails, CloseListener, KillBabysitter, MasterExits, KillMaster,
              MasterAlive, MasterLives, NotForked, MainPlaces
<1>4. ASSUME NEW c \in Clients
      PROVE  /\ session'[c] = "none" <=> session[c] = "none"
             /\ session'[c] = "running" => session[c] = "running"
  BY <1>0 DEF StartFails, CloseListener, KillBabysitter, MasterExits, KillMaster, MasterDies
<1>5. ASSUME NEW c \in Clients
      PROVE  \/ ClientState(c)' = ClientState(c)
             \/ ClientState(c) \in {"waiting", "served"} /\ ClientState(c)' = "left"
  BY <1>1, <1>4 DEF ClientState
<1>6. ~Listening' => \A c \in Clients : ClientState(c)' # "waiting"
  BY <1>1, <1>2 DEF ClientState
<1>7. \/ ServicePhase' = ServicePhase
      \/ ServicePhase # "closed" /\ ServicePhase' = "closed" /\ ~Listening'
  BY <1>2, <1>3 DEF ServicePhase, Listening
<1> QED
  BY <1>5, <1>6, <1>7 DEF Departs

LEMMA BabysitterKeepsService ==
  ASSUME TypeInv, ServiceInv,
         \/ Bind \/ BindFails \/ Daemonize \/ Detach \/ ServerFork
         \/ Check \/ WaitForMaster \/ Unlink \/ BabysitterDelivers
  PROVE  Departs
<1>0. NotForked
  BY DEF TypeInv
<1>1. UNCHANGED <<came, session, queue, held>>
  BY DEF Bind, BindFails, Daemonize, Detach, ServerFork, Check, WaitForMaster, Unlink,
         BabysitterDelivers, clientVars
<1>2. CASE Bind \/ Daemonize \/ Detach \/ ServerFork
  <2>1. ServicePhase' = ServicePhase
    BY <1>0, <1>2 DEF Bind, Daemonize, Detach, ServerFork, masterVars, ServicePhase,
       Listening, MasterAlive, MasterLives, NotForked, MainPlaces
  <2> QED
    BY <1>1, <2>1, SameForClients
<1>3. CASE Check \/ WaitForMaster \/ Unlink \/ BabysitterDelivers
  <2>1. ServicePhase' = ServicePhase
    BY <1>3 DEF Check, WaitForMaster, Unlink, BabysitterDelivers, Suspended, masterVars,
       ServicePhase, Listening, MasterAlive, MasterLives
  <2> QED
    BY <1>1, <2>1, SameForClients
<1>4. CASE BindFails
  <2>1. ~MasterAlive /\ mpc' = mpc /\ bpc = "begin" /\ bpc' = "gone"
    BY <1>0, <1>4 DEF BindFails, masterVars, NotForked, MainPlaces, MasterAlive, MasterLives
  <2>2. held = {} /\ queue = {}
    BY <2>1 DEF TypeInv, OneHeld, MasterAlive, MasterLives, ServiceInv, Listening
  <2>3. ServicePhase # "closed" /\ ServicePhase' = "closed"
    BY <2>1 DEF ServicePhase, Listening, MasterAlive
  <2>4. ASSUME NEW c \in Clients
        PROVE  ClientState(c)' = ClientState(c) /\ ClientState(c)' # "waiting"
    BY <1>1, <2>2 DEF ClientState
  <2> QED
    BY <2>3, <2>4 DEF Departs
<1> QED
  BY <1>2, <1>3, <1>4

LEMMA MasterKeepsPhase ==
  ASSUME MasterAlive, MasterAlive', bpc' = bpc PROVE ServicePhase' = ServicePhase
  BY DEF ServicePhase, Listening

LEMMA MasterKeepsService ==
  ASSUME TypeInv, ServiceInv,
         \/ MasterStep /\ ~SessionStarts
         \/ MasterDelivers
  PROVE  Departs
<1>0. session \in [Clients -> {"none", "running", "zombie", "gone"}]
  BY DEF TypeInv, TypeOK, ClientsTypeOK
<1>1. CASE MasterExits
  BY <1>1, EndDeparts
<1>2. CASE \/ MasterStarts \/ MasterMounts \/ MasterLoops \/ MasterReapsNone \/ MasterClears
           \/ MasterSelects \/ MasterWakes \/ MasterTimesOut \/ MasterDelivers
  <2>1. UNCHANGED <<came, session, queue, held, bpc>> /\ MasterAlive /\ MasterAlive'
    BY <1>2 DEF MasterStarts, MasterMounts, MasterLoops, MasterReapsNone, MasterClears,
       MasterSelects, MasterWakes, MasterTimesOut, MasterDelivers, MasterUnblocked,
       MasterAlive, MasterLives, clientVars, babysitterVars
  <2> QED
    BY <2>1, MasterKeepsPhase, SameForClients
<1>3. CASE AcceptFails \/ ForkFails \/ Accept
  <2>1. UNCHANGED <<came, session, bpc>> /\ MasterAlive /\ MasterAlive'
    BY <1>3 DEF AcceptFails, ForkFails, AfterForkFails, Accept, MasterAlive, MasterLives,
       clientVars, babysitterVars
  <2>2. \A c \in Clients : c \in queue' \cup held' <=> c \in queue \cup held
    BY <1>3 DEF AcceptFails, ForkFails, Accept, clientVars
  <2> QED
    BY <2>1, <2>2, MasterKeepsPhase, SameForClients
<1>4. CASE MasterReaps \/ CloseConnection
  <2>1. /\ UNCHANGED <<came, queue, bpc>> /\ MasterAlive /\ MasterAlive'
        /\ held' \subseteq held
    BY <1>4 DEF MasterReaps, AfterReap, CloseConnection, MasterAlive, MasterLives,
       clientVars, babysitterVars
  <2>2. ASSUME NEW c \in Clients
        PROVE  /\ session'[c] = "none" <=> session[c] = "none"
               /\ session'[c] = "running" <=> session[c] = "running"
    BY <1>0, <1>4 DEF MasterReaps, CloseConnection
  <2>3. ASSUME NEW c \in Clients
        PROVE  \/ ClientState(c)' = ClientState(c)
               \/ ClientState(c) \in {"waiting", "served"} /\ ClientState(c)' = "left"
    BY <2>1, <2>2 DEF ClientState
  <2> QED
    BY <2>1, <2>3, MasterKeepsPhase DEF Departs
<1> QED
  BY <1>1, <1>2, <1>3, <1>4 DEF MasterStep

\* The one client the master holds is the one that is served.
LEMMA SessionStartsServes ==
  ASSUME TypeInv, ServiceInv, SessionStarts
  PROVE  Promise!Next \/ UNCHANGED <<ServicePhase, ClientStates>>
<1>0. /\ session \in [Clients -> {"none", "running", "zombie", "gone"}]
      /\ held \subseteq Clients /\ \A c, d \in held : c = d
  BY DEF TypeInv, TypeOK, ClientsTypeOK
<1>1. /\ UNCHANGED <<came, queue, held, bpc>> /\ MasterAlive /\ MasterAlive'
      /\ mpc = "fork"
      /\ session' = [c \in Clients |-> IF c \in held THEN "running" ELSE session[c]]
  BY DEF SessionStarts, MasterAlive, MasterLives, babysitterVars
<1>2. ServicePhase' = ServicePhase /\ ServicePhase \in {"starting", "open"}
  BY <1>1, MasterKeepsPhase DEF ServicePhase, Listening
<1>3. ServicePhase = "open"
  BY <1>1, <1>2 DEF TypeInv, NotForked, MainPlaces, MasterAlive, MasterLives, ServicePhase
<1>4. ASSUME NEW c \in Clients, c \notin held PROVE ClientState(c)' = ClientState(c)
  BY <1>1, <1>4 DEF ClientState
<1>5. CASE held = {}
  <2>1. ClientStates' = ClientStates
    BY <1>4, <1>5 DEF ClientStates
  <2> QED
    BY <1>2, <2>1
<1>6. ASSUME NEW c \in held PROVE Promise!Next
  <2>1. c \in Clients /\ \A d \in held : d = c
    BY <1>0
  <2>2. ClientState(c) = "waiting" /\ ClientState(c)' = "served"
    BY <1>1, <2>1 DEF ServiceInv, ClientState
  <2>3. ClientStates' = [ClientStates EXCEPT ![c] = "served"]
    <3>1. \A d \in Clients : ClientState(d)' = IF d = c THEN "served" ELSE ClientState(d)
      BY <1>4, <2>1, <2>2
    <3>2. ClientStates' = [d \in Clients |-> ClientState(d)']
      BY DEF ClientStates
    <3>3. [d \in Clients |-> ClientState(d)']
            = [d \in Clients |-> IF d = c THEN "served" ELSE ClientState(d)]
      BY <3>1, Zenon
    <3>4. [ClientStates EXCEPT ![c] = "served"]
            = [d \in Clients |-> IF d = c THEN "served" ELSE ClientState(d)]
      BY DEF ClientStates
    <3> QED
      BY <3>2, <3>3, <3>4
  <2>4. ClientStates[c] = "waiting"
    BY <2>1, <2>2 DEF ClientStates
  <2>5. Promise!Serve(c)
    BY <1>2, <1>3, <2>3, <2>4 DEF Promise!Serve
  <2> QED
    BY <2>1, <2>5 DEF Promise!Next
<1> QED
  BY <1>5, <1>6

LEMMA OutsideKeepsService ==
  ASSUME TypeInv, ServiceInv, Outside
  PROVE  Promise!Next
<1>0. /\ session \in [Clients -> {"none", "running", "zombie", "gone"}]
  BY DEF TypeInv, TypeOK, ClientsTypeOK
<1>1. CASE KillBabysitter \/ KillMaster
  BY <1>1, EndDeparts, DepartsIsPromised
<1>2. CASE AskedToStop \/ MasterAsked \/ RivalBinds
  <2>1. UNCHANGED <<came, session, queue, held, bpc, mpc>>
    BY <1>2 DEF AskedToStop, MasterAsked, RivalBinds, clientVars, masterVars, babysitterVars
  <2>2. ServicePhase' = ServicePhase
    BY <2>1 DEF ServicePhase, Listening, MasterAlive
  <2> QED
    BY <2>1, <2>2, SameForClients, DepartsIsPromised
<1>3. ASSUME NEW c \in Clients, SessionEnds(c) PROVE Promise!Next
  <2>1. /\ UNCHANGED <<came, queue, held, bpc, mpc>>
        /\ session[c] = "running" /\ session'[c] \in {"zombie", "gone"}
        /\ \A d \in Clients : d # c => session'[d] = session[d]
    BY <1>0, <1>3 DEF SessionEnds, babysitterVars
  <2>2. ServicePhase' = ServicePhase
    BY <2>1 DEF ServicePhase, Listening, MasterAlive
  <2>3. ASSUME NEW d \in Clients
        PROVE  \/ ClientState(d)' = ClientState(d)
               \/ ClientState(d) \in {"waiting", "served"} /\ ClientState(d)' = "left"
    BY <2>1 DEF ClientState
  <2> QED
    BY <2>2, <2>3, DepartsIsPromised DEF Departs
<1>4. ASSUME NEW c \in Clients, ClientComes(c) PROVE Promise!Next
  <2>1. /\ UNCHANGED <<session, held, bpc, mpc>> /\ Listening
        /\ c \notin came /\ came' = came \cup {c} /\ queue' = queue \cup {c}
    BY <1>4 DEF ClientComes, babysitterVars, masterVars
  <2>2. ServicePhase' = ServicePhase /\ ServicePhase = "open"
    BY <2>1 DEF ServicePhase, Listening, MasterAlive, MasterLives, TypeInv, NotForked,
       MainPlaces
  <2>3. session[c] = "none" /\ ClientState(c) = "away" /\ ClientState(c)' = "waiting"
    BY <2>1 DEF ServiceInv, ClientState
  <2>4. \A d \in Clients : ClientState(d)' = IF d = c THEN "waiting" ELSE ClientState(d)
    <3>1. ASSUME NEW d \in Clients, d # c PROVE ClientState(d)' = ClientState(d)
      BY <2>1, <3>1 DEF ClientState
    <3> QED
      BY <2>3, <3>1
  <2>5. ClientStates' = [ClientStates EXCEPT ![c] = "waiting"]
    <3>1. ClientStates' = [d \in Clients |-> ClientState(d)']
      BY DEF ClientStates
    <3>2. [d \in Clients |-> ClientState(d)']
            = [d \in Clients |-> IF d = c THEN "waiting" ELSE ClientState(d)]
      BY <2>4, Zenon
    <3>3. [ClientStates EXCEPT ![c] = "waiting"]
            = [d \in Clients |-> IF d = c THEN "waiting" ELSE ClientState(d)]
      BY DEF ClientStates
    <3> QED
      BY <3>1, <3>2, <3>3
  <2>6. ClientStates[c] = "away"
    BY <2>3 DEF ClientStates
  <2>7. Promise!Come(c)
    BY <2>2, <2>5, <2>6 DEF Promise!Come
  <2> QED
    BY <2>7 DEF Promise!Next
<1> QED
  BY <1>1, <1>2, <1>3, <1>4 DEF Outside

LEMMA ListenOpens ==
  ASSUME TypeInv, Listen PROVE Promise!Next
<1>1. UNCHANGED <<came, session, queue, held>> /\ bpc = "bound" /\ bpc' = "daemonize"
  BY DEF Listen, clientVars
<1>2. ClientStates' = ClientStates
  BY <1>1 DEF ClientStates, ClientState
<1>3. ServicePhase = "starting" /\ ServicePhase' = "open"
  BY <1>1 DEF ServicePhase, Listening
<1>4. Promise!Open
  BY <1>2, <1>3 DEF Promise!Open
<1> QED
  BY <1>4 DEF Promise!Next

\* Whoever fails, dies or is killed, and in whatever order: each client that
\* connects is served once, by one session, or sent away; and nobody is served or
\* left waiting when the socket is closed (jaild.c:199-271, 723-754).
THEOREM ServiceIsKept == Spec => ServiceKept
<1>1. Init => Promise!Init
  <2> SUFFICES ASSUME Init PROVE Promise!Init
    OBVIOUS
  <2>1. ServicePhase = "starting"
    BY DEF Init, ServicePhase
  <2>2. \A c \in Clients : ClientState(c) = "away"
    BY DEF Init, ClientState
  <2>3. ClientStates = [c \in Clients |-> "away"]
    BY <2>2 DEF ClientStates
  <2> QED
    BY <2>1, <2>3 DEF Promise!Init
<1>2. TypeInv /\ ServiceInv /\ [Next]_vars => [Promise!Next]_Promise!vars
  <2> SUFFICES ASSUME TypeInv, ServiceInv, [Next]_vars
               PROVE  Promise!Next \/ UNCHANGED <<ServicePhase, ClientStates>>
    BY DEF Promise!vars
  <2>1. CASE BabysitterStep \/ BabysitterDelivers
    <3>1. CASE Listen
      BY <3>1, ListenOpens
    <3>2. CASE StartFails \/ CloseListener
      BY <3>2, EndDeparts, DepartsIsPromised
    <3>3. CASE \/ Bind \/ BindFails \/ Daemonize \/ Detach \/ ServerFork
               \/ Check \/ WaitForMaster \/ Unlink \/ BabysitterDelivers
      BY <3>3, BabysitterKeepsService, DepartsIsPromised
    <3> QED
      BY <2>1, <3>1, <3>2, <3>3 DEF BabysitterStep
  <2>2. CASE MasterStep \/ MasterDelivers
    BY <2>2, MasterKeepsService, SessionStartsServes, DepartsIsPromised
  <2>3. CASE Outside
    BY <2>3, OutsideKeepsService
  <2>4. CASE UNCHANGED vars
    <3>1. UNCHANGED <<came, session, queue, held, bpc, mpc>>
      BY <2>4 DEF vars, clientVars, masterVars, babysitterVars
    <3>2. UNCHANGED ClientStates
      BY <3>1 DEF ClientStates, ClientState
    <3>3. UNCHANGED ServicePhase
      BY <3>1 DEF ServicePhase, Listening, MasterAlive
    <3> QED
      BY <3>2, <3>3
  <2> QED
    BY <2>1, <2>2, <2>3, <2>4 DEF Next, Finished
<1>3. TypeInv /\ ServiceInv /\ [Next]_vars => TypeInv' /\ ServiceInv'
  BY BabysitterTypes, MasterTypes, ForkedOnce, ClientsTypes, ServiceStep DEF TypeInv, TypeOK
<1> QED
  BY TypeInit, ServiceInit, <1>1, <1>2, <1>3, PTL DEF Spec, ServiceKept, Promise!Spec
=============================================================================
