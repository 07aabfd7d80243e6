---------------------------- MODULE Launch_proofs ----------------------------
(***************************************************************************)
(* Theorems about the way from the command line of jaild to a program that *)
(* runs: whatever the options and how many, the numbers given for user and *)
(* group, the size of the environment and the length of a title.           *)
(***************************************************************************)
EXTENDS Launch, SequenceLemmas, TLAPS

-----------------------------------------------------------------------------
(***************************************************************************)
(* Who changes what.  The options are parsed at the start and the title is *)
(* written once; nothing else touches the command line.                    *)
(***************************************************************************)
LEMMA CommandCases ==
  ASSUME [Next]_vars
  PROVE  \/ ReadOptions
         \/ StartMaster
         \/ UNCHANGED commandVars
  BY DEF Next, vars, StartServer, Detach, StartSession, Request, StartProgram, Finished

LEMMA GivenKept == ASSUME [Next]_vars PROVE UNCHANGED <<argv, envSize, ids>>
<1>1. CASE ReadOptions
  BY <1>1 DEF ReadOptions, CommandStep, Setup, ParseOption, ParseEnds
<1>2. CASE StartMaster
  BY <1>2 DEF StartMaster, MasterTitle
<1>3. CASE UNCHANGED commandVars
  BY <1>3 DEF commandVars
<1> QED
  BY <1>1, <1>2, <1>3, CommandCases

\* What jaild was given.
GivenInv ==
  /\ argv \in Seq(Option)
  /\ envSize \in Nat
  /\ ids \in Accounts

LEMMA GivenStep == ASSUME GivenInv, [Next]_vars PROVE GivenInv'
  BY GivenKept DEF GivenInv

LEMMA GivenStart == ASSUME Init PROVE GivenInv
<1>1. argv \in Seq(Option)
  <2>1. PICK n \in 0 .. MaxOptions : argv \in [1 .. n -> Option]
    BY DEF Init, CommandInit
  <2>2. n \in Nat
    BY CommandLineAssumption
  <2> QED
    BY <2>1, <2>2
<1>2. envSize \in Nat
  BY CommandLineAssumption DEF Init, CommandInit
<1> QED
  BY <1>1, <1>2 DEF GivenInv, Init, CommandInit

-----------------------------------------------------------------------------
(***************************************************************************)
(* The title.                                                              *)
(***************************************************************************)
Shape == [i \in 1 .. Cells |-> Original(i)]

TitleInv ==
  /\ opc # "master" => area = Shape
  /\ opc \in {"parse", "ready"} => titleSize = 1 \/ titleSize = Cells - 2
  /\ TitleInBounds

LEMMA CellsOdd ==
  ASSUME GivenInv
  PROVE  Cells \in Nat /\ Cells % 2 = 1 /\ Cells >= 3
<1>1. Len(argv) \in Nat /\ envSize \in Nat
  BY DEF GivenInv
<1> QED
  BY <1>1 DEF Cells

LEMMA ShapeKept == ASSUME [Next]_vars PROVE Cells' = Cells /\ Shape' = Shape
<1>1. Cells' = Cells
  BY GivenKept DEF Cells
<1>2. ASSUME NEW i PROVE Original(i)' = Original(i)
  BY <1>1, GivenKept DEF Original
<1> QED
  BY <1>1, <1>2 DEF Shape

LEMMA TitleWritten ==
  ASSUME GivenInv, TitleInv, MasterTitle,
         NEW i \in 1 .. Cells, i > titleSize
  PROVE  area'[i] = Original(i)
<1>1. /\ opc = "ready" /\ area = Shape /\ area' = SetProcessName
      /\ titleSize = 1 \/ titleSize = Cells - 2
  BY DEF TitleInv, MasterTitle
<1>2. Cells \in Nat /\ Cells % 2 = 1 /\ Cells >= 3
  BY CellsOdd
<1> DEFINE off == Least(PrefixLength, titleSize)
           len == Least(TitleLength, titleSize - off)
<1>3. off \in Nat /\ len \in Nat /\ off + len <= titleSize /\ titleSize \in Nat
  BY <1>1, <1>2, CommandLineAssumption DEF Least
<1>4. i \in Nat /\ i > off /\ i > off + len
  BY <1>3
<1>5. SetProcessName[i] = IF i <= ErasedTo(off, len) THEN NUL ELSE area[i]
  <2>1. i \in DOMAIN area
    BY <1>1 DEF Shape
  <2>2. ~(i <= off) /\ ~(i <= off + len)
    BY <1>3, <1>4
  <2> QED
    BY <2>1, <2>2 DEF SetProcessName
<1>6. CASE i <= ErasedTo(off, len)
  <2>1. i = titleSize + 1
    BY <1>3, <1>4, <1>6 DEF ErasedTo
  <2>2. i % 2 = 0 /\ i # Cells
    BY <1>1, <1>2, <2>1
  <2>3. Original(i) = NUL
    BY <2>2 DEF Original
  <2> QED
    BY <1>1, <1>5, <1>6, <2>3
<1>7. CASE ~(i <= ErasedTo(off, len))
  BY <1>1, <1>5, <1>7 DEF Shape
<1> QED
  BY <1>6, <1>7

LEMMA TitleStep == ASSUME GivenInv, TitleInv, [Next]_vars PROVE TitleInv'
<1>0. Cells' = Cells /\ Shape' = Shape /\ \A i \in 1 .. Cells : Original(i)' = Original(i)
  <2>1. \A i \in 1 .. Cells : Original(i)' = Original(i)
    BY ShapeKept, GivenKept DEF Original
  <2> QED
    BY <2>1, ShapeKept
<1>1. CASE StartMaster
  <2>1. MasterTitle /\ opc' = "master" /\ titleSize' = titleSize
    BY <1>1 DEF StartMaster, MasterTitle
  <2>2. ASSUME NEW i \in 1 .. Cells, i > titleSize PROVE area'[i] = Original(i)
    BY <2>1, <2>2, TitleWritten
  <2> QED
    BY <1>0, <2>1, <2>2 DEF TitleInv, TitleInBounds
<1>2. CASE ReadOptions
  <2>1. /\ area' = area /\ opc # "master" /\ opc' # "master"
        /\ opc' \in {"parse", "ready"} => titleSize' = 1 \/ titleSize' = Cells - 2
    BY <1>2 DEF ReadOptions, CommandStep, Setup, ParseOption, ParseEnds, TitleInv
  <2>2. area' = Shape
    BY <2>1 DEF TitleInv
  <2> QED
    BY <1>0, <2>1, <2>2 DEF TitleInv, TitleInBounds, Shape
<1>3. CASE UNCHANGED commandVars
  BY <1>0, <1>3 DEF commandVars, TitleInv, TitleInBounds
<1> QED
  BY <1>1, <1>2, <1>3, CommandCases

LEMMA GivenAlways == Spec => []GivenInv
  BY GivenStart, GivenStep, PTL DEF Spec

\* Wherever the memory of the command line ends, however long prefix and title
\* are, and whether or not the environment could be moved: a title is written
\* into memory that is free for it, and the zero byte that ends it is one that
\* was there (cmdline.c:196-227).
THEOREM TitleStaysInBounds == Spec => []TitleInBounds
<1>1. Init => TitleInv
  BY DEF Init, CommandInit, TitleInv, TitleInBounds, Shape
<1>2. GivenInv /\ TitleInv /\ [Next]_vars => TitleInv'
  BY TitleStep
<1>3. TitleInv => TitleInBounds
  BY DEF TitleInv
<1> QED
  BY <1>1, <1>2, <1>3, GivenAlways, PTL DEF Spec


-----------------------------------------------------------------------------
(***************************************************************************)
(* The options.  User and group are always numbers of the machine's width, *)
(* whatever was given for them.                                            *)
(***************************************************************************)
Ids == 0 .. WordSize - 1
TextPlaces == {Nowhere} \cup [of : {"copy"}, at : Nat]
Opts == [uid : Ids, gid : Ids, name : TextPlaces, shell : TextPlaces,
         root : TextPlaces, socket : TextPlaces, daemon : BOOLEAN, mounts : Nat]

OptsInv ==
  /\ opts \in Opts
  /\ opti \in Nat \ {0}
  /\ opc \in {"ready", "master"} => opts.uid > 0 /\ opts.gid > 0

LEMMA UnsignedType == \A n \in Int : Unsigned(n) \in Ids
<1> SUFFICES ASSUME NEW n \in Int PROVE n % WordSize \in 0 .. WordSize - 1
  BY DEF Unsigned, Ids
<1> QED
  BY CommandLineAssumption

LEMMA ParsedType ==
  ASSUME opts \in Opts, NEW o \in Option, NEW p \in TextPlaces
  PROVE  Parsed(o, p) \in Opts
<1>0. o.number \in Int
  <2>1. o.number \in Numbers \/ o.number = 0
    BY DEF Option
  <2>2. Numbers \subseteq Int
    BY CommandLineAssumption
  <2>3. 0 \in Int
    OBVIOUS
  <2> QED
    BY <2>1, <2>2, <2>3, Zenon
<1>1. CASE o.opt = "u"
  <2> DEFINE uid == Unsigned(atoi32(o.number))
  <2>1. o.number \in Int
    BY <1>0
  <2>2. uid \in Ids
    BY <2>1, UnsignedType DEF atoi32
  <2>3. Parsed(o, p) = [opts EXCEPT !.uid = uid, !.gid = IF @ <= 0 THEN uid ELSE @]
    BY <1>1 DEF Parsed
  <2> HIDE DEF uid
  <2> QED
    BY <2>2, <2>3 DEF Opts
<1>2. CASE o.opt = "g"
  <2> DEFINE gid == Unsigned(atoi32(o.number))
  <2>1. o.number \in Int
    BY <1>0
  <2>2. gid \in Ids
    BY <2>1, UnsignedType DEF atoi32
  <2>3. Parsed(o, p) = [opts EXCEPT !.gid = gid]
    BY <1>2 DEF Parsed
  <2> HIDE DEF gid
  <2> QED
    BY <2>2, <2>3 DEF Opts
<1>3. CASE o.opt \in {"n", "s", "a", "r"}
  BY <1>3 DEF Parsed, Opts
<1>4. CASE o.opt = "c"
  <2>1. Parsed(o, p) = [opts EXCEPT !.daemon = FALSE]
    BY <1>4 DEF Parsed
  <2> QED
    BY <2>1 DEF Opts
<1>5. CASE o.opt = "m"
  <2>1. Parsed(o, p) = [opts EXCEPT !.mounts = @ + 1] /\ opts.mounts + 1 \in Nat
    BY <1>5 DEF Parsed, Opts
  <2> QED
    BY <2>1 DEF Opts
<1>6. CASE o.opt \notin {"u", "g", "n", "s", "a", "r", "c", "m"}
  BY <1>6 DEF Parsed
<1> QED
  BY <1>1, <1>2, <1>3, <1>4, <1>5, <1>6

LEMMA OptsStart == ASSUME Init PROVE OptsInv
<1>1. ids.uid \in 0 .. WordSize - 2 /\ ids.gid \in 0 .. WordSize - 2
  BY AccountsAssumption DEF Init, CommandInit
<1>2. ids.uid \in Ids /\ ids.gid \in Ids
  BY <1>1, CommandLineAssumption DEF Ids
<1> QED
  BY <1>2 DEF Init, CommandInit, OptsInv, Opts, TextPlaces

LEMMA OptsStep == ASSUME GivenInv, OptsInv, [Next]_vars PROVE OptsInv'
<1>1. CASE Setup \/ StartMaster \/ UNCHANGED commandVars
  BY <1>1 DEF Setup, StartMaster, MasterTitle, commandVars, OptsInv
<1>2. CASE ParseOption
  <2>1. /\ opti' = opti + 1 /\ opti \in Nat \ {0} /\ opti <= Len(argv)
        /\ opts' = Parsed(argv[opti], [of |-> "copy", at |-> opti])
        /\ opc' \in {"quit", "parse"}
    BY <1>2 DEF ParseOption, Kept, OptsInv
  <2>2. argv[opti] \in Option
    BY <2>1 DEF GivenInv
  <2>3. [of |-> "copy", at |-> opti] \in TextPlaces
    BY <2>1 DEF TextPlaces
  <2>4. opts' \in Opts
    BY <2>1, <2>2, <2>3, ParsedType DEF OptsInv
  <2> QED
    BY <2>1, <2>4 DEF OptsInv
<1>3. CASE ParseEnds
  <2>1. opts' = opts /\ opti' = opti /\ opc' \in {"ready", "quit"}
        /\ (opc' = "ready" => ~(opts.uid <= 0 \/ opts.gid <= 0))
    BY <1>3 DEF ParseEnds, Acceptable
  <2>2. opts.uid \in Int /\ opts.gid \in Int
    BY DEF OptsInv, Opts, Ids
  <2> QED
    BY <2>1, <2>2 DEF OptsInv
<1> QED
  BY <1>1, <1>2, <1>3, CommandCases DEF ReadOptions, CommandStep

LEMMA OptsAlways == Spec => [](GivenInv /\ OptsInv)
  BY OptsStart, OptsStep, GivenAlways, PTL DEF Spec


-----------------------------------------------------------------------------
(***************************************************************************)
(* The texts.  An option that takes one holds the place of the last of its *)
(* kind among the copies, which nothing overwrites.                        *)
(***************************************************************************)
PlaceOf(letter, place) ==
  \/ /\ place = Nowhere
     /\ \A i \in 1 .. opti - 1 : argv[i].opt # letter
  \/ \E i \in 1 .. opti - 1 :
       /\ place = [of |-> "copy", at |-> i]
       /\ argv[i].opt = letter
       /\ \A j \in i + 1 .. opti - 1 : argv[j].opt # letter

PlaceInv ==
  /\ opti \in Nat \ {0}
  /\ PlaceOf("n", opts.name) /\ PlaceOf("s", opts.shell) /\ PlaceOf("r", opts.root)

\* One option more.
LEMMA PlaceNext ==
  ASSUME NEW letter, NEW place, NEW next, PlaceOf(letter, place),
         opti \in Nat \ {0}, opti' = opti + 1, argv' = argv,
         next = IF argv[opti].opt = letter THEN [of |-> "copy", at |-> opti] ELSE place
  PROVE  PlaceOf(letter, next)'
<1>1. \A i : i \in 1 .. opti' - 1 <=> i \in 1 .. opti - 1 \/ i = opti
  OBVIOUS
<1>2. CASE argv[opti].opt = letter
  <2>1. opti \in 1 .. opti' - 1 /\ \A j \in opti + 1 .. opti' - 1 : FALSE
    OBVIOUS
  <2> QED
    BY <1>2, <2>1 DEF PlaceOf
<1>3. CASE argv[opti].opt # letter /\ \A i \in 1 .. opti - 1 : argv[i].opt # letter
  BY <1>1, <1>3 DEF PlaceOf
<1>4. ASSUME argv[opti].opt # letter, NEW i \in 1 .. opti - 1,
             place = [of |-> "copy", at |-> i], argv[i].opt = letter,
             \A j \in i + 1 .. opti - 1 : argv[j].opt # letter
      PROVE  PlaceOf(letter, next)'
  <2>1. i \in 1 .. opti' - 1 /\ argv'[i].opt = letter /\ next = [of |-> "copy", at |-> i]
    BY <1>1, <1>4
  <2>2. \A j \in i + 1 .. opti' - 1 : argv'[j].opt # letter
    BY <1>4
  <2> QED
    BY <2>1, <2>2 DEF PlaceOf
<1> QED
  BY <1>2, <1>3, <1>4 DEF PlaceOf

LEMMA PlaceText ==
  ASSUME NEW letter, NEW place, PlaceOf(letter, place), opti \in Nat \ {0}
  PROVE  (IF place = Nowhere THEN "" ELSE Text(place)) = Given(letter)
<1> DEFINE at == {i \in 1 .. opti - 1 : argv[i].opt = letter}
           last == CHOOSE i \in at : \A j \in at : j <= i
<1>1. CASE place = Nowhere /\ \A i \in 1 .. opti - 1 : argv[i].opt # letter
  <2>1. at = {}
    BY <1>1
  <2> QED
    BY <1>1, <2>1 DEF Given
<1>2. ASSUME NEW i \in 1 .. opti - 1, place = [of |-> "copy", at |-> i],
             argv[i].opt = letter, \A j \in i + 1 .. opti - 1 : argv[j].opt # letter
      PROVE  (IF place = Nowhere THEN "" ELSE Text(place)) = Given(letter)
  <2>1. i \in at /\ \A j \in at : j <= i
    BY <1>2
  <2>2. last \in at /\ \A j \in at : j <= last
    <3> HIDE DEF at
    <3> QED
      BY <2>1
  <2>3. last = i
    <3>1. last <= i /\ i <= last /\ last \in Int /\ i \in Int
      <4>1. last \in 1 .. opti - 1
        BY <2>2
      <4> HIDE DEF last
      <4> QED
        BY <2>1, <2>2, <4>1
    <3> HIDE DEF last
    <3> QED
      BY <3>1
  <2>4. Given(letter) = argv[last].text
    BY <2>1 DEF Given
  <2>5. place # Nowhere /\ Text(place) = argv[i].text
    BY <1>2 DEF Nowhere, Text
  <2> QED
    BY <2>3, <2>4, <2>5
<1> QED
  BY <1>1, <1>2 DEF PlaceOf

LEMMA PlaceStep == ASSUME GivenInv, OptsInv, PlaceInv, [Next]_vars PROVE PlaceInv'
<1>1. CASE UNCHANGED <<opti, opts, argv>>
  BY <1>1 DEF PlaceInv, PlaceOf
<1>2. CASE StartMaster \/ UNCHANGED commandVars
  BY <1>1, <1>2 DEF StartMaster, MasterTitle, commandVars
<1>3. CASE ReadOptions
  <2>1. CASE Setup \/ ParseEnds
    BY <1>1, <2>1 DEF Setup, ParseEnds
  <2>2. CASE ParseOption
    <3>1. /\ opti' = opti + 1 /\ opti \in Nat \ {0} /\ argv' = argv
          /\ opts' = Parsed(argv[opti], [of |-> "copy", at |-> opti])
      BY <2>2 DEF ParseOption, Kept, PlaceInv
    <3> DEFINE here == [of |-> "copy", at |-> opti]
    <3>2. /\ opts'.name = IF argv[opti].opt = "n" THEN here ELSE opts.name
          /\ opts'.shell = IF argv[opti].opt = "s" THEN here ELSE opts.shell
          /\ opts'.root = IF argv[opti].opt = "r" THEN here ELSE opts.root
      BY <3>1 DEF Parsed, OptsInv, Opts
    <3>3. PlaceOf("n", opts.name)' /\ PlaceOf("s", opts.shell)' /\ PlaceOf("r", opts.root)'
      BY <3>1, <3>2, PlaceNext DEF PlaceInv
    <3> QED
      BY <3>1, <3>3 DEF PlaceInv
  <2> QED
    BY <1>3, <2>1, <2>2 DEF ReadOptions, CommandStep
<1> QED
  BY <1>2, <1>3, CommandCases

\* A name, a shell or a root that was given is used as it was given, the last
\* one if it was given twice, before and after a title is written over the
\* memory it was given in (jaild.c:590-602, cmdline.c:139-168, child.c:140-165).
THEOREM OptionsAreKept == Spec => []OptionsSurvive
<1>1. Init => PlaceInv
  BY DEF Init, CommandInit, PlaceInv, PlaceOf
<1>2. GivenInv /\ OptsInv /\ PlaceInv /\ [Next]_vars => PlaceInv'
  BY PlaceStep
<1>3. PlaceInv => OptionsSurvive
  BY PlaceText DEF PlaceInv, OptionsSurvive
<1> QED
  BY <1>1, <1>2, <1>3, OptsAlways, PTL DEF Spec


-----------------------------------------------------------------------------
(***************************************************************************)
(* Users and groups.  A client is served only if the name of its user and  *)
(* of its group is in the name of the file; a number is printed as signed, *)
(* which loses nothing of it.                                              *)
(***************************************************************************)
LEMMA SignedTells ==
  ASSUME NEW a \in Ids, NEW b \in Ids, Signed(a) = Signed(b)
  PROVE  a = b
<1>1. WordSize \in Nat \ {0} /\ MaxInt \in Int /\ MaxInt < WordSize
  BY CommandLineAssumption DEF MaxInt
<1>2. a \in Nat /\ b \in Nat /\ a < WordSize /\ b < WordSize
  BY <1>1 DEF Ids
<1> QED
  BY <1>1, <1>2 DEF Signed

Open == stage \in {"listening", "detached", "serving", "session"}
Started == xpc \in {"dropped", "forked", "session", "user", "home", "environ",
                    "args", "running"}
OfClient == [uid |-> opts.uid, gid |-> opts.gid, groups |-> {opts.gid}]

StageInv ==
  /\ Open => /\ opc \in {"ready", "master"} /\ MayGive
  /\ xpc # "idle" => stage = "session"

ServedInv ==
  stage = "session" =>
    /\ client.uid \in ClientIds /\ client.gid \in ClientIds
    /\ ClientPath(client) = SocketPath
    /\ asked.uid = opts.uid /\ asked.gid = opts.gid

CredsInv ==
  /\ xpc \in {"idle", "asked", "parsed", "opened"} => creds = ids
  /\ Started => creds = IF ids.uid = 0 THEN OfClient ELSE ids

LEMMA StageStep == ASSUME StageInv, [Next]_vars PROVE StageInv'
<1> USE DEF StageInv, Open, MayGive
<1>1. CASE ReadOptions
  BY <1>1 DEF ReadOptions, programVars, launchVars
<1>2. CASE StartServer
  BY <1>2 DEF StartServer, commandVars
<1>3. CASE Detach \/ StartSession \/ Request
  BY <1>3 DEF Detach, StartSession, Request, commandVars
<1>4. CASE StartMaster
  BY <1>4 DEF StartMaster, MasterTitle, programVars
<1>5. CASE StartProgram
  BY <1>5 DEF StartProgram, ProgramStep, ParseRequest, OpenStreams, DropPrivileges,
     ForkProgram, RestoreSignals, FindUser, GoHome, SetEnvironment, ConstructArgs,
     Execve, commandVars, launchVars
<1>6. CASE Finished \/ UNCHANGED vars
  BY <1>6 DEF Finished, vars, commandVars, programVars, launchVars
<1> QED
  BY <1>1, <1>2, <1>3, <1>4, <1>5, <1>6 DEF Next

\* A client that is served has the name of the file, and who may use it.
LEMMA OptsKept == ASSUME StageInv, Open, [Next]_vars PROVE UNCHANGED <<opts, ids>>
<1>1. ~ReadOptions
  BY DEF ReadOptions, Open
<1>2. UNCHANGED opts
  BY <1>1, CommandCases DEF StartMaster, MasterTitle, commandVars
<1> QED
  BY <1>2, GivenKept

LEMMA ServedStep == ASSUME StageInv, ServedInv, [Next]_vars PROVE ServedInv'
<1>1. CASE StartSession
  <2>1. opts' = opts /\ asked'.uid = opts.uid /\ asked'.gid = opts.gid
    BY <1>1 DEF StartSession, commandVars
  <2>2. /\ client'.uid \in ClientIds /\ client'.gid \in ClientIds
        /\ ClientPath(client') = SocketPath
    <3>1. PICK u, g \in ClientIds : client' = [uid |-> u, gid |-> g]
      BY <1>1 DEF StartSession
    <3>2. client'.uid = u /\ client'.gid = g
      BY <3>1
    <3>3. ClientPath(client') = SocketPath
      BY <1>1 DEF StartSession
    <3> QED
      BY <3>2, <3>3
  <2>3. SocketPath' = SocketPath
    BY <1>1 DEF StartSession, commandVars, SocketPath, Text, Signed
  <2> QED
    BY <2>1, <2>2, <2>3 DEF ServedInv, ClientPath, Signed
<1>2. CASE ~StartSession
  <2>1. SUFFICES ASSUME stage' = "session" PROVE ServedInv'
    BY DEF ServedInv
  <2>2. stage = "session" /\ UNCHANGED <<client, asked, commandVars>>
    <3>1. CASE ReadOptions \/ StartServer \/ Detach \/ StartMaster
      BY <2>1, <3>1 DEF ReadOptions, StartServer, Detach, StartMaster, launchVars
    <3>2. CASE Request \/ Finished \/ UNCHANGED vars
      BY <2>1, <3>2 DEF Request, Finished, vars, launchVars, programVars
    <3>3. CASE StartProgram
      BY <2>1, <3>3 DEF StartProgram, ProgramStep, ParseRequest, OpenStreams,
         DropPrivileges, ForkProgram, RestoreSignals, FindUser, GoHome, SetEnvironment,
         ConstructArgs, Execve, launchVars
    <3> QED
      BY <1>2, <3>1, <3>2, <3>3 DEF Next
  <2>3. SocketPath' = SocketPath /\ opts' = opts
    BY <2>2 DEF commandVars, SocketPath, Text, Signed
  <2> QED
    BY <2>2, <2>3 DEF ServedInv, ClientPath, Signed
<1> QED
  BY <1>1, <1>2

LEMMA CredsStep ==
  ASSUME GivenInv, StageInv, ServedInv, CredsInv, [Next]_vars PROVE CredsInv'
<1>1. CASE DropPrivileges /\ StartProgram
  <2>1. stage = "session" /\ creds = ids /\ UNCHANGED <<opts, ids>>
    BY <1>1 DEF DropPrivileges, StageInv, CredsInv, StartProgram, commandVars
  <2>2. Dropped = OfClient
    BY <2>1 DEF Dropped, OfClient, ServedInv
  <2>3. /\ xpc' \in {"dropped", "refused"}
        /\ xpc' = "dropped" => creds' = IF ids.uid = 0 THEN OfClient ELSE ids
    BY <1>1, <2>1, <2>2 DEF DropPrivileges, Refuse
  <2>4. OfClient' = OfClient
    BY <2>1 DEF OfClient
  <2> QED
    BY <2>1, <2>3, <2>4 DEF CredsInv, Started
<1>2. CASE StartProgram /\ ~DropPrivileges
  <2>1. UNCHANGED <<creds, opts, ids>>
    BY <1>2 DEF StartProgram, ProgramStep, ParseRequest, OpenStreams, ForkProgram,
       RestoreSignals, FindUser, GoHome, SetEnvironment, ConstructArgs, Execve, commandVars
  <2>2. /\ Started' => Started
        /\ xpc' \in {"idle", "asked", "parsed", "opened"}
             => xpc \in {"idle", "asked", "parsed", "opened"}
    <3> USE DEF Started, Refuse, ExitFailure
    <3>1. CASE ParseRequest \/ OpenStreams
      BY <3>1 DEF ParseRequest, OpenStreams
    <3>2. CASE ForkProgram \/ RestoreSignals \/ FindUser
      BY <3>2 DEF ForkProgram, RestoreSignals, FindUser
    <3>3. CASE GoHome \/ SetEnvironment
      BY <3>3 DEF GoHome, SetEnvironment
    <3>4. CASE ConstructArgs \/ Execve
      BY <3>4 DEF ConstructArgs, Execve
    <3> QED
      BY <1>2, <3>1, <3>2, <3>3, <3>4 DEF StartProgram, ProgramStep
  <2> QED
    BY <2>1, <2>2 DEF CredsInv, OfClient
<1>3. CASE Request
  BY <1>3, GivenKept DEF Request, CredsInv, Started
<1>4. CASE ~StartProgram /\ ~Request
  <2>1. UNCHANGED <<xpc, creds>>
    BY <1>4 DEF Next, ReadOptions, StartServer, Detach, StartMaster, StartSession,
                Finished, vars, programVars
  <2>2. Started => UNCHANGED opts
    <3>1. Started => Open
      BY DEF Started, StageInv, Open
    <3> QED
      BY <3>1, OptsKept
  <2> QED
    BY <2>1, <2>2, GivenKept DEF CredsInv, Started, OfClient
<1> QED
  BY <1>1, <1>2, <1>3, <1>4

AccountInv == GivenInv /\ OptsInv /\ StageInv /\ ServedInv /\ CredsInv

LEMMA ClientIsNamed ==
  ASSUME AccountInv, Running
  PROVE  /\ client.uid = opts.uid /\ client.gid = opts.gid /\ opts.uid # NoId
         /\ opts.uid > 0 /\ opts.gid > 0 /\ opts.gid # NoId
         /\ creds = IF ids.uid = 0 THEN OfClient ELSE ids
         /\ MayGive
<1>1. stage = "session" /\ xpc = "running"
  BY DEF AccountInv, Running, StageInv
<1>2. /\ ClientPath(client) = SocketPath
      /\ client.uid \in ClientIds /\ client.gid \in ClientIds
  BY <1>1 DEF AccountInv, ServedInv
<1>3. Signed(client.uid) = Signed(opts.uid) /\ Signed(client.gid) = Signed(opts.gid)
  BY <1>2 DEF ClientPath, SocketPath
<1>4. /\ WordSize \in Nat /\ client.uid \in 0 .. WordSize - 2
      /\ client.gid \in 0 .. WordSize - 2
  BY <1>2, CommandLineAssumption, LaunchAssumption
<1>5. /\ client.uid \in Ids /\ client.gid \in Ids
      /\ client.uid # NoId /\ client.gid # NoId
  BY <1>4 DEF Ids, NoId
<1>6. opts.uid \in Ids /\ opts.gid \in Ids
  BY DEF AccountInv, OptsInv, Opts
<1>7. client.uid = opts.uid /\ client.gid = opts.gid
  BY <1>3, <1>5, <1>6, SignedTells
<1>8. /\ opc \in {"ready", "master"} /\ MayGive
  BY <1>1 DEF AccountInv, StageInv, Open
<1>9. opts.uid > 0 /\ opts.gid > 0
  BY <1>8 DEF AccountInv, OptsInv
<1>10. creds = IF ids.uid = 0 THEN OfClient ELSE ids
  BY <1>1 DEF AccountInv, CredsInv, Started
<1> QED
  BY <1>5, <1>7, <1>8, <1>9, <1>10

\* Whatever is given to -u and -g, numbers out of range and no numbers included,
\* and whoever starts jaild, in whatever groups: a program runs as the user of the
\* client it was started for, never as root, and, if root started jaild, in the
\* client's group alone, which is not root's; else in the groups jaild has, of
\* which the client's is one (jaild.c:177-178, 563-633, child.c:60-74,
\* jail.c:554).
THEOREM ProgramsRunAsClients == Spec => []RunsAsClient
<1>1. Init => AccountInv
  <2> SUFFICES ASSUME Init PROVE AccountInv
    OBVIOUS
  <2>1. GivenInv /\ OptsInv
    BY GivenStart, OptsStart
  <2>2. stage = "start" /\ xpc = "idle" /\ creds = ids
    BY DEF Init, ProgramInit
  <2> QED
    BY <2>1, <2>2 DEF AccountInv, StageInv, ServedInv, CredsInv, Open, Started
<1>2. AccountInv /\ [Next]_vars => AccountInv'
  BY GivenStep, OptsStep, StageStep, ServedStep, CredsStep DEF AccountInv
<1>3. AccountInv => RunsAsClient
  <2> SUFFICES ASSUME AccountInv, Running
               PROVE  /\ creds.uid = client.uid /\ creds.uid > 0 /\ client.gid > 0
                      /\ IF ids.uid = 0
                           THEN creds.gid = client.gid /\ creds.groups = {client.gid}
                           ELSE creds = ids /\ client.gid \in ids.groups \cup {ids.gid}
    BY DEF RunsAsClient
  <2>1. /\ client.uid = opts.uid /\ client.gid = opts.gid /\ opts.uid # NoId
        /\ opts.uid > 0 /\ opts.gid > 0 /\ opts.gid # NoId
        /\ creds = IF ids.uid = 0 THEN OfClient ELSE ids
        /\ MayGive
    BY ClientIsNamed
  <2>2. CASE ids.uid = 0
    BY <2>1, <2>2 DEF OfClient
  <2>3. CASE ids.uid # 0
    <3>1. opts.uid = ids.uid /\ opts.gid \in ids.groups \cup {ids.gid, NoId}
      BY <2>1, <2>3 DEF MayGive
    <3> QED
      BY <2>1, <2>3, <3>1
  <2> QED
    BY <2>2, <2>3
<1> QED
  BY <1>1, <1>2, <1>3, PTL DEF Spec

-----------------------------------------------------------------------------
(***************************************************************************)
(* Lists of strings.  The recursive functions of Codec, for lists of any   *)
(* length, and what an environment keeps when it is filtered.              *)
(***************************************************************************)
\* The recursion in Bytes, as a function on 0 .. k.
SizeNext(ss, f, n) ==
  IF n = 0 THEN 0 ELSE f[n - 1] + Strlen(ss[n]) + 1

SizeUpTo(ss, f, k) == f = [n \in 0 .. k |-> SizeNext(ss, f, n)]

LEMMA SizeExists ==
  ASSUME NEW ss PROVE \A k \in Nat : \E f : SizeUpTo(ss, f, k)
<1> DEFINE T == {k \in Nat : \E f : SizeUpTo(ss, f, k)}
<1>1. 0 \in T
  <2>1. SizeUpTo(ss, [n \in 0 .. 0 |-> 0], 0)
    BY DEF SizeUpTo, SizeNext
  <2> QED
    BY <2>1
<1>2. ASSUME NEW k \in Nat, k \in T PROVE k + 1 \in T
  <2>1. PICK f : SizeUpTo(ss, f, k)
    BY <1>2
  <2> DEFINE g == [n \in 0 .. k + 1 |-> IF n <= k THEN f[n] ELSE SizeNext(ss, f, n)]
  <2>2. \A n \in 0 .. k + 1 : n <= k => f[n] = SizeNext(ss, f, n)
    BY <2>1 DEF SizeUpTo
  <2>3. \A n \in 0 .. k + 1 : SizeNext(ss, g, n) = SizeNext(ss, f, n)
    BY DEF SizeNext
  <2>4. g = [n \in 0 .. k + 1 |-> IF n <= k THEN f[n] ELSE SizeNext(ss, f, n)]
    OBVIOUS
  <2>5. g = [n \in 0 .. k + 1 |-> SizeNext(ss, g, n)]
    <3> HIDE DEF g
    <3> QED
      BY <2>2, <2>3, <2>4
  <2>6. SizeUpTo(ss, g, k + 1)
    BY <2>5 DEF SizeUpTo
  <2> QED
    BY <2>6
<1>3. Nat \subseteq T
  <2> HIDE DEF T
  <2> QED
    BY <1>1, <1>2, NatSets
<1> QED
  BY <1>3

LEMMA SizeUnfold ==
  ASSUME NEW ss, Len(ss) \in Nat
  PROVE  \E f : SizeUpTo(ss, f, Len(ss)) /\ Bytes(ss) = f[Len(ss)]
<1> DEFINE F == CHOOSE f : SizeUpTo(ss, f, Len(ss))
<1>1. Bytes(ss) = F[Len(ss)]
  BY DEF Bytes, SizeUpTo, SizeNext
<1>2. SizeUpTo(ss, F, Len(ss))
  BY SizeExists
<1> QED
  BY <1>1, <1>2

\* A list has a size.
LEMMA BytesType == \A ss \in Seq(Strings) : Bytes(ss) \in Nat
<1> SUFFICES ASSUME NEW ss \in Seq(Strings) PROVE Bytes(ss) \in Nat
  OBVIOUS
<1>0. \A s \in Strings : Strlen(s) \in Nat
  BY CodecAssumption, Zenon
<1>1. Len(ss) \in Nat /\ \A n \in 1 .. Len(ss) : Strlen(ss[n]) \in Nat
  BY <1>0
<1>2. PICK F : SizeUpTo(ss, F, Len(ss)) /\ Bytes(ss) = F[Len(ss)]
  BY <1>1, SizeUnfold
<1>3. \A n \in 0 .. Len(ss) : F[n] = SizeNext(ss, F, n)
  BY <1>2 DEF SizeUpTo
<1> DEFINE T == {n \in Nat : n <= Len(ss) => F[n] \in Nat}
<1>4. 0 \in T
  BY <1>1, <1>3 DEF SizeNext
<1>5. ASSUME NEW n \in Nat, n \in T PROVE n + 1 \in T
  BY <1>1, <1>3, <1>5 DEF SizeNext
<1>6. Nat \subseteq T
  <2> HIDE DEF T
  <2> QED
    BY <1>4, <1>5, NatSets
<1> QED
  BY <1>1, <1>2, <1>6

\* The recursion in PermittedOnly, as a function on 0 .. k.
KeptNext(ss, f, n) ==
  IF n = 0 THEN <<>>
  ELSE IF Permitted(ss[n]) THEN Append(f[n - 1], ss[n])
  ELSE f[n - 1]

KeptUpTo(ss, f, k) == f = [n \in 0 .. k |-> KeptNext(ss, f, n)]

LEMMA KeptExists ==
  ASSUME NEW ss PROVE \A k \in Nat : \E f : KeptUpTo(ss, f, k)
<1> DEFINE T == {k \in Nat : \E f : KeptUpTo(ss, f, k)}
<1>1. 0 \in T
  <2>1. KeptUpTo(ss, [n \in 0 .. 0 |-> <<>>], 0)
    BY DEF KeptUpTo, KeptNext
  <2> QED
    BY <2>1
<1>2. ASSUME NEW k \in Nat, k \in T PROVE k + 1 \in T
  <2>1. PICK f : KeptUpTo(ss, f, k)
    BY <1>2
  <2> DEFINE g == [n \in 0 .. k + 1 |-> IF n <= k THEN f[n] ELSE KeptNext(ss, f, n)]
  <2>2. \A n \in 0 .. k + 1 : n <= k => f[n] = KeptNext(ss, f, n)
    BY <2>1 DEF KeptUpTo
  <2>3. \A n \in 0 .. k + 1 : KeptNext(ss, g, n) = KeptNext(ss, f, n)
    BY DEF KeptNext
  <2>4. g = [n \in 0 .. k + 1 |-> IF n <= k THEN f[n] ELSE KeptNext(ss, f, n)]
    OBVIOUS
  <2>5. g = [n \in 0 .. k + 1 |-> KeptNext(ss, g, n)]
    <3> HIDE DEF g
    <3> QED
      BY <2>2, <2>3, <2>4
  <2>6. KeptUpTo(ss, g, k + 1)
    BY <2>5 DEF KeptUpTo
  <2> QED
    BY <2>6
<1>3. Nat \subseteq T
  <2> HIDE DEF T
  <2> QED
    BY <1>1, <1>2, NatSets
<1> QED
  BY <1>3

LEMMA KeptUnfold ==
  ASSUME NEW ss, Len(ss) \in Nat
  PROVE  \E f : KeptUpTo(ss, f, Len(ss)) /\ PermittedOnly(ss) = f[Len(ss)]
<1> DEFINE F == CHOOSE f : KeptUpTo(ss, f, Len(ss))
<1>1. PermittedOnly(ss) = F[Len(ss)]
  BY DEF PermittedOnly, KeptUpTo, KeptNext
<1>2. KeptUpTo(ss, F, Len(ss))
  BY KeptExists
<1> QED
  BY <1>1, <1>2

LEMMA KeptAgree ==
  ASSUME NEW ss, NEW ts, NEW k \in Nat, NEW l \in Nat, k <= l,
         \A n \in 1 .. k : ss[n] = ts[n],
         NEW f, KeptUpTo(ss, f, k), NEW g, KeptUpTo(ts, g, l)
  PROVE  f[k] = g[k]
<1> DEFINE T == {n \in Nat : n <= k => f[n] = g[n]}
<1>1. \A n \in 0 .. k : f[n] = KeptNext(ss, f, n)
  BY DEF KeptUpTo
<1>2. \A n \in 0 .. l : g[n] = KeptNext(ts, g, n)
  BY DEF KeptUpTo
<1>3. 0 \in T
  BY <1>1, <1>2 DEF KeptNext
<1>4. ASSUME NEW n \in Nat, n \in T PROVE n + 1 \in T
  BY <1>1, <1>2, <1>4 DEF KeptNext
<1>5. Nat \subseteq T
  <2> HIDE DEF T
  <2> QED
    BY <1>3, <1>4, NatSets
<1> QED
  BY <1>5

LEMMA PermittedEmpty == PermittedOnly(<<>>) = <<>>
<1>1. Len(<<>>) = 0
  OBVIOUS
<1>2. PICK f : KeptUpTo(<<>>, f, 0) /\ PermittedOnly(<<>>) = f[0]
  BY <1>1, KeptUnfold
<1> QED
  BY <1>2 DEF KeptUpTo, KeptNext

LEMMA PermittedAppend ==
  ASSUME NEW ss \in Seq(Strings), NEW s \in Strings
  PROVE  PermittedOnly(Append(ss, s))
           = IF Permitted(s) THEN Append(PermittedOnly(ss), s) ELSE PermittedOnly(ss)
<1> DEFINE ts == Append(ss, s)
           k == Len(ss)
<1>1. k \in Nat /\ Len(ts) = k + 1 /\ ts[k + 1] = s /\ \A n \in 1 .. k : ss[n] = ts[n]
  BY LenProperties, AppendProperties
<1> HIDE DEF ts, k
<1>2. PICK f : KeptUpTo(ss, f, k) /\ PermittedOnly(ss) = f[k]
  BY <1>1, KeptUnfold DEF k
<1>3. PICK g : KeptUpTo(ts, g, k + 1) /\ PermittedOnly(ts) = g[k + 1]
  BY <1>1, KeptUnfold
<1>4. f[k] = g[k]
  BY <1>1, <1>2, <1>3, KeptAgree
<1>5. g[k + 1] = KeptNext(ts, g, k + 1)
  BY <1>1, <1>3 DEF KeptUpTo
<1> QED
  BY <1>1, <1>2, <1>3, <1>4, <1>5 DEF KeptNext, ts

\* What may pass, and nothing else, in its order.
LEMMA PermittedType ==
  \A ss \in Seq(Strings) :
    /\ PermittedOnly(ss) \in Seq(Strings)
    /\ \A i \in 1 .. Len(PermittedOnly(ss)) :
         /\ Permitted(PermittedOnly(ss)[i])
         /\ \E j \in 1 .. Len(ss) : ss[j] = PermittedOnly(ss)[i]
<1> DEFINE Good(ss, q) ==
             /\ q \in Seq(Strings)
             /\ \A i \in 1 .. Len(q) : Permitted(q[i]) /\ \E j \in 1 .. Len(ss) : ss[j] = q[i]
           T == {ss \in Seq(Strings) : Good(ss, PermittedOnly(ss))}
<1>1. <<>> \in T
  <2>1. <<>> \in Seq(Strings) /\ Len(<<>>) = 0
    OBVIOUS
  <2>2. Good(<<>>, <<>>)
    BY <2>1
  <2> QED
    BY <2>1, <2>2, PermittedEmpty
<1>2. ASSUME NEW ss \in Seq(Strings), NEW s \in Strings, ss \in T
      PROVE  Append(ss, s) \in T
  <2> DEFINE q == PermittedOnly(ss)
             ts == Append(ss, s)
  <2>1. Good(ss, q)
    BY <1>2
  <2>2. /\ ts \in Seq(Strings) /\ Len(ts) = Len(ss) + 1 /\ ts[Len(ss) + 1] = s
        /\ Len(ss) \in Nat /\ \A j \in 1 .. Len(ss) : ts[j] = ss[j]
    BY AppendProperties, LenProperties
  <2>3. Good(ts, q)
    <3> HIDE DEF q, ts
    <3>1. \A j \in 1 .. Len(ss) : j \in 1 .. Len(ts)
      BY <2>2
    <3> QED
      BY <2>1, <2>2, <3>1
  <2>4. CASE ~Permitted(s)
    <3>1. PermittedOnly(ts) = q
      BY <2>4, PermittedAppend
    <3> QED
      BY <2>2, <2>3, <3>1
  <2>5. CASE Permitted(s)
    <3>1. PermittedOnly(ts) = Append(q, s)
      BY <2>5, PermittedAppend
    <3> HIDE DEF q, ts
    <3>2. /\ Append(q, s) \in Seq(Strings) /\ Len(Append(q, s)) = Len(q) + 1
          /\ Append(q, s)[Len(q) + 1] = s /\ Len(q) \in Nat
          /\ \A i \in 1 .. Len(q) : Append(q, s)[i] = q[i]
      BY <2>3, AppendProperties, LenProperties
    <3>3. Len(ss) + 1 \in 1 .. Len(ts)
      BY <2>2
    <3>4. ASSUME NEW i \in 1 .. Len(q) + 1
          PROVE  /\ Permitted(Append(q, s)[i])
                 /\ \E j \in 1 .. Len(ts) : ts[j] = Append(q, s)[i]
      <4>1. CASE i = Len(q) + 1
        BY <2>2, <2>5, <3>2, <3>3, <4>1
      <4>2. CASE i \in 1 .. Len(q)
        <5>1. Append(q, s)[i] = q[i]
          BY <3>2, <4>2
        <5> QED
          BY <2>3, <4>2, <5>1
      <4> QED
        BY <3>2, <4>1, <4>2
    <3>5. Good(ts, Append(q, s))
      BY <3>2, <3>4
    <3> QED
      BY <2>2, <3>1, <3>5 DEF ts
  <2> QED
    BY <2>4, <2>5
<1>3. Seq(Strings) \subseteq T
  <2> HIDE DEF T
  <2> QED
    BY <1>1, <1>2, SeqSets
<1> QED
  BY <1>3

\* s is in the list, and nothing after it has its name.
Latest(list, s) ==
  \E i \in 1 .. Len(list) :
    list[i] = s /\ \A j \in 1 .. Len(list) : list[j].name = s.name => j <= i

LEMMA LatestAppend ==
  ASSUME NEW q \in Seq(Strings), NEW e \in Strings, NEW s \in Strings
  PROVE  Latest(Append(q, e), s) <=> s = e \/ (Latest(q, s) /\ e.name # s.name)
<1> DEFINE r == Append(q, e)
           k == Len(q)
<1>1. k \in Nat /\ Len(r) = k + 1 /\ r[k + 1] = e /\ \A i \in 1 .. k : r[i] = q[i]
  BY AppendProperties, LenProperties
<1> HIDE DEF r, k
<1>2. ASSUME Latest(r, s) PROVE s = e \/ (Latest(q, s) /\ e.name # s.name)
  <2>1. PICK i \in 1 .. k + 1 : r[i] = s /\ \A j \in 1 .. k + 1 : r[j].name = s.name => j <= i
    BY <1>1, <1>2 DEF Latest
  <2>2. CASE i = k + 1
    BY <1>1, <2>1, <2>2
  <2>3. CASE i \in 1 .. k
    <3>1. e.name # s.name
      BY <1>1, <2>1, <2>3
    <3>2. q[i] = s /\ \A j \in 1 .. k : q[j].name = s.name => j <= i
      BY <1>1, <2>1, <2>3
    <3> QED
      BY <2>3, <3>1, <3>2 DEF Latest, k
  <2> QED
    BY <1>1, <2>2, <2>3
<1>3. ASSUME s = e PROVE Latest(r, s)
  <2>1. k + 1 \in 1 .. Len(r) /\ r[k + 1] = s /\ \A j \in 1 .. Len(r) : j <= k + 1
    BY <1>1, <1>3
  <2> QED
    BY <2>1 DEF Latest
<1>4. ASSUME Latest(q, s), e.name # s.name PROVE Latest(r, s)
  <2>1. PICK i \in 1 .. k : q[i] = s /\ \A j \in 1 .. k : q[j].name = s.name => j <= i
    BY <1>4 DEF Latest, k
  <2>2. i \in 1 .. Len(r) /\ r[i] = s
    BY <1>1, <2>1
  <2>3. ASSUME NEW j \in 1 .. Len(r), r[j].name = s.name PROVE j <= i
    <3>1. j # k + 1
      BY <1>1, <1>4, <2>3
    <3> QED
      BY <1>1, <2>1, <2>3, <3>1
  <2> QED
    BY <2>2, <2>3 DEF Latest
<1> QED
  BY <1>2, <1>3, <1>4 DEF r

\* The latest of what may pass passes, and is the latest there.
LEMMA PermittedLatest ==
  \A ss \in Seq(Strings) : \A s \in Strings :
    Permitted(s) /\ Latest(ss, s) => Latest(PermittedOnly(ss), s)
<1> DEFINE T == {ss \in Seq(Strings) : \A s \in Strings :
                   Permitted(s) /\ Latest(ss, s) => Latest(PermittedOnly(ss), s)}
<1>1. <<>> \in T
  <2>1. <<>> \in Seq(Strings)
    OBVIOUS
  <2> QED
    BY <2>1, PermittedEmpty
<1>2. ASSUME NEW ss \in Seq(Strings), NEW e \in Strings, ss \in T
      PROVE  Append(ss, e) \in T
  <2>1. ASSUME NEW s \in Strings, Permitted(s), Latest(Append(ss, e), s)
        PROVE  Latest(PermittedOnly(Append(ss, e)), s)
    <3> DEFINE q == PermittedOnly(ss)
    <3>1. q \in Seq(Strings)
      BY PermittedType
    <3>2. s = e \/ (Latest(ss, s) /\ e.name # s.name)
      BY <2>1, LatestAppend
    <3>3. s = e \/ (Latest(q, s) /\ e.name # s.name)
      BY <1>2, <2>1, <3>2
    <3> HIDE DEF q
    <3>4. CASE Permitted(e)
      <4>1. Latest(Append(q, e), s)
        BY <3>1, <3>3, LatestAppend
      <4>2. PermittedOnly(Append(ss, e)) = Append(q, e)
        BY <3>4, PermittedAppend DEF q
      <4> QED
        BY <4>1, <4>2
    <3>5. CASE ~Permitted(e)
      <4>1. PermittedOnly(Append(ss, e)) = q
        BY <3>5, PermittedAppend DEF q
      <4>2. s # e
        BY <2>1, <3>5
      <4> QED
        BY <3>3, <4>1, <4>2
    <3> QED
      BY <3>4, <3>5
  <2>2. Append(ss, e) \in Seq(Strings)
    OBVIOUS
  <2> QED
    BY <2>1, <2>2
<1>3. Seq(Strings) \subseteq T
  <2> HIDE DEF T
  <2> QED
    BY <1>1, <1>2, SeqSets
<1> QED
  BY <1>3

\* A list of strings none of which is empty.
Full(ss) == ss \in Seq(Strings) /\ \A i \in 1 .. Len(ss) : ss[i] # Empty

\* A list none of whose strings is empty is read as it was written, whatever
\* follows it, and so is what follows.
LEMMA Written ==
  ASSUME NEW ss, Full(ss), NEW t \in Seq(Strings), NEW c, c = Serialize(ss) \o t
  PROVE  /\ Items(c) = ss /\ Rest(c) = t
         /\ \E i \in 1 .. Len(c) : c[i] = Empty
<1> DEFINE k == Len(ss)
<1>0. ss \in Seq(Strings) /\ \A i \in 1 .. Len(ss) : ss[i] # Empty
  BY DEF Full
<1>1. Empty \in Strings
  BY CodecAssumption, Zenon
<1>2. Append(ss, Empty) \in Seq(Strings)
  BY <1>0, <1>1
<1>3. /\ k \in Nat /\ Len(t) \in Nat /\ c \in Seq(Strings)
      /\ Len(c) = k + 1 + Len(t) /\ c[k + 1] = Empty
      /\ \A i \in 1 .. k : c[i] = ss[i]
      /\ \A i \in 1 .. Len(t) : c[k + 1 + i] = t[i]
  BY <1>0, <1>1, <1>2 DEF Serialize
<1>4. k + 1 \in 1 .. Len(c)
  BY <1>3
<1> DEFINE Ends(i) == c[i] = Empty /\ \A j \in 1 .. i - 1 : c[j] # Empty
<1>5. Ends(k + 1)
  <2>1. \A j \in 1 .. k + 1 - 1 : j \in 1 .. k
    BY <1>3
  <2>2. \A j \in 1 .. k : c[j] # Empty
    BY <1>0, <1>3
  <2> QED
    BY <1>3, <2>1, <2>2
<1>6. \A i \in 1 .. Len(c) : Ends(i) => i = k + 1
  <2> SUFFICES ASSUME NEW i \in 1 .. Len(c), Ends(i), i # k + 1 PROVE FALSE
    OBVIOUS
  <2>1. CASE i < k + 1
    <3>1. i \in 1 .. k
      BY <1>3, <2>1
    <3> QED
      BY <1>0, <1>3, <3>1
  <2>2. CASE i > k + 1
    BY <1>3, <2>2
  <2> QED
    BY <1>3, <2>1, <2>2
<1> DEFINE e == CHOOSE i \in 1 .. Len(c) : Ends(i)
<1>7. e = k + 1
  <2> HIDE DEF Ends
  <2> QED
    BY <1>4, <1>5, <1>6
<1>8. Items(c) = SubSeq(c, 1, k)
  <2>1. Items(c) = SubSeq(c, 1, e - 1)
    BY DEF Items
  <2> HIDE DEF e, k
  <2>2. e - 1 = k
    BY <1>3, <1>7
  <2> QED
    BY <2>1, <2>2, Zenon
<1>9. SubSeq(c, 1, k) = ss
  BY <1>0, <1>3
<1>10. Rest(c) = SubSeq(c, k + 2, Len(c))
  BY <1>8, <1>9 DEF Rest
<1>11. SubSeq(c, k + 2, Len(c)) = t
  <2> DEFINE r == SubSeq(c, k + 2, Len(c))
  <2>1. r \in Seq(Strings) /\ Len(r) = Len(t)
    BY <1>3
  <2>2. \A i \in 1 .. Len(t) : r[i] = t[i]
    BY <1>3, SMTT(60)
  <2> HIDE DEF r
  <2> QED
    BY <2>1, <2>2, SeqEqual DEF r
<1> QED
  BY <1>3, <1>4, <1>8, <1>9, <1>10, <1>11

-----------------------------------------------------------------------------
(***************************************************************************)
(* The request.  A session parses what its client wrote, and the program   *)
(* is built from that.                                                     *)
(***************************************************************************)
Sent == PermittedOnly(given.env)

Prepared == {"parsed", "opened", "dropped", "forked", "session", "user", "home"}

AskedInv ==
  /\ xpc # "idle" => given.args \in Seq(Strings) /\ given.env \in Seq(Strings)
  /\ xpc = "asked" => /\ request = Serialize(given.args) \o Serialize(Sent)
                      /\ size = RequestBytes(given.args, Sent)

ParsedInv ==
  NoneEmpty =>
    /\ xpc # "unparsed"
    /\ xpc \in Prepared => args = given.args /\ env = Sent
    /\ xpc = "environ" => args = given.args

NameInv == stage = "session" => asked.name = Given("n")

ArgsBuilt ==
  /\ Tail(args) = SubSeq(given.args, 2, Len(given.args))
  /\ args[1].value = shell
  /\ args[1].name = "-" <=> given.args = <<>> \/ given.args[1] \in Hyphenated

EnvBuilt ==
  /\ \A i \in 1 .. Len(given.env) :
       LET v == given.env[i] IN
       Permitted(v) /\ v.name # "SSH_TTY" /\ IsLast(given.env, i) =>
         v.name \in DOMAIN env /\ env[v.name] = v.value
  /\ \A n \in DOMAIN env \ (OwnNames \cup {"SSH_TTY"}) :
       n \in GoodNames \cup LcNames /\ \E i \in 1 .. Len(given.env) : given.env[i].name = n
  /\ "SSH_TTY" \in DOMAIN env => kind = "tty" /\ env["SSH_TTY"] = "own"
  /\ env["SHELL"] = shell /\ (Given("n") # "" => env["USER"] = Given("n"))

BuiltInv ==
  NoneEmpty =>
    /\ xpc \in {"args", "running"} => ArgsBuilt
    /\ xpc \in {"environ", "args", "running"} => EnvBuilt

LEMMA Passes == \A s : Permitted(s) => s # Empty /\ s.name \notin OwnNames
<1>1. LcNames \cap (GoodNames \cup OwnNames \cup {""}) = {}
  BY CodecAssumption, Zenon
<1>2. Empty.name = "" /\ "" \notin GoodNames /\ GoodNames \cap OwnNames = {}
  BY DEF Empty, GoodNames, OwnNames
<1> QED
  BY <1>1, <1>2 DEF Permitted

\* Whatever the lists and however long, as long as no string is empty: what
\* client_prepare writes, child_parse reads, and none of the limits it checks
\* is in the way (array.c:51-113, 149-182, child.c:650-670, jail.c:98-115).
THEOREM RequestReadBack ==
  \A al, el, r, n :
    Full(al) /\ Full(el) /\ r = Serialize(al) \o Serialize(el) /\ n = RequestBytes(al, el) =>
      /\ Items(r) = al /\ Items(Rest(r)) = el
      /\ Parses(r, n - 1) /\ Parses(Rest(r), n - Used(r))
<1> SUFFICES ASSUME NEW al, Full(al), NEW el, Full(el),
                    NEW r, r = Serialize(al) \o Serialize(el),
                    NEW n, n = RequestBytes(al, el)
             PROVE  /\ Items(r) = al /\ Items(Rest(r)) = el
                    /\ Parses(r, n - 1) /\ Parses(Rest(r), n - Used(r))
  OBVIOUS
<1>1. Bytes(al) \in Nat /\ Bytes(el) \in Nat
  BY BytesType DEF Full
<1>2. Serialize(el) \in Seq(Strings)
  <2>1. Empty \in Strings
    BY CodecAssumption, Zenon
  <2> QED
    BY <2>1, AppendType DEF Serialize, Full
<1>3. Items(r) = al /\ Rest(r) = Serialize(el) /\ \E i \in 1 .. Len(r) : r[i] = Empty
  BY <1>2, Written, Zenon
<1>4. /\ Items(Serialize(el)) = el
      /\ \E i \in 1 .. Len(Serialize(el)) : Serialize(el)[i] = Empty
  <2>1. <<>> \in Seq(Strings)
    OBVIOUS
  <2>2. Serialize(el) = Serialize(el) \o <<>>
    BY <1>2, ConcatEmptySeq
  <2> QED
    BY <2>1, <2>2, Written
<1>5. Bytes(al) < n - 1 /\ n - Used(r) = Bytes(el) + 1
  <2>1. n = Bytes(al) + 1 + Bytes(el) + 1 /\ Used(r) = Bytes(al) + 1
    BY <1>3 DEF Used, RequestBytes
  <2> QED
    BY <1>1, <2>1
<1> QED
  BY <1>1, <1>3, <1>4, <1>5 DEF Parses

\* Where a list and what follows it lie in the buffer.
Laid(ss, t, w) ==
  /\ w \in Seq(Strings) /\ Len(w) = Len(ss) + 1 + Len(t)
  /\ \A i \in 1 .. Len(ss) : w[i] = ss[i]
  /\ w[Len(ss) + 1] = Empty
  /\ \A i \in 1 .. Len(t) : w[Len(ss) + 1 + i] = t[i]

LEMMA CellsLaid ==
  ASSUME NEW ss \in Seq(Strings), NEW t \in Seq(Strings)
  PROVE  Laid(ss, t, Append(ss, Empty) \o t)
<1>1. Empty \in Strings
  BY CodecAssumption, Zenon
<1> QED
  BY <1>1 DEF Laid

LEMMA CutAt ==
  ASSUME NEW al \in Seq(Strings), NEW k \in 1 .. Len(al), al[k] = Empty,
         NEW t \in Seq(Strings)
  PROVE  Serialize(al) \o t
           = Serialize(SubSeq(al, 1, k - 1)) \o (Serialize(SubSeq(al, k + 1, Len(al))) \o t)
<1> DEFINE p == SubSeq(al, 1, k - 1)
           q == SubSeq(al, k + 1, Len(al))
           c == Append(al, Empty) \o t
           u == Append(q, Empty) \o t
           d == Append(p, Empty) \o u
<1>1. /\ p \in Seq(Strings) /\ Len(p) = k - 1 /\ \A i \in 1 .. k - 1 : p[i] = al[i]
      /\ q \in Seq(Strings) /\ Len(q) = Len(al) - k
      /\ \A i \in 1 .. Len(al) - k : q[i] = al[k + i]
  OBVIOUS
<1> HIDE DEF p, q
<1>2. Laid(al, t, c)
  BY CellsLaid
<1>3. Laid(q, t, u)
  BY <1>1, CellsLaid
<1> HIDE DEF u
<1>4. u \in Seq(Strings)
  BY <1>3 DEF Laid
<1>5. Laid(p, u, d)
  BY <1>1, <1>4, CellsLaid
<1> HIDE DEF c, d
<1>6. Len(c) = Len(d)
  BY <1>1, <1>2, <1>3, <1>5 DEF Laid
<1>7. ASSUME NEW i \in 1 .. Len(c) PROVE c[i] = d[i]
  <2>0. Len(al) \in Nat /\ Len(t) \in Nat /\ i \in Nat /\ k \in Nat
    BY <1>2 DEF Laid
  <2>1. CASE i < k
    <3>1. i \in 1 .. k - 1 /\ i \in 1 .. Len(al) /\ i \in 1 .. Len(p)
      BY <1>1, <2>0, <2>1
    <3> QED
      BY <1>1, <1>2, <1>5, <3>1 DEF Laid
  <2>2. CASE i = k
    BY SMTT(60), <1>1, <1>2, <1>5, <2>2 DEF Laid
  <2>3. CASE i > k /\ i <= Len(al)
    <3>1. i - k \in 1 .. Len(al) - k /\ i \in 1 .. Len(al) /\ i - k \in 1 .. Len(u)
      BY SMTT(60), <1>1, <1>3, <2>0, <2>3 DEF Laid
    <3>2. d[Len(p) + 1 + (i - k)] = u[i - k] /\ u[i - k] = q[i - k] /\ q[i - k] = al[k + (i - k)]
      BY SMTT(60), <1>1, <1>3, <1>5, <3>1 DEF Laid
    <3>3. Len(p) + 1 + (i - k) = i /\ k + (i - k) = i
      BY <1>1, <2>0
    <3> QED
      BY <1>2, <3>1, <3>2, <3>3 DEF Laid
  <2>4. CASE i = Len(al) + 1
    <3>0. Len(u) = Len(q) + 1 + Len(t)
      BY <1>3 DEF Laid
    <3> HIDE DEF p, q, u
    <3>1. Len(q) + 1 \in 1 .. Len(u)
      BY <1>1, <2>0, <3>0
    <3>2. Len(p) + 1 + (Len(q) + 1) = i
      BY <1>1, <2>0, <2>4
    <3> QED
      BY <1>2, <1>3, <1>5, <2>4, <3>1, <3>2 DEF Laid
  <2>5. CASE i > Len(al) + 1
    <3> DEFINE j == i - Len(al) - 1
    <3>1. j \in 1 .. Len(t) /\ Len(al) + 1 + j = i
      BY <1>2, <2>0, <2>5 DEF Laid
    <3>2. Len(q) + 1 + j \in 1 .. Len(u) /\ Len(p) + 1 + (Len(q) + 1 + j) = i
      BY <1>1, <1>3, <2>0, <3>1 DEF Laid
    <3> HIDE DEF j
    <3>3. c[Len(al) + 1 + j] = t[j] /\ u[Len(q) + 1 + j] = t[j]
      BY <1>2, <1>3, <3>1 DEF Laid
    <3>4. d[Len(p) + 1 + (Len(q) + 1 + j)] = u[Len(q) + 1 + j]
      BY <1>5, <3>2 DEF Laid
    <3> QED
      BY <3>1, <3>2, <3>3, <3>4
  <2> QED
    BY <2>0, <2>1, <2>2, <2>3, <2>4, <2>5
<1>8. c = d
  BY <1>2, <1>5, <1>6, <1>7, SeqEqual DEF Laid
<1> QED
  BY <1>8 DEF c, d, u, p, q, Serialize

\* Of a list that holds an empty string the session reads what comes before the
\* first, and takes what comes behind it, up to the next, for the list that
\* follows: the arguments behind an empty one become the environment
\* (array.c:51-113, child.c:650-670).
THEOREM EmptyStringCuts ==
  ASSUME NEW al \in Seq(Strings), NEW k \in 1 .. Len(al), al[k] = Empty,
         \A i \in 1 .. k - 1 : al[i] # Empty,
         NEW t \in Seq(Strings)
  PROVE  LET r == Serialize(al) \o t
             behind == SubSeq(al, k + 1, Len(al))
         IN  /\ Items(r) = SubSeq(al, 1, k - 1)
             /\ Full(behind) => Items(Rest(r)) = behind
<1> DEFINE p == SubSeq(al, 1, k - 1)
           q == SubSeq(al, k + 1, Len(al))
           u == Serialize(q) \o t
           r == Serialize(al) \o t
<1>1. r = Serialize(p) \o u
  BY CutAt
<1>2. Full(p)
  BY DEF Full
<1>3. u \in Seq(Strings)
  <2>1. Empty \in Strings
    BY CodecAssumption, Zenon
  <2>2. q \in Seq(Strings)
    OBVIOUS
  <2> HIDE DEF q
  <2> QED
    BY <2>1, <2>2 DEF Serialize
<1> HIDE DEF p, q, r
<1>4. Items(r) = p /\ Rest(r) = u
  <2> HIDE DEF u
  <2> QED
    BY <1>1, <1>2, <1>3, Written
<1>5. Full(q) => Items(u) = q
  BY Written
<1> QED
  BY <1>4, <1>5 DEF p, q, r

\* So what a client wrote is what its session reads.
LEMMA RequestIsRead ==
  ASSUME AskedInv, xpc = "asked", NoneEmpty
  PROVE  /\ Parses(request, size - 1)
         /\ Parses(Rest(request), size - Used(request))
         /\ Items(request) = given.args /\ Items(Rest(request)) = Sent
<1>1. /\ given.args \in Seq(Strings) /\ given.env \in Seq(Strings)
      /\ request = Serialize(given.args) \o Serialize(Sent)
      /\ size = RequestBytes(given.args, Sent)
  BY DEF AskedInv
<1>2. Full(given.args)
  BY <1>1 DEF Full, NoneEmpty
<1>3. Full(Sent)
  BY <1>1, PermittedType, Passes DEF Full, Sent
<1> QED
  BY <1>1, <1>2, <1>3, RequestReadBack, ZenonT(60)

\* The variables of a program, before SSH_TTY is set right.
LEMMA VariablesAre ==
  /\ \A n : n # "SSH_TTY" =>
       /\ n \in DOMAIN Variables <=>
            n \in OwnNames \/ (n \in GoodNames \cup LcNames /\ Passed(n) # {})
       /\ n \in GoodNames \cup LcNames /\ Passed(n) # {}
            => Variables[n] = env[LastOf(Passed(n))].value
  /\ Variables["SHELL"] = shell
  /\ asked.name # "" => Variables["USER"] = asked.name
  /\ "SSH_TTY" \in DOMAIN Variables => kind = "tty" /\ Variables["SSH_TTY"] = "own"
<1> DEFINE user == IF asked.name # "" THEN asked.name ELSE "database"
           names == {n \in GoodNames \cup LcNames : Passed(n) # {}}
           all == [n \in OwnNames \cup names |->
                     CASE n = "HOME" -> "home"
                       [] n = "PWD" -> cwd
                       [] n = "SHELL" -> shell
                       [] n \in {"LOGNAME", "USER"} -> user
                       [] OTHER -> env[LastOf(Passed(n))].value]
<1>1. Variables = SshTty(all)
  BY DEF Variables
<1>2. \A n \in names : n \notin OwnNames
  <2>1. LcNames \cap (GoodNames \cup OwnNames \cup {""}) = {}
    BY CodecAssumption, Zenon
  <2>2. GoodNames \cap OwnNames = {}
    BY DEF GoodNames, OwnNames
  <2> QED
    BY <2>1, <2>2
<1>3. DOMAIN all = OwnNames \cup names
  OBVIOUS
<1>4. \A n \in names : all[n] = env[LastOf(Passed(n))].value
  BY <1>2 DEF OwnNames
<1>5. "SHELL" \in OwnNames /\ "USER" \in OwnNames /\ all["SHELL"] = shell /\ all["USER"] = user
  BY DEF OwnNames
<1> HIDE DEF all
<1>6. \A n : n # "SSH_TTY" =>
        /\ n \in DOMAIN SshTty(all) <=> n \in DOMAIN all
        /\ n \in DOMAIN all => SshTty(all)[n] = all[n]
  BY DEF SshTty
<1>7. "SSH_TTY" \in DOMAIN SshTty(all) => kind = "tty" /\ SshTty(all)["SSH_TTY"] = "own"
  BY DEF SshTty
<1>8. SshTty(all)["SHELL"] = shell /\ SshTty(all)["USER"] = user
  BY <1>3, <1>5, <1>6
<1> QED
  BY <1>1, <1>3, <1>4, <1>6, <1>7, <1>8

\* What SetEnvironment makes of the environment that was sent.
LEMMA EnvironmentIsBuilt ==
  ASSUME given.env \in Seq(Strings), env = Sent, asked.name = Given("n"),
         NEW vs, vs = Variables
  PROVE  /\ \A i \in 1 .. Len(given.env) :
              Permitted(given.env[i]) /\ given.env[i].name # "SSH_TTY" /\ IsLast(given.env, i) =>
                given.env[i].name \in DOMAIN vs /\ vs[given.env[i].name] = given.env[i].value
         /\ \A n \in DOMAIN vs \ (OwnNames \cup {"SSH_TTY"}) :
              n \in GoodNames \cup LcNames /\ \E i \in 1 .. Len(given.env) : given.env[i].name = n
         /\ "SSH_TTY" \in DOMAIN vs => kind = "tty" /\ vs["SSH_TTY"] = "own"
         /\ vs["SHELL"] = shell /\ (Given("n") # "" => vs["USER"] = Given("n"))
<1>1. ASSUME NEW i \in 1 .. Len(given.env),
             Permitted(given.env[i]), given.env[i].name # "SSH_TTY", IsLast(given.env, i)
      PROVE  given.env[i].name \in DOMAIN vs /\ vs[given.env[i].name] = given.env[i].value
  <2> DEFINE v == given.env[i]
  <2>1. v \in Strings
    OBVIOUS
  <2>2. Latest(given.env, v)
    BY <1>1 DEF Latest, IsLast
  <2>3. Latest(env, v)
    BY <1>1, <2>1, <2>2, PermittedLatest DEF Sent
  <2>4. PICK k \in 1 .. Len(env) : env[k] = v /\ \A j \in 1 .. Len(env) : env[j].name = v.name => j <= k
    BY <2>3 DEF Latest
  <2>5. k \in Passed(v.name) /\ \A j \in Passed(v.name) : j <= k
    BY <1>1, <2>4 DEF Passed
  <2>6. LastOf(Passed(v.name)) = k
    <3> DEFINE P == Passed(v.name)
               l == CHOOSE i2 \in P : \A j \in P : j <= i2
    <3>1. l \in P /\ \A j \in P : j <= l
      <4> HIDE DEF P
      <4> QED
        BY <2>5 DEF P
    <3>2. l \in Int /\ k \in Int /\ l <= k /\ k <= l
      <4>1. P \subseteq 1 .. Len(env)
        BY DEF Passed
      <4> HIDE DEF l
      <4>2. l \in 1 .. Len(env)
        BY <3>1, <4>1
      <4> QED
        BY <2>5, <3>1, <4>2
    <3>3. LastOf(P) = l
      BY DEF LastOf
    <3> HIDE DEF l, P
    <3> QED
      BY <3>2, <3>3 DEF P
  <2>7. v.name \in GoodNames \cup LcNames /\ Passed(v.name) # {}
    BY <1>1, <2>5 DEF Permitted
  <2> HIDE DEF v
  <2>8. v.name \in DOMAIN Variables /\ Variables[v.name] = env[LastOf(Passed(v.name))].value
    BY <1>1, <2>7, VariablesAre DEF v
  <2> QED
    BY <2>4, <2>6, <2>8 DEF v
<1>2. ASSUME NEW n \in DOMAIN vs, n \notin OwnNames \cup {"SSH_TTY"}
      PROVE  n \in GoodNames \cup LcNames /\ \E i \in 1 .. Len(given.env) : given.env[i].name = n
  <2>1. n \in GoodNames \cup LcNames /\ Passed(n) # {}
    BY <1>2, VariablesAre
  <2>2. PICK j \in 1 .. Len(env) : env[j].name = n
    BY <2>1 DEF Passed
  <2>3. \E i \in 1 .. Len(given.env) : given.env[i] = env[j]
    BY <2>2, PermittedType DEF Sent
  <2> QED
    BY <2>1, <2>2, <2>3
<1> QED
  BY <1>1, <1>2, VariablesAre

\* What jaild and its master do leaves request and program alone.
LEMMA JaildApart ==
  ASSUME [Next]_vars, ~StartProgram, ~Request
  PROVE  UNCHANGED <<xpc, kind, request, size, args, env, shell, given>>
<1>1. CASE ReadOptions \/ StartMaster
  BY <1>1 DEF ReadOptions, StartMaster, programVars, launchVars
<1>2. CASE StartServer \/ Detach \/ StartSession
  BY <1>2 DEF StartServer, Detach, StartSession
<1>3. CASE Finished \/ UNCHANGED vars
  BY <1>3 DEF Finished, vars, programVars, launchVars
<1> QED
  BY <1>1, <1>2, <1>3 DEF Next

LEMMA ProgramApart ==
  ASSUME StartProgram
  PROVE  /\ UNCHANGED <<commandVars, launchVars, request, size, kind, asked>>
         /\ xpc \notin {"idle"} /\ xpc' \notin {"idle", "asked"}
  BY DEF StartProgram, ProgramStep, ParseRequest, OpenStreams, DropPrivileges,
     ForkProgram, RestoreSignals, FindUser, GoHome, SetEnvironment, ConstructArgs,
     Execve, Refuse, ExitFailure

LEMMA AskedStep == ASSUME AskedInv, [Next]_vars PROVE AskedInv'
<1>1. CASE Request
  <2>1. PICK al \in ArgLists, all \in EnvLists :
          /\ request' = Serialize(al) \o Serialize(PermittedOnly(all))
          /\ size' = RequestBytes(al, PermittedOnly(all))
          /\ given' = [args |-> al, env |-> all]
    BY <1>1 DEF Request
  <2>2. al \in Seq(Strings) /\ all \in Seq(Strings)
    BY LaunchAssumption
  <2>3. given'.args = al /\ given'.env = all
    BY <2>1
  <2> QED
    BY <2>1, <2>2, <2>3 DEF AskedInv, Sent
<1>2. CASE StartProgram
  <2>1. given' = given /\ xpc # "idle" /\ xpc' # "asked"
    BY <1>2, ProgramApart DEF launchVars
  <2> QED
    BY <2>1 DEF AskedInv
<1>3. CASE ~StartProgram /\ ~Request
  BY <1>3, JaildApart DEF AskedInv, Sent
<1> QED
  BY <1>1, <1>2, <1>3

\* By the time of a session name and shell are what was given.
LEMMA NameStep ==
  ASSUME StageInv, PlaceInv, NameInv, [Next]_vars
  PROVE  NameInv'
<1>1. CASE StartSession
  <2>1. /\ asked'.name = IF opts.name = Nowhere THEN "" ELSE Text(opts.name)
        /\ UNCHANGED <<opti, argv>>
    BY <1>1 DEF StartSession, commandVars
  <2>2. asked'.name = Given("n")
    BY <2>1, PlaceText DEF PlaceInv
  <2> QED
    BY <2>1, <2>2 DEF NameInv, Given
<1>2. CASE ~StartSession
  <2>1. SUFFICES ASSUME stage' = "session" PROVE NameInv'
    BY DEF NameInv
  <2>2. stage = "session" /\ UNCHANGED <<asked, commandVars>>
    <3>1. CASE ReadOptions \/ StartServer \/ Detach \/ StartMaster
      BY <2>1, <3>1 DEF ReadOptions, StartServer, Detach, StartMaster, launchVars
    <3>2. CASE Request \/ Finished \/ UNCHANGED vars
      BY <2>1, <3>2 DEF Request, Finished, vars, launchVars, programVars
    <3>3. CASE StartProgram
      BY <2>1, <3>3, ProgramApart DEF launchVars
    <3> QED
      BY <1>2, <3>1, <3>2, <3>3 DEF Next
  <2> QED
    BY <2>2 DEF NameInv, Given, commandVars
<1> QED
  BY <1>1, <1>2

LEMMA ParsedStep ==
  ASSUME AskedInv, ParsedInv, [Next]_vars
  PROVE  ParsedInv'
<1>1. CASE Request
  BY <1>1 DEF Request, ParsedInv, Prepared
<1>2. CASE StartProgram
  <2>0. given' = given /\ NoneEmpty' = NoneEmpty /\ Sent' = Sent
    BY <1>2, ProgramApart DEF launchVars, NoneEmpty, Sent
  <2>1. CASE ParseRequest
    <3>1. SUFFICES ASSUME NoneEmpty PROVE ParsedInv'
      BY <2>0 DEF ParsedInv
    <3>2. xpc = "asked"
      BY <2>1 DEF ParseRequest
    <3>3. args' = given.args /\ env' = Sent /\ xpc' = "parsed"
      BY <2>1, <3>1, <3>2, RequestIsRead DEF ParseRequest
    <3> QED
      BY <2>0, <3>3 DEF ParsedInv, Prepared
  <2>2. CASE SetEnvironment
    BY <2>0, <2>2 DEF SetEnvironment, ParsedInv, Prepared
  <2>3. CASE ConstructArgs \/ Execve
    BY <2>0, <2>3 DEF ConstructArgs, Execve, ParsedInv, Prepared, ExitFailure
  <2>4. CASE OpenStreams \/ DropPrivileges \/ ForkProgram
    BY <2>0, <2>4 DEF OpenStreams, DropPrivileges, ForkProgram, ParsedInv, Prepared, Refuse
  <2>5. CASE RestoreSignals \/ FindUser \/ GoHome
    BY <2>0, <2>5 DEF RestoreSignals, FindUser, GoHome, ParsedInv, Prepared, ExitFailure
  <2> QED
    BY <1>2, <2>1, <2>2, <2>3, <2>4, <2>5 DEF StartProgram, ProgramStep
<1>3. CASE ~StartProgram /\ ~Request
  BY <1>3, JaildApart DEF ParsedInv, NoneEmpty, Sent
<1> QED
  BY <1>1, <1>2, <1>3

LEMMA BuiltStep ==
  ASSUME StageInv, AskedInv, NameInv, ParsedInv, BuiltInv, [Next]_vars
  PROVE  BuiltInv'
<1>1. CASE Request
  BY <1>1 DEF Request, BuiltInv
<1>2. CASE StartProgram
  <2>0. /\ given' = given /\ kind' = kind /\ Given("n")' = Given("n")
        /\ NoneEmpty' = NoneEmpty
    BY <1>2, ProgramApart DEF launchVars, commandVars, NoneEmpty, Given
  <2> SUFFICES ASSUME NoneEmpty PROVE BuiltInv'
    BY <2>0 DEF BuiltInv
  <2>1. CASE SetEnvironment
    <3>1. /\ xpc = "home" /\ xpc' = "environ" /\ shell' = shell
          /\ env' = Variables
      BY <2>1 DEF SetEnvironment
    <3>2. given.env \in Seq(Strings) /\ env = Sent /\ asked.name = Given("n")
      BY <3>1 DEF AskedInv, ParsedInv, Prepared, StageInv, NameInv
    <3>3. EnvBuilt'
      BY <2>0, <3>1, <3>2, EnvironmentIsBuilt DEF EnvBuilt, IsLast
    <3> QED
      BY <3>1, <3>3 DEF BuiltInv
  <2>2. CASE ConstructArgs
    <3>1. /\ xpc = "environ" /\ UNCHANGED <<env, shell>>
          /\ xpc' \in {"crashed", "args", "exited"}
          /\ xpc' = "args" =>
               args' = <<NameOfShell(args)>> \o SubSeq(args, 2, Len(args))
      BY <2>2 DEF ConstructArgs, ExitFailure
    <3>2. args = given.args /\ given.args \in Seq(Strings)
      BY <3>1 DEF AskedInv, ParsedInv
    <3>3. xpc' = "args" => ArgsBuilt'
      <4> DEFINE first == NameOfShell(given.args)
                 rest == SubSeq(given.args, 2, Len(given.args))
      <4>1. first.value = shell /\ (first.name = "-" <=> IsLogin(given.args))
        BY DEF NameOfShell
      <4>2. rest \in Seq(Strings)
        BY <3>2
      <4> HIDE DEF first, rest
      <4>3. Tail(<<first>> \o rest) = rest /\ (<<first>> \o rest)[1] = first
        BY <4>2
      <4>4. xpc' = "args" => args' = <<first>> \o rest
        BY <3>1, <3>2 DEF first, rest
      <4> QED
        BY <2>0, <3>1, <4>1, <4>3, <4>4 DEF ArgsBuilt, IsLogin, rest
    <3>4. EnvBuilt'
      BY <2>0, <3>1 DEF BuiltInv, EnvBuilt, IsLast
    <3> QED
      BY <3>1, <3>3, <3>4 DEF BuiltInv
  <2>3. CASE Execve
    <3>1. /\ xpc = "args" /\ UNCHANGED <<args, env, shell>>
      BY <2>3 DEF Execve
    <3>2. ArgsBuilt' /\ EnvBuilt'
      BY <2>0, <3>1 DEF BuiltInv, ArgsBuilt, EnvBuilt, IsLast
    <3> QED
      BY <3>2 DEF BuiltInv
  <2>4. CASE ParseRequest \/ OpenStreams \/ DropPrivileges \/ ForkProgram
    BY <2>4 DEF ParseRequest, OpenStreams, DropPrivileges, ForkProgram, BuiltInv, Refuse
  <2>5. CASE RestoreSignals \/ FindUser \/ GoHome
    BY <2>5 DEF RestoreSignals, FindUser, GoHome, BuiltInv, ExitFailure
  <2> QED
    BY <1>2, <2>1, <2>2, <2>3, <2>4, <2>5 DEF StartProgram, ProgramStep
<1>3. CASE ~StartProgram /\ ~Request
  <2>1. UNCHANGED <<xpc, kind, args, env, shell, given>>
    BY <1>3, JaildApart
  <2>2. xpc # "idle" => UNCHANGED <<opti, argv>>
    <3>1. xpc # "idle" => stage = "session"
      BY DEF StageInv
    <3>2. stage = "session" => ~ReadOptions
      BY DEF ReadOptions
    <3> QED
      BY <3>1, <3>2, CommandCases DEF StartMaster, MasterTitle, commandVars
  <2>3. xpc # "idle" => Given("n")' = Given("n")
    BY <2>2 DEF Given
  <2>4. ArgsBuilt' <=> ArgsBuilt
    BY <2>1 DEF ArgsBuilt
  <2>5. xpc # "idle" => (EnvBuilt' <=> EnvBuilt)
    BY <2>1, <2>3 DEF EnvBuilt, IsLast
  <2>6. NoneEmpty' <=> NoneEmpty
    BY <2>1 DEF NoneEmpty
  <2> QED
    BY <2>1, <2>4, <2>5, <2>6 DEF BuiltInv
<1> QED
  BY <1>1, <1>2, <1>3

RequestInv == StageInv /\ AskedInv /\ NameInv /\ ParsedInv /\ BuiltInv

LEMMA RequestAlways == Spec => [](RequestInv)
<1>1. Init => PlaceInv /\ RequestInv
  <2> SUFFICES ASSUME Init PROVE PlaceInv /\ RequestInv
    OBVIOUS
  <2>1. PlaceInv
    BY DEF Init, CommandInit, PlaceInv, PlaceOf
  <2>2. stage = "start" /\ xpc = "idle"
    BY DEF Init, ProgramInit
  <2> QED
    BY <2>1, <2>2 DEF RequestInv, StageInv, AskedInv, NameInv, ParsedInv, BuiltInv,
       Open, Prepared
<1>2. GivenInv /\ OptsInv /\ PlaceInv /\ RequestInv /\ [Next]_vars
        => PlaceInv' /\ RequestInv'
  BY PlaceStep, StageStep, AskedStep, NameStep, ParsedStep, BuiltStep DEF RequestInv
<1> QED
  BY <1>1, <1>2, OptsAlways, PTL DEF Spec

\* What is sent lies in the buffer it is built in, offset and all, to the byte.
RequestFits == xpc = "asked" => Offset(kind) + size <= RequestRoom

\* Whatever a client is called with and whatever its environment, empty strings
\* included: what does not fit is not sent, and what is sent has fitted
\* (jail.c:98-115, array.c:149-182).
THEOREM RequestStaysInBuffer == Spec => []RequestFits
<1>1. Init => RequestFits
  BY DEF Init, ProgramInit, RequestFits
<1>2. RequestFits /\ [Next]_vars => RequestFits'
  <2> SUFFICES ASSUME RequestFits, [Next]_vars PROVE RequestFits'
    OBVIOUS
  <2>1. CASE Request
    <3>1. PICK al \in ArgLists, all \in EnvLists, k \in Kinds :
            LET el == PermittedOnly(all) IN
            /\ Fits(el, RequestRoom - Offset(k) - Bytes(al) - 1)
            /\ size' = RequestBytes(al, el)
            /\ kind' = k
      BY <2>1 DEF Request
    <3> DEFINE el == PermittedOnly(all)
    <3>2. al \in Seq(Strings) /\ el \in Seq(Strings)
      BY LaunchAssumption, PermittedType
    <3>3. Bytes(al) \in Nat /\ Bytes(el) \in Nat
      BY <3>2, BytesType
    <3>4. Bytes(el) + 1 <= RequestRoom - Offset(k) - Bytes(al) - 1
      BY <3>1 DEF Fits
    <3>5. size' = Bytes(al) + 1 + Bytes(el) + 1
      BY <3>1 DEF RequestBytes
    <3>6. Offset(k) \in Nat /\ RequestRoom \in Nat /\ Offset(kind)' = Offset(k)
      BY <3>1, LaunchAssumption DEF Offset
    <3> HIDE DEF el
    <3> QED
      BY <3>3, <3>4, <3>5, <3>6 DEF RequestFits
  <2>2. CASE StartProgram
    BY <2>2, ProgramApart DEF RequestFits
  <2>3. CASE ~StartProgram /\ ~Request
    BY <2>3, JaildApart DEF RequestFits, Offset
  <2> QED
    BY <2>1, <2>2, <2>3
<1> QED
  BY <1>1, <1>2, PTL DEF Spec

\* Whatever a client is called with, as long as no argument is empty: its
\* request is one that its session can parse, so both ends agree on the limits;
\* and the arguments reach the program, each in its place, behind the name of
\* the shell (array.c:51-113, 149-182, child.c:221-269, 650-670, jail.c:98-115).
THEOREM ArgumentsReachProgram == Spec => []ArgumentsArrive
<1>1. RequestInv => ArgumentsArrive
  BY DEF RequestInv, ParsedInv, BuiltInv, ArgsBuilt, ArgumentsArrive, Running
<1> QED
  BY <1>1, RequestAlways, PTL

\* Whatever environment a client has: the program has the last value of each of
\* its variables that may pass, and nothing else of it but what belongs to the
\* program's own user (child.c:167-219, 298-317, environ.c:25-55).
THEOREM EnvironmentReachesProgram == Spec => []EnvironmentTrue
<1>1. RequestInv => EnvironmentTrue
  BY DEF RequestInv, BuiltInv, EnvBuilt, EnvironmentTrue, Running
<1> QED
  BY <1>1, RequestAlways, PTL

-----------------------------------------------------------------------------
(***************************************************************************)
(* The descriptors.  What jaild, its master, the session and the program   *)
(* have open, from one open(2) to the next: the numbers below ten, and     *)
(* above them what was inherited and is kept.                              *)
(***************************************************************************)
Above(i) == IF i \in Inherited /\ i >= FirstKept THEN "old" ELSE Free
Table(low) == [i \in Numbering |-> IF i < 10 THEN low[i + 1] ELSE Above(i)]

\* The numbers below ten, with the same on 0, 1 and 2.
Quiet(s) == <<s, s, s, Free, Free, Free, Free, Free, Free, Free>>
Listening(s) == <<s, s, s, "listen", Free, Free, Free, Free, Free, Free>>
Connected(s) == <<s, s, s, Free, "client", Free, Free, Free, Free, Free>>
Opened(k, s) ==
  CASE k = "pipe" ->
         <<s, s, s, "in0", "client", "in1", "out0", "out1", "err0", "err1">>
    [] k = "socket" ->
         <<s, s, s, "io0", "client", "io1", "err0", "err1", Free, Free>>
    [] k = "tty" ->
         <<s, s, s, "master", "client", "slave", Free, Free, Free, Free>>

OwnStreams(table, k) ==
  \A i \in Numbering :
    table[i] = IF i < 3 THEN StreamsOf(k)[i + 1]
               ELSE IF i \in Inherited /\ i >= FirstKept THEN "old" ELSE Free

SessionEnds(table, k) ==
  /\ table[Remote] = "client"
  /\ table[FdOf(k).stdout] = IF k = "pipe" THEN "out0" ELSE "copy"
  /\ k # "tty" => table[FdOf(k).stderr] = IF k = "pipe" THEN "err0" ELSE "err1"

Std == {"std", "null"}
Forked == {"forked", "session", "user", "home", "environ", "args", "running"}

FilesInv ==
  /\ kind \in Kinds
  /\ stdOpen =>
       /\ stage = "start" => files = FilesAtStart
       /\ stage = "listening" => files = Table(Listening("std"))
       /\ stage \in {"detached", "serving"} => \E s \in Std : files = Table(Listening(s))
       /\ stage = "session" =>
            /\ xpc \in {"idle", "asked", "parsed"} =>
                 \E s \in Std : files = Table(Connected(s))
            /\ xpc \in {"opened", "dropped"} =>
                 \E s \in Std : files = Table(Opened(kind, s))
            /\ xpc \in Forked => OwnStreams(own, kind) /\ SessionEnds(files, kind)
  /\ xpc \in Forked \ {"forked"} => signals = Restored

LEMMA TableHas ==
  ASSUME NEW low
  PROVE  /\ DOMAIN Table(low) = Numbering
         /\ \A i \in Numbering : i < 10 => Table(low)[i] = low[i + 1]
         /\ \A i \in Numbering : ~(i < 10) => Table(low)[i] \in {"old", Free}
  BY DEF Table, Above

\* A new file at the first free number below ten.
LEMMA OpenAt ==
  ASSUME NEW t, NEW file, NEW n \in 0 .. 9,
         DOMAIN t = Numbering, t[n] = Free, \A i \in 0 .. n - 1 : t[i] # Free
  PROVE  OpenFile(t, file) = [t EXCEPT ![n] = file]
<1>1. Numbering \subseteq Nat /\ n \in Numbering /\ \A i \in Numbering : i < n => i \in 0 .. n - 1
  BY ProgramAssumption
<1> DEFINE P(i) == t[i] = Free /\ \A j \in DOMAIN t : j < i => t[j] # Free
<1>2. n \in DOMAIN t /\ P(n)
  BY <1>1
<1>3. ASSUME NEW i \in DOMAIN t, P(i) PROVE i = n
  <2>1. i \in Nat /\ n \in Nat /\ ~(i < n) /\ ~(n < i)
    BY <1>1, <1>3
  <2> QED
    BY <2>1
<1>4. (CHOOSE i \in DOMAIN t : P(i)) = n
  <2> HIDE DEF P
  <2> QED
    BY <1>2, <1>3
<1> QED
  BY <1>4 DEF OpenFile

LEMMA OpenInTable ==
  ASSUME NEW low, NEW next, NEW file, NEW n \in 0 .. 9,
         low[n + 1] = Free, \A i \in 0 .. n - 1 : low[i + 1] # Free,
         next[n + 1] = file, \A i \in 0 .. 9 : i # n => next[i + 1] = low[i + 1]
  PROVE  OpenFile(Table(low), file) = Table(next)
<1>1. 0 .. 9 \subseteq Numbering /\ Numbering \subseteq Nat
  BY ProgramAssumption
<1>2. \A i \in 0 .. 9 : Table(low)[i] = low[i + 1]
  BY <1>1 DEF Table
<1>3. OpenFile(Table(low), file) = [Table(low) EXCEPT ![n] = file]
  <2>1. DOMAIN Table(low) = Numbering
    BY DEF Table
  <2>2. Table(low)[n] = Free /\ \A i \in 0 .. n - 1 : Table(low)[i] # Free
    BY <1>2
  <2> QED
    BY <2>1, <2>2, OpenAt
<1>4. ASSUME NEW i \in Numbering
      PROVE  [Table(low) EXCEPT ![n] = file][i] = Table(next)[i]
  BY <1>1, <1>4 DEF Table
<1> QED
  BY <1>3, <1>4 DEF Table

LEMMA NumberIs ==
  ASSUME NEW t, NEW file, NEW n \in DOMAIN t, t[n] = file,
         \A i \in DOMAIN t : t[i] = file => i = n
  PROVE  NumberOf(t, file) = n
  BY DEF NumberOf

LEMMA NumberInTable ==
  ASSUME NEW low, NEW file, NEW n \in 0 .. 9, low[n + 1] = file,
         file \notin {"old", Free},
         \A i \in 0 .. 9 : low[i + 1] = file => i = n
  PROVE  NumberOf(Table(low), file) = n
<1>1. 0 .. 9 \subseteq Numbering /\ Numbering \subseteq Nat
  BY ProgramAssumption
<1>2. DOMAIN Table(low) = Numbering /\ n \in DOMAIN Table(low) /\ Table(low)[n] = file
  BY <1>1 DEF Table
<1>3. ASSUME NEW i \in DOMAIN Table(low), Table(low)[i] = file PROVE i = n
  BY <1>1, <1>2, <1>3 DEF Table, Above
<1> QED
  BY <1>2, <1>3, NumberIs

\* The recursion in OpenFiles, as a function on 0 .. k.
OpenNext(table, fs, f, n) ==
  IF n = 0 THEN table ELSE OpenFile(f[n - 1], fs[n])

OpenUpTo(table, fs, f, k) == f = [n \in 0 .. k |-> OpenNext(table, fs, f, n)]

LEMMA OpenExists ==
  ASSUME NEW table, NEW fs PROVE \A k \in Nat : \E f : OpenUpTo(table, fs, f, k)
<1> DEFINE T == {k \in Nat : \E f : OpenUpTo(table, fs, f, k)}
<1>1. 0 \in T
  <2>1. OpenUpTo(table, fs, [n \in 0 .. 0 |-> table], 0)
    BY DEF OpenUpTo, OpenNext
  <2> QED
    BY <2>1
<1>2. ASSUME NEW k \in Nat, k \in T PROVE k + 1 \in T
  <2>1. PICK f : OpenUpTo(table, fs, f, k)
    BY <1>2
  <2> DEFINE g == [n \in 0 .. k + 1 |->
                     IF n <= k THEN f[n] ELSE OpenNext(table, fs, f, n)]
  <2>2. \A n \in 0 .. k + 1 : n <= k => f[n] = OpenNext(table, fs, f, n)
    BY <2>1 DEF OpenUpTo
  <2>3. \A n \in 0 .. k + 1 : OpenNext(table, fs, g, n) = OpenNext(table, fs, f, n)
    BY DEF OpenNext
  <2>4. g = [n \in 0 .. k + 1 |-> IF n <= k THEN f[n] ELSE OpenNext(table, fs, f, n)]
    OBVIOUS
  <2>5. g = [n \in 0 .. k + 1 |-> OpenNext(table, fs, g, n)]
    <3> HIDE DEF g
    <3> QED
      BY <2>2, <2>3, <2>4
  <2>6. OpenUpTo(table, fs, g, k + 1)
    BY <2>5 DEF OpenUpTo
  <2> QED
    BY <2>6
<1>3. Nat \subseteq T
  <2> HIDE DEF T
  <2> QED
    BY <1>1, <1>2, NatSets
<1> QED
  BY <1>3

\* The tables on the way, the first to the last.
OpenRun(table, fs, f) ==
  /\ f[0] = table
  /\ \A n \in 1 .. Len(fs) : f[n] = OpenFile(f[n - 1], fs[n])
  /\ OpenFiles(table, fs) = f[Len(fs)]

LEMMA OpenUnfold ==
  ASSUME NEW table, NEW fs, Len(fs) \in Nat
  PROVE  \E f : OpenRun(table, fs, f)
<1> DEFINE F == CHOOSE f : OpenUpTo(table, fs, f, Len(fs))
<1>1. OpenFiles(table, fs) = F[Len(fs)]
  BY DEF OpenFiles, OpenUpTo, OpenNext
<1>2. OpenUpTo(table, fs, F, Len(fs))
  BY OpenExists
<1> HIDE DEF F
<1>3. \A n \in 0 .. Len(fs) : F[n] = OpenNext(table, fs, F, n)
  BY <1>2 DEF OpenUpTo
<1>4. F[0] = table /\ \A n \in 1 .. Len(fs) : F[n] = OpenFile(F[n - 1], fs[n])
  BY <1>3 DEF OpenNext
<1> QED
  BY <1>1, <1>4 DEF OpenRun

\* jaild at its start, as a daemon, and with a client.
LEMMA ServerTable ==
  OpenFile(CloseNumbers(FilesAtStart, 3 .. FirstKept - 1), "listen")
    = Table(Listening("std"))
<1>1. CloseNumbers(FilesAtStart, 3 .. FirstKept - 1) = Table(Quiet("std"))
  <2>1. ASSUME NEW i \in Numbering
        PROVE  (IF i \in 3 .. FirstKept - 1 THEN Free ELSE FilesAtStart[i])
                 = IF i < 10 THEN Quiet("std")[i + 1] ELSE Above(i)
    BY <2>1, ProgramAssumption DEF FilesAtStart, Quiet, Above
  <2>2. DOMAIN FilesAtStart = Numbering
    BY DEF FilesAtStart
  <2> QED
    BY <2>1, <2>2 DEF CloseNumbers, Table
<1>2. OpenFile(Table(Quiet("std")), "listen") = Table(Listening("std"))
  BY OpenInTable DEF Quiet, Listening, Free
<1> QED
  BY <1>1, <1>2

LEMMA DaemonTable ==
  ASSUME files = Table(Listening("std"))
  PROVE  Detached = Table(Listening("null"))
<1> DEFINE t == OpenFile(files, "null")
           n == NumberOf(t, "null")
           low == <<"std", "std", "std", "listen", "null", Free, Free, Free, Free, Free>>
<1>1. t = Table(low)
  BY OpenInTable DEF Listening, Free
<1>2. n = 4
  BY <1>1, NumberInTable DEF Free
<1>3. Detached = CloseNumbers(Dup2(Dup2(Dup2(t, n, 0), n, 1), n, 2), {n} \ {0, 1, 2})
  BY DEF Detached
<1> HIDE DEF t, n
<1> DEFINE u == Dup2(Dup2(Dup2(Table(low), 4, 0), 4, 1), 4, 2)
<1>4. DOMAIN u = Numbering /\ 0 .. 9 \subseteq Numbering /\ Numbering \subseteq Nat
  BY ProgramAssumption DEF Dup2, Table
<1>5. ASSUME NEW i \in Numbering
      PROVE  u[i] = IF i \in {0, 1, 2} THEN "null" ELSE Table(low)[i]
  BY <1>4 DEF Dup2, Table
<1> HIDE DEF u
<1>6. ASSUME NEW i \in Numbering
      PROVE  (IF i \in {4} \ {0, 1, 2} THEN Free ELSE u[i])
               = IF i < 10 THEN Listening("null")[i + 1] ELSE Above(i)
  BY <1>4, <1>5 DEF Table, Listening
<1>7. Detached = CloseNumbers(u, {4} \ {0, 1, 2})
  BY <1>1, <1>2, <1>3 DEF u
<1> QED
  BY <1>4, <1>6, <1>7 DEF CloseNumbers, Table

LEMMA ClientTable ==
  ASSUME NEW s \in Std, files = Table(Listening(s))
  PROVE  CloseNumbers(OpenFile(files, "client"), {NumberOf(files, "listen")})
           = Table(Connected(s))
<1> DEFINE low == <<s, s, s, "listen", "client", Free, Free, Free, Free, Free>>
<1>1. OpenFile(files, "client") = Table(low)
  BY OpenInTable DEF Listening, Free, Std
<1>2. NumberOf(files, "listen") = 3
  BY NumberInTable DEF Listening, Free, Std
<1>3. ASSUME NEW i \in Numbering
      PROVE  (IF i \in {3} THEN Free ELSE Table(low)[i])
               = IF i < 10 THEN Connected(s)[i + 1] ELSE Above(i)
  BY ProgramAssumption DEF Table, Connected
<1> QED
  BY <1>1, <1>2, <1>3 DEF CloseNumbers, Table

\* The streams of a program, one descriptor after the other.
LEMMA PipeTable ==
  ASSUME NEW s \in Std
  PROVE  OpenFiles(Table(Connected(s)), PairsOf("pipe")) = Table(Opened("pipe", s))
<1> DEFINE fs == <<"in0", "in1", "out0", "out1", "err0", "err1">>
<1>1. PairsOf("pipe") = fs /\ Len(fs) = 6
  BY DEF PairsOf
<1>2. PICK f : OpenRun(Table(Connected(s)), fs, f)
  BY <1>1, OpenUnfold
<1>3. /\ f[1] = OpenFile(f[0], "in0") /\ f[2] = OpenFile(f[1], "in1")
      /\ f[3] = OpenFile(f[2], "out0") /\ f[4] = OpenFile(f[3], "out1")
      /\ f[5] = OpenFile(f[4], "err0") /\ f[6] = OpenFile(f[5], "err1")
  <2> HIDE DEF fs
  <2>1. /\ f[1] = OpenFile(f[0], fs[1]) /\ f[2] = OpenFile(f[1], fs[2])
        /\ f[3] = OpenFile(f[2], fs[3]) /\ f[4] = OpenFile(f[3], fs[4])
        /\ f[5] = OpenFile(f[4], fs[5]) /\ f[6] = OpenFile(f[5], fs[6])
    BY <1>1, <1>2 DEF OpenRun
  <2> QED
    BY <1>1, <2>1 DEF fs
<1>4. f[1] = Table(<<s, s, s, "in0", "client", Free, Free, Free, Free, Free>>)
  BY <1>2, <1>3, OpenInTable DEF OpenRun, Connected, Std, Free
<1>5. f[2] = Table(<<s, s, s, "in0", "client", "in1", Free, Free, Free, Free>>)
  BY <1>3, <1>4, OpenInTable DEF Std, Free
<1>6. f[3] = Table(<<s, s, s, "in0", "client", "in1", "out0", Free, Free, Free>>)
  BY <1>3, <1>5, OpenInTable DEF Std, Free
<1>7. f[4] = Table(<<s, s, s, "in0", "client", "in1", "out0", "out1", Free, Free>>)
  BY <1>3, <1>6, OpenInTable DEF Std, Free
<1>8. f[5] = Table(<<s, s, s, "in0", "client", "in1", "out0", "out1", "err0", Free>>)
  BY <1>3, <1>7, OpenInTable DEF Std, Free
<1>9. f[6] = Table(Opened("pipe", s))
  BY <1>3, <1>8, OpenInTable DEF Opened, Std, Free
<1> QED
  BY <1>1, <1>2, <1>9 DEF OpenRun

LEMMA SocketTable ==
  ASSUME NEW s \in Std
  PROVE  OpenFiles(Table(Connected(s)), PairsOf("socket")) = Table(Opened("socket", s))
<1> DEFINE fs == <<"io0", "io1", "err0", "err1">>
<1>1. PairsOf("socket") = fs /\ Len(fs) = 4
  BY DEF PairsOf
<1>2. PICK f : OpenRun(Table(Connected(s)), fs, f)
  BY <1>1, OpenUnfold
<1>3. /\ f[1] = OpenFile(f[0], "io0") /\ f[2] = OpenFile(f[1], "io1")
      /\ f[3] = OpenFile(f[2], "err0") /\ f[4] = OpenFile(f[3], "err1")
  <2> HIDE DEF fs
  <2>1. /\ f[1] = OpenFile(f[0], fs[1]) /\ f[2] = OpenFile(f[1], fs[2])
        /\ f[3] = OpenFile(f[2], fs[3]) /\ f[4] = OpenFile(f[3], fs[4])
    BY <1>1, <1>2 DEF OpenRun
  <2> QED
    BY <1>1, <2>1 DEF fs
<1>4. f[1] = Table(<<s, s, s, "io0", "client", Free, Free, Free, Free, Free>>)
  BY <1>2, <1>3, OpenInTable DEF OpenRun, Connected, Std, Free
<1>5. f[2] = Table(<<s, s, s, "io0", "client", "io1", Free, Free, Free, Free>>)
  BY <1>3, <1>4, OpenInTable DEF Std, Free
<1>6. f[3] = Table(<<s, s, s, "io0", "client", "io1", "err0", Free, Free, Free>>)
  BY <1>3, <1>5, OpenInTable DEF Std, Free
<1>7. f[4] = Table(Opened("socket", s))
  BY <1>3, <1>6, OpenInTable DEF Opened, Std, Free
<1> QED
  BY <1>1, <1>2, <1>7 DEF OpenRun

LEMMA TtyTable ==
  ASSUME NEW s \in Std
  PROVE  OpenFiles(Table(Connected(s)), PairsOf("tty")) = Table(Opened("tty", s))
<1> DEFINE fs == <<"master", "slave">>
<1>1. PairsOf("tty") = fs /\ Len(fs) = 2
  BY DEF PairsOf
<1>2. PICK f : OpenRun(Table(Connected(s)), fs, f)
  BY <1>1, OpenUnfold
<1>3. f[1] = OpenFile(f[0], "master") /\ f[2] = OpenFile(f[1], "slave")
  <2> HIDE DEF fs
  <2>1. f[1] = OpenFile(f[0], fs[1]) /\ f[2] = OpenFile(f[1], fs[2])
    BY <1>1, <1>2 DEF OpenRun
  <2> QED
    BY <1>1, <2>1 DEF fs
<1>4. f[1] = Table(<<s, s, s, "master", "client", Free, Free, Free, Free, Free>>)
  BY <1>2, <1>3, OpenInTable DEF OpenRun, Connected, Std, Free
<1>5. f[2] = Table(Opened("tty", s))
  BY <1>3, <1>4, OpenInTable DEF Opened, Std, Free
<1> QED
  BY <1>1, <1>2, <1>5 DEF OpenRun

\* What the program has after the dup2(2)s and the closes, if in, out and err
\* are the numbers of its ends and closed are those it closes.
LEMMA OwnTable ==
  ASSUME NEW low, NEW in \in 3 .. 9, NEW out \in 3 .. 9, NEW err \in 3 .. 9,
         NEW closed, closed \subseteq 3 .. 9,
         \A i \in 3 .. 9 : i \notin closed => low[i + 1] = Free,
         NEW k, low[in + 1] = StreamsOf(k)[1], low[out + 1] = StreamsOf(k)[2],
         low[err + 1] = StreamsOf(k)[3]
  PROVE  OwnStreams(
           CloseNumbers(
             Dup2(Dup2(Dup2(Table(low), in, 0), out, 1), err, 2), closed), k)
<1> DEFINE u == Dup2(Dup2(Dup2(Table(low), in, 0), out, 1), err, 2)
<1>1. DOMAIN u = Numbering /\ 0 .. 9 \subseteq Numbering /\ Numbering \subseteq Nat
  BY ProgramAssumption DEF Dup2, Table
<1>2. u[0] = low[in + 1] /\ u[1] = low[out + 1] /\ u[2] = low[err + 1]
  BY <1>1 DEF Dup2, Table
<1>3. ASSUME NEW i \in Numbering, i > 2 PROVE u[i] = Table(low)[i]
  BY <1>1, <1>3 DEF Dup2, Table
<1> HIDE DEF u
<1> DEFINE v == CloseNumbers(u, closed)
<1>4. \A i \in Numbering : v[i] = IF i \in closed THEN Free ELSE u[i]
  BY <1>1 DEF CloseNumbers
<1> HIDE DEF v
<1>5. ASSUME NEW i \in Numbering
      PROVE  v[i] = IF i < 3 THEN StreamsOf(k)[i + 1]
                    ELSE IF i \in Inherited /\ i >= FirstKept THEN "old" ELSE Free
  <2>1. CASE i < 3
    <3>1. i \in {0, 1, 2} /\ i \notin closed
      BY <1>1, <2>1
    <3> QED
      BY <1>2, <1>4, <2>1, <3>1
  <2>2. CASE i \in 3 .. 9
    <3>1. u[i] = low[i + 1] /\ ~(i >= FirstKept) /\ ~(i < 3)
      BY <1>3, <2>2, ProgramAssumption DEF Table
    <3> QED
      BY <1>4, <2>2, <3>1
  <2>3. CASE ~(i < 10)
    <3>1. i \in Nat /\ i \notin closed /\ i > 2
      BY <1>1, <2>3
    <3>2. u[i] = Above(i)
      BY <1>3, <2>3, <3>1 DEF Table
    <3> QED
      BY <1>4, <3>1, <3>2 DEF Above
  <2> QED
    BY <1>1, <2>1, <2>2, <2>3
<1> QED
  BY <1>5 DEF OwnStreams, u, v

\* What fork(2) leaves to the program and to the session.
LEMMA PipeForked ==
  ASSUME NEW s \in Std, kind = "pipe", files = Table(Opened("pipe", s))
  PROVE  OwnStreams(ProgramFiles, "pipe") /\ SessionEnds(SessionFiles, "pipe")
<1> DEFINE low == Opened("pipe", s)
<1>1. low = <<s, s, s, "in0", "client", "in1", "out0", "out1", "err0", "err1">>
  BY DEF Opened
<1> HIDE DEF low
<1>2. /\ NumberOf(Table(low), "in0") = 3 /\ NumberOf(Table(low), "client") = 4
      /\ NumberOf(Table(low), "in1") = 5
  BY <1>1, NumberInTable DEF Std, Free
<1>3. /\ NumberOf(Table(low), "out0") = 6 /\ NumberOf(Table(low), "out1") = 7
      /\ NumberOf(Table(low), "err0") = 8 /\ NumberOf(Table(low), "err1") = 9
  BY <1>1, NumberInTable DEF Std, Free
<1>4. OwnStreams(ProgramFiles, "pipe")
  <2> DEFINE n == [i \in 1 .. Len(PairsOf(kind)) |-> NumberOf(files, PairsOf(kind)[i])]
             e == [i \in 1 .. 3 |-> NumberOf(files, StreamsOf(kind)[i])]
  <2>1. PairsOf("pipe") = <<"in0", "in1", "out0", "out1", "err0", "err1">>
    BY DEF PairsOf
  <2>2. StreamsOf("pipe") = <<"in0", "out1", "err1">>
    BY DEF StreamsOf
  <2>0. DOMAIN n = 1 .. 6
    BY <2>1
  <2>3. /\ n[1] = 3 /\ n[2] = 5 /\ n[3] = 6
        /\ n[4] = 7 /\ n[5] = 8 /\ n[6] = 9
    BY <1>2, <1>3, <2>0, <2>1 DEF low
  <2>4. e[1] = 3 /\ e[2] = 7 /\ e[3] = 9
    BY <1>2, <1>3, <2>2 DEF low
  <2>5. ProgramFiles = CloseNumbers(Dup2(Dup2(Dup2(files, e[1], 0), e[2], 1), e[3], 2),
                                    ClosedByProgram(n))
    BY DEF ProgramFiles
  <2> HIDE DEF n, e
  <2>6. ClosedByProgram(n) = 3 .. 9
    <3>1. {n[i] : i \in 1 .. 6} = {n[1], n[2], n[3], n[4], n[5], n[6]}
      OBVIOUS
    <3>2. NumberOf(files, "client") = 4
      BY <1>2 DEF low
    <3> QED
      BY <2>0, <2>3, <3>1, <3>2 DEF ClosedByProgram
  <2>7. ProgramFiles = CloseNumbers(Dup2(Dup2(Dup2(Table(low), 3, 0), 7, 1), 9, 2), 3 .. 9)
    BY <2>4, <2>5, <2>6 DEF low
  <2>8. /\ low[3 + 1] = StreamsOf("pipe")[1] /\ low[7 + 1] = StreamsOf("pipe")[2]
        /\ low[9 + 1] = StreamsOf("pipe")[3]
        /\ \A i \in 3 .. 9 : i \notin 3 .. 9 => low[i + 1] = Free
    BY <1>1, <2>2
  <2>9. 3 \in 3 .. 9 /\ 7 \in 3 .. 9 /\ 9 \in 3 .. 9 /\ 3 .. 9 \subseteq 3 .. 9
    OBVIOUS
  <2> QED
    BY ZenonT(60), <2>7, <2>8, <2>9, OwnTable
<1>5. SessionEnds(SessionFiles, "pipe")
  <2> DEFINE closed == {PairsOf(kind)[i] : i \in DOMAIN PairsOf(kind)} \ KeptOf(kind)
  <2>1. closed = {"in0", "out1", "err1"}
    BY DEF PairsOf, KeptOf
  <2>2. SessionFiles = CloseNumbers(files, {i \in DOMAIN files : files[i] \in closed})
    BY DEF SessionFiles
  <2> HIDE DEF closed
  <2>3. 0 .. 9 \subseteq Numbering /\ DOMAIN files = Numbering
    BY ProgramAssumption DEF Table
  <2>4. files[4] = "client" /\ files[6] = "out0" /\ files[8] = "err0"
    BY <1>1, <2>3 DEF Table, low
  <2> QED
    BY <2>1, <2>2, <2>3, <2>4 DEF SessionEnds, CloseNumbers, Remote, FdOf
<1> QED
  BY <1>4, <1>5

LEMMA SocketForked ==
  ASSUME NEW s \in Std, kind = "socket", files = Table(Opened("socket", s))
  PROVE  OwnStreams(ProgramFiles, "socket") /\ SessionEnds(SessionFiles, "socket")
<1> DEFINE low == Opened("socket", s)
<1>1. low = <<s, s, s, "io0", "client", "io1", "err0", "err1", Free, Free>>
  BY DEF Opened
<1> HIDE DEF low
<1>2. /\ NumberOf(Table(low), "io0") = 3 /\ NumberOf(Table(low), "client") = 4
      /\ NumberOf(Table(low), "io1") = 5
  BY <1>1, NumberInTable DEF Std, Free
<1>3. /\ NumberOf(Table(low), "err0") = 6 /\ NumberOf(Table(low), "err1") = 7
  BY <1>1, NumberInTable DEF Std, Free
<1>4. OwnStreams(ProgramFiles, "socket")
  <2> DEFINE n == [i \in 1 .. Len(PairsOf(kind)) |-> NumberOf(files, PairsOf(kind)[i])]
             e == [i \in 1 .. 3 |-> NumberOf(files, StreamsOf(kind)[i])]
  <2>1. PairsOf("socket") = <<"io0", "io1", "err0", "err1">>
    BY DEF PairsOf
  <2>2. StreamsOf("socket") = <<"io0", "io0", "err0">>
    BY DEF StreamsOf
  <2>0. DOMAIN n = 1 .. 4
    BY <2>1
  <2>3. n[1] = 3 /\ n[2] = 5 /\ n[3] = 6 /\ n[4] = 7
    BY <1>2, <1>3, <2>0, <2>1 DEF low
  <2>4. e[1] = 3 /\ e[2] = 3 /\ e[3] = 6
    BY <1>2, <1>3, <2>2 DEF low
  <2>5. ProgramFiles = CloseNumbers(Dup2(Dup2(Dup2(files, e[1], 0), e[2], 1), e[3], 2),
                                    ClosedByProgram(n))
    BY DEF ProgramFiles
  <2> HIDE DEF n, e
  <2>6. ClosedByProgram(n) = 3 .. 7
    <3>1. {n[i] : i \in 1 .. 4} = {n[1], n[2], n[3], n[4]}
      OBVIOUS
    <3>2. NumberOf(files, "client") = 4
      BY <1>2 DEF low
    <3> QED
      BY <2>0, <2>3, <3>1, <3>2 DEF ClosedByProgram
  <2>7. ProgramFiles = CloseNumbers(Dup2(Dup2(Dup2(Table(low), 3, 0), 3, 1), 6, 2), 3 .. 7)
    BY <2>4, <2>5, <2>6 DEF low
  <2>8. /\ low[3 + 1] = StreamsOf("socket")[1] /\ low[3 + 1] = StreamsOf("socket")[2]
        /\ low[6 + 1] = StreamsOf("socket")[3]
        /\ \A i \in 3 .. 9 : i \notin 3 .. 7 => low[i + 1] = Free
    BY <1>1, <2>2
  <2>9. 3 \in 3 .. 9 /\ 6 \in 3 .. 9 /\ 3 .. 7 \subseteq 3 .. 9
    OBVIOUS
  <2> QED
    BY ZenonT(60), <2>7, <2>8, <2>9, OwnTable
<1>5. SessionEnds(SessionFiles, "socket")
  <2> DEFINE dup == OpenFile(files, "copy")
             closed == {PairsOf(kind)[i] : i \in DOMAIN PairsOf(kind)} \ KeptOf(kind)
  <2>1. closed = {"io0", "err0"}
    BY DEF PairsOf, KeptOf
  <2>2. SessionFiles = CloseNumbers(dup, {i \in DOMAIN dup : dup[i] \in closed})
    BY DEF SessionFiles
  <2>3. dup = Table(<<s, s, s, "io0", "client", "io1", "err0", "err1", "copy", Free>>)
    BY <1>1, OpenInTable DEF low, Std, Free
  <2> HIDE DEF dup, closed
  <2>4. 0 .. 9 \subseteq Numbering /\ DOMAIN dup = Numbering
    BY <2>3, ProgramAssumption DEF Table
  <2>5. dup[4] = "client" /\ dup[7] = "err1" /\ dup[8] = "copy"
    BY <2>3, <2>4 DEF Table
  <2> QED
    BY <2>1, <2>2, <2>4, <2>5 DEF SessionEnds, CloseNumbers, Remote, FdOf
<1> QED
  BY <1>4, <1>5

LEMMA TtyForked ==
  ASSUME NEW s \in Std, kind = "tty", files = Table(Opened("tty", s))
  PROVE  OwnStreams(ProgramFiles, "tty") /\ SessionEnds(SessionFiles, "tty")
<1> DEFINE low == Opened("tty", s)
<1>1. low = <<s, s, s, "master", "client", "slave", Free, Free, Free, Free>>
  BY DEF Opened
<1> HIDE DEF low
<1>2. /\ NumberOf(Table(low), "master") = 3 /\ NumberOf(Table(low), "client") = 4
      /\ NumberOf(Table(low), "slave") = 5
  BY <1>1, NumberInTable DEF Std, Free
<1>4. OwnStreams(ProgramFiles, "tty")
  <2> DEFINE n == [i \in 1 .. Len(PairsOf(kind)) |-> NumberOf(files, PairsOf(kind)[i])]
             e == [i \in 1 .. 3 |-> NumberOf(files, StreamsOf(kind)[i])]
  <2>1. PairsOf("tty") = <<"master", "slave">>
    BY DEF PairsOf
  <2>2. StreamsOf("tty") = <<"slave", "slave", "slave">>
    BY DEF StreamsOf
  <2>0. DOMAIN n = 1 .. 2
    BY <2>1
  <2>3. n[1] = 3 /\ n[2] = 5
    BY <1>2, <2>0, <2>1 DEF low
  <2>4. e[1] = 5 /\ e[2] = 5 /\ e[3] = 5
    BY <1>2, <2>2 DEF low
  <2>5. ProgramFiles =
          CloseNumbers(
            Dup2(Dup2(Dup2(CloseNumbers(files, ClosedByProgram(n) \ {e[1]}),
                           e[1], 0), e[2], 1), e[3], 2),
            {e[1]} \ {0, 1, 2})
    BY DEF ProgramFiles
  <2> HIDE DEF n, e
  <2>6. ClosedByProgram(n) = 3 .. 5
    <3>1. {n[i] : i \in 1 .. 2} = {n[1], n[2]}
      OBVIOUS
    <3>2. NumberOf(files, "client") = 4
      BY <1>2 DEF low
    <3> QED
      BY <2>0, <2>3, <3>1, <3>2 DEF ClosedByProgram
  <2> DEFINE left == <<s, s, s, Free, Free, "slave", Free, Free, Free, Free>>
  <2>7. CloseNumbers(files, {3, 4}) = Table(left)
    <3>1. DOMAIN Table(low) = Numbering /\ DOMAIN Table(left) = Numbering
      BY DEF Table
    <3>2. ASSUME NEW i \in Numbering
          PROVE  (IF i \in {3, 4} THEN Free ELSE Table(low)[i]) = Table(left)[i]
      BY <1>1, ProgramAssumption DEF Table
    <3> HIDE DEF left
    <3> QED
      BY <3>1, <3>2 DEF CloseNumbers, low, Table
  <2>8. /\ left[5 + 1] = StreamsOf("tty")[1] /\ left[5 + 1] = StreamsOf("tty")[2]
        /\ left[5 + 1] = StreamsOf("tty")[3]
        /\ \A i \in 3 .. 9 : i \notin {5} => left[i + 1] = Free
    BY <2>2
  <2> HIDE DEF left
  <2>9. ProgramFiles = CloseNumbers(Dup2(Dup2(Dup2(Table(left), 5, 0), 5, 1), 5, 2), {5})
    <3>1. 3 .. 5 \ {5} = {3, 4} /\ {5} \ {0, 1, 2} = {5}
      OBVIOUS
    <3> QED
      BY <2>4, <2>5, <2>6, <2>7, <3>1
  <2>10. 5 \in 3 .. 9 /\ {5} \subseteq 3 .. 9
    OBVIOUS
  <2> QED
    BY ZenonT(60), <2>8, <2>9, <2>10, OwnTable
<1>5. SessionEnds(SessionFiles, "tty")
  <2> DEFINE dup == OpenFile(files, "copy")
             closed == {PairsOf(kind)[i] : i \in DOMAIN PairsOf(kind)} \ KeptOf(kind)
  <2>1. closed = {"slave"}
    BY DEF PairsOf, KeptOf
  <2>2. SessionFiles = CloseNumbers(dup, {i \in DOMAIN dup : dup[i] \in closed})
    BY DEF SessionFiles
  <2>3. dup = Table(<<s, s, s, "master", "client", "slave", "copy", Free, Free, Free>>)
    BY <1>1, OpenInTable DEF low, Std, Free
  <2> HIDE DEF dup, closed
  <2>4. 0 .. 9 \subseteq Numbering /\ DOMAIN dup = Numbering
    BY <2>3, ProgramAssumption DEF Table
  <2>5. dup[4] = "client" /\ dup[6] = "copy"
    BY <2>3, <2>4 DEF Table
  <2> QED
    BY <2>1, <2>2, <2>4, <2>5 DEF SessionEnds, CloseNumbers, Remote, FdOf
<1> QED
  BY <1>4, <1>5

LEMMA ServerStep ==
  ASSUME StageInv, FilesInv, StartServer \/ Detach \/ StartSession
  PROVE  FilesInv'
<1>1. /\ UNCHANGED <<xpc, kind, own, signals, stdOpen>>
      /\ xpc = "idle" /\ kind \in Kinds
  BY DEF StartServer, Detach, StartSession, StageInv, FilesInv
<1> SUFFICES ASSUME stdOpen PROVE FilesInv'
  BY <1>1 DEF FilesInv, Forked
<1>2. CASE StartServer
  <2>1. files' = Table(Listening("std")) /\ stage' \in {"failed", "listening"}
    BY <1>2, ServerTable DEF StartServer, FilesInv
  <2>2. Table(Listening("std"))' = Table(Listening("std"))
    BY DEF Table, Listening, Above, Free
  <2> QED
    BY <1>1, <2>1, <2>2 DEF FilesInv, Forked
<1>3. CASE Detach
  <2>1. /\ files = Table(Listening("std")) /\ stage' = "detached"
        /\ files' = IF opts.daemon THEN Detached ELSE files
    BY <1>3 DEF Detach, FilesInv
  <2>2. PICK s \in Std : files' = Table(Listening(s))
    BY <2>1, DaemonTable DEF Std
  <2>3. Table(Listening(s))' = Table(Listening(s))
    BY DEF Table, Listening, Above, Free
  <2> QED
    BY <1>1, <2>1, <2>2, <2>3 DEF FilesInv, Forked
<1>4. CASE StartSession
  <2>1. PICK s \in Std : files = Table(Listening(s))
    BY <1>4 DEF StartSession, FilesInv
  <2>2. files' = Table(Connected(s)) /\ stage' = "session"
    BY <1>4, <2>1, ClientTable DEF StartSession
  <2> QED
    BY <1>1, <2>2 DEF FilesInv, Forked
<1> QED
  BY <1>2, <1>3, <1>4

LEMMA StreamsStep ==
  ASSUME StageInv, FilesInv, OpenStreams \/ ForkProgram, UNCHANGED <<stage, stdOpen>>
  PROVE  FilesInv'
<1>1. kind' = kind /\ kind \in Kinds /\ stage = "session" /\ stage' = "session"
  BY DEF OpenStreams, ForkProgram, StageInv, FilesInv
<1>2. xpc' \in {"opened", "forked", "refused"}
  BY DEF OpenStreams, ForkProgram, Refuse
<1> SUFFICES ASSUME stdOpen, xpc' # "refused" PROVE FilesInv'
  BY <1>1, <1>2 DEF FilesInv, Forked
<1>3. CASE OpenStreams
  <2>1. /\ xpc = "parsed" /\ xpc' = "opened"
        /\ files' = OpenFiles(files, PairsOf(kind))
    BY <1>3 DEF OpenStreams, Refuse
  <2>2. PICK s \in Std : files = Table(Connected(s))
    BY <1>1, <2>1 DEF FilesInv
  <2>3. files' = Table(Opened(kind, s))
    BY <1>1, <2>1, <2>2, PipeTable, SocketTable, TtyTable DEF Kinds
  <2> QED
    BY <1>1, <2>1, <2>3 DEF FilesInv, Forked
<1>4. CASE ForkProgram
  <2>1. /\ xpc = "dropped" /\ xpc' = "forked"
        /\ own' = ProgramFiles /\ files' = SessionFiles
    BY <1>4 DEF ForkProgram, Refuse
  <2>2. PICK s \in Std : files = Table(Opened(kind, s))
    BY <1>1, <2>1 DEF FilesInv
  <2>3. OwnStreams(ProgramFiles, kind) /\ SessionEnds(SessionFiles, kind)
    <3>1. CASE kind = "pipe"
      BY <2>2, <3>1, PipeForked
    <3>2. CASE kind = "socket"
      BY <2>2, <3>2, SocketForked
    <3>3. CASE kind = "tty"
      BY <2>2, <3>3, TtyForked
    <3> QED
      BY <1>1, <3>1, <3>2, <3>3 DEF Kinds
  <2> QED
    BY <1>1, <2>1, <2>3 DEF FilesInv, Forked
<1> QED
  BY <1>3, <1>4

LEMMA FilesStep ==
  ASSUME StageInv, FilesInv, [Next]_vars
  PROVE  FilesInv'
<1>1. CASE StartServer \/ Detach \/ StartSession
  BY <1>1, ServerStep
<1>2. CASE StartProgram
  <2>1. UNCHANGED <<stage, stdOpen, kind>> /\ stage = "session"
    BY <1>2, ProgramApart DEF launchVars, StageInv
  <2>2. CASE OpenStreams \/ ForkProgram
    BY <2>1, <2>2, StreamsStep
  <2>3. CASE ParseRequest \/ DropPrivileges
    BY <2>1, <2>3 DEF ParseRequest, DropPrivileges, Refuse, FilesInv, Forked
  <2>4. CASE RestoreSignals
    BY <2>1, <2>4 DEF RestoreSignals, Restored, ExitFailure, FilesInv, Forked
  <2>5. CASE FindUser \/ GoHome
    BY <2>1, <2>5 DEF FindUser, GoHome, ExitFailure, FilesInv, Forked, Restored
  <2>6. CASE SetEnvironment \/ ConstructArgs \/ Execve
    BY <2>1, <2>6 DEF SetEnvironment, ConstructArgs, Execve, ExitFailure, FilesInv,
       Forked, Restored
  <2> QED
    BY <1>2, <2>2, <2>3, <2>4, <2>5, <2>6 DEF StartProgram, ProgramStep
<1>3. CASE Request
  <2>1. UNCHANGED <<stage, stdOpen, files, own, signals>> /\ xpc = "idle" /\ xpc' = "asked"
    BY <1>3 DEF Request
  <2>2. kind' \in Kinds
    BY <1>3 DEF Request
  <2> QED
    BY <2>1, <2>2 DEF FilesInv, Forked
<1>4. CASE ReadOptions \/ Finished \/ UNCHANGED vars
  <2>1. UNCHANGED <<xpc, kind, files, own, signals, stage, stdOpen>>
    BY <1>4 DEF ReadOptions, Finished, vars, programVars, launchVars
  <2> QED
    BY <2>1 DEF FilesInv, Restored, FilesAtStart
<1>5. CASE StartMaster
  <2>1. /\ UNCHANGED <<xpc, kind, files, own, signals, stdOpen>>
        /\ stage = "detached" /\ stage' = "serving"
    BY <1>5 DEF StartMaster, programVars
  <2> QED
    BY <2>1 DEF FilesInv, Restored
<1> QED
  BY <1>1, <1>2, <1>3, <1>4, <1>5 DEF Next

\* Whatever jaild was started with beside its three standard descriptors, in the
\* foreground or as a daemon, and whichever way a program's streams are made: a
\* program starts with its own three streams, nothing else open but what jaild
\* inherited above the numbers it closes, and no signal blocked or ignored; and
\* its session has the descriptors it works with (child.c:271-296, 478-610,
\* jaild.c:321-342, 420-434).
THEOREM ProgramsStartClean == Spec => []ProgramStartsClean
<1>1. Init => StageInv /\ FilesInv
  BY DEF Init, ProgramInit, StageInv, Open, FilesInv, Kinds, Forked
<1>2. StageInv /\ FilesInv /\ [Next]_vars => StageInv' /\ FilesInv'
  BY StageStep, FilesStep
<1>3. StageInv /\ FilesInv => ProgramStartsClean
  BY DEF StageInv, FilesInv, ProgramStartsClean, Running, Forked, OwnStreams,
     SessionEnds, Restored
<1> QED
  BY <1>1, <1>2, <1>3, PTL DEF Spec
=============================================================================
