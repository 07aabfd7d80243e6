----------------------------- MODULE CommandLine -----------------------------
(***************************************************************************)
(* The command line of jaild: its memory, which cmdline_setup copies so    *)
(* that the process title can be written over it (src/common/cmdline.c),   *)
(* and its meaning (parse_args of jaild.c, atoi32 of utility.c).           *)
(*                                                                         *)
(* Memory is a row of cells: each string takes one and its zero byte       *)
(* another.  argv[0] comes first, then the options (an option and its      *)
(* argument are one string here), then the environment, then memory that   *)
(* is none of ours.                                                        *)
(***************************************************************************)
EXTENDS Integers, Sequences

CONSTANTS
  Accounts,         \* effective uid, gid and supplementary groups of a process
                    \* that starts jaild
  Numbers,          \* what is given to -u and -g; a text that is no number is
                    \* taken as one out of range is
  Texts,            \* what is given to -n, -s, -a and -r
  Flags,            \* options without a value that matters, of "c", "m", "h",
                    \* "bad" and "operand"
  MaxOptions,       \* bound: how many options are given
  EnvSizes,         \* how many strings of the environment follow argv in memory
  WordSize,         \* uid_t and gid_t are numbers below it
  PrefixLength,     \* g_prefix_length
  TitleLength       \* the length of a title

ASSUME CommandLineAssumption ==
  /\ Numbers \subseteq Int /\ WordSize \in Nat \ {0}
  /\ MaxOptions \in Nat /\ EnvSizes \subseteq Nat
  /\ PrefixLength \in Nat /\ TitleLength \in Nat

\* No user and no group has the number that stands for none, -1 as uid_t.
ASSUME AccountsAssumption ==
  LET numbers == 0 .. WordSize - 2 IN
  Accounts \subseteq [uid : numbers, gid : numbers, groups : SUBSET numbers]

VARIABLES
  argv,             \* the options as given, and the copies of them
  envSize,          \* environment strings in memory
  ids,              \* effective uid, gid and supplementary groups of jaild
  area,             \* the memory of argv and the environment
  titleSize,        \* g_max_length
  opc,              \* "setup", "parse", "ready", "master" or "quit"
  opti,             \* optind: the option to be parsed
  opts              \* the g_args_... variables and g_server_daemon

commandVars == <<argv, envSize, ids, area, titleSize, opc, opti, opts>>

Option == [opt : {"u", "g"}, number : Numbers, text : {""}]
          \cup [opt : {"n", "s", "a", "r"}, number : {0}, text : Texts]
          \cup [opt : Flags, number : {0}, text : {""}]

Char(c) == [opt |-> c, number |-> 0, text |-> ""]
NUL == Char("nul")

\* What is in memory before the title is ever written.
Cells == 2 * (1 + Len(argv) + envSize) + 1
Original(i) ==
  IF i = Cells THEN Char("other")
  ELSE IF i % 2 = 0 THEN NUL
  ELSE IF i = 1 THEN Char("argv0")
  ELSE IF i \div 2 <= Len(argv) THEN argv[i \div 2] ELSE Char("env")

\* A string of the command line: where it is kept, and which it is.
Nowhere == [of |-> "none", at |-> 0]
Text(p) == IF p.of = "copy" THEN argv[p.at].text ELSE area[2 * p.at + 1].text

\* Whoever starts jaild: geteuid(2) and getegid(2) have nothing to do with each
\* other.
CommandInit ==
  /\ \E n \in 0 .. MaxOptions : argv \in [1 .. n -> Option]
  /\ envSize \in EnvSizes
  /\ ids \in Accounts
  /\ area = [i \in 1 .. Cells |-> Original(i)]
  /\ titleSize = 0
  /\ opc = "setup" /\ opti = 1
  /\ opts = [uid |-> ids.uid, gid |-> ids.gid, name |-> Nowhere,
             shell |-> Nowhere, root |-> Nowhere, socket |-> Nowhere,
             daemon |-> TRUE, mounts |-> 0]

-----------------------------------------------------------------------------
\* A mistake that a run tells from the code: the strings are used where they are.
KeptWhere == "argv"

\* Where the argv is that cmdline_setup returns.
Kept == "copy"

\* cmdline_setup: how far the title may reach.  No memory for a copy of the
\* environment leaves it argv[0]; no memory for one of argv ends jaild.
Setup ==
  /\ opc = "setup"
  /\ \/ titleSize' = Cells - 2 /\ opc' = "parse"
     \/ envSize > 0 /\ titleSize' = 1 /\ opc' = "parse"
     \/ UNCHANGED titleSize /\ opc' = "quit"
  /\ UNCHANGED <<argv, envSize, ids, area, opti, opts>>

MaxInt == WordSize \div 2 - 1

\* -1 for no number, a negative one and one out of range.
atoi32(n) == IF n \in 0 .. MaxInt THEN n ELSE -1

\* uid_t and gid_t are unsigned, and printed as int.
Unsigned(n) == n % WordSize
Signed(n) == IF n > MaxInt THEN n - WordSize ELSE n

\* What parse_args makes of one option.
Parsed(o, p) ==
  CASE o.opt = "u" ->
         LET uid == Unsigned(atoi32(o.number)) IN
         [opts EXCEPT !.uid = uid, !.gid = IF @ <= 0 THEN uid ELSE @]
    [] o.opt = "g" -> [opts EXCEPT !.gid = Unsigned(atoi32(o.number))]
    [] o.opt = "n" -> [opts EXCEPT !.name = p]
    [] o.opt = "s" -> [opts EXCEPT !.shell = p]
    [] o.opt = "a" -> [opts EXCEPT !.socket = p]
    [] o.opt = "r" -> [opts EXCEPT !.root = p]
    [] o.opt = "c" -> [opts EXCEPT !.daemon = FALSE]
    [] o.opt = "m" -> [opts EXCEPT !.mounts = @ + 1]
    [] OTHER       -> opts

\* -h, -v and what getopt does not know end the program at once.
ParseOption ==
  /\ opc = "parse" /\ opti <= Len(argv)
  /\ opc' = IF argv[opti].opt \in {"h", "bad"} THEN "quit" ELSE "parse"
  /\ opts' = Parsed(argv[opti], [of |-> Kept, at |-> opti])
  /\ opti' = opti + 1
  /\ UNCHANGED <<argv, envSize, ids, area, titleSize>>

Acceptable ==
  /\ \A i \in 1 .. Len(argv) : argv[i].opt # "operand"
  /\ ~(opts.uid <= 0 \/ opts.gid <= 0)

ParseEnds ==
  /\ opc = "parse" /\ opti > Len(argv)
  /\ opc' = IF Acceptable THEN "ready" ELSE "quit"
  /\ UNCHANGED <<argv, envSize, ids, area, titleSize, opti, opts>>

\* The name of the socket's file: <prefix>-<uid>-<gid>.sock.
SocketPath ==
  <<IF opts.socket = Nowhere THEN "jaild" ELSE Text(opts.socket),
    Signed(opts.uid), Signed(opts.gid)>>

Least(a, b) == IF a < b THEN a ELSE b

\* A mistake that a run tells from the code: what follows the text is erased
\* as if there were no prefix.
ErasedAfter(off, len) == off + titleSize

\* Up to where cmdline_set_process_name writes zeros: the end of the area, and
\* that of its text.
ErasedTo(off, len) == IF off + len = titleSize THEN titleSize + 1 ELSE titleSize

SetProcessName ==
  LET off == Least(PrefixLength, titleSize)
      len == Least(TitleLength, titleSize - off)
  IN  [i \in DOMAIN area |->
         IF i <= off THEN Char("prefix")
         ELSE IF i <= off + len THEN Char("title")
         ELSE IF i <= ErasedTo(off, len) THEN NUL
         ELSE area[i]]

\* server_main begins with its title; it has what main parsed.
MasterTitle ==
  /\ opc = "ready"
  /\ area' = SetProcessName
  /\ opc' = "master"
  /\ UNCHANGED <<argv, envSize, ids, titleSize, opti, opts>>

CommandStep == Setup \/ ParseOption \/ ParseEnds

-----------------------------------------------------------------------------
\* What was given last to an option that takes a text, if it was given.
Given(letter) ==
  LET at == {i \in 1 .. opti - 1 : argv[i].opt = letter}
  IN  IF at = {} THEN "" ELSE argv[CHOOSE i \in at : \A j \in at : j <= i].text

\* The options are what was given, whatever is written over the memory they
\* were given in: name and shell are read long after (jaild.c:590-602,
\* cmdline.c:139-168, child.c:140-165).
OptionsSurvive ==
  opc \in {"ready", "master"} =>
    /\ (IF opts.name = Nowhere THEN "" ELSE Text(opts.name)) = Given("n")
    /\ (IF opts.shell = Nowhere THEN "" ELSE Text(opts.shell)) = Given("s")
    /\ (IF opts.root = Nowhere THEN "" ELSE Text(opts.root)) = Given("r")

\* The title stays in the memory that was found to be free for it, and what
\* shows of it ends with a zero byte (cmdline.c:196-227).
TitleInBounds ==
  \A i \in 1 .. Cells : i > titleSize => area[i] = Original(i)
=============================================================================
