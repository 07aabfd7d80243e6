------------------------------ MODULE MCLaunch ------------------------------
(***************************************************************************)
(* Launch with accounts and lists of strings for TLC.                      *)
(***************************************************************************)
EXTENDS Launch, Functions

\* Root or not, in the group of root or not, with one more group.
MCAccounts == [uid : {0, 2}, gid : {0, 2}, groups : {{9}}]

\* A client may be called as login shell or not, with arguments, one of them
\* empty, or one that looks like a variable.
MCArgLists ==
  LET jail == Plain("jail")  b == [name |-> "TERM", value |-> "b"] IN
  {<<>>, <<jail>>, <<Plain("-jail")>>, <<jail, Plain("-c"), Plain("x")>>,
   <<jail, Empty, b>>, <<jail, Plain("-c"), Empty>>}

Var(name, value) == [name |-> name, value |-> value]

\* Variables that may pass, one of them twice, and others that may not.
MCEnvLists ==
  {<<>>,
   <<Var("TERM", "a"), Var("LD_PRELOAD", "x"), Var("SHELL", "other"), Var("TERM", "b")>>,
   <<Var("SSH_TTY", "other"), Var("LC_ALL", "a"), Var("LANGUAGE", "a")>>}

MCStrings == {Empty} \cup UNION {Range(list) : list \in MCArgLists \cup MCEnvLists}

\* One byte for a name, a value and the sign between them.
MCStrlen(s) == CASE s = Empty     -> 0
                 [] s.name = ""   -> 1
                 [] OTHER         -> 3

MCHyphenated == {Plain("-jail"), Plain("-c")}
MCLcNames == {"LC_ALL"}
=============================================================================
