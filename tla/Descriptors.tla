----------------------------- MODULE Descriptors -----------------------------
(***************************************************************************)
(* File descriptors: a process has a table from numbers to what is open,   *)
(* and the kernel hands out the lowest free number.                        *)
(***************************************************************************)
EXTENDS Integers, Sequences

Free == "free"

\* open(2), socket(2), accept(2), dup(2): the file gets the lowest free number.
OpenFile(table, file) ==
  LET n == CHOOSE i \in DOMAIN table :
             table[i] = Free /\ \A j \in DOMAIN table : j < i => table[j] # Free
  IN  [table EXCEPT ![n] = file]

\* One file after the other.
OpenFiles(table, files) ==
  LET after[n \in 0 .. Len(files)] ==
        IF n = 0 THEN table ELSE OpenFile(after[n - 1], files[n])
  IN  after[Len(files)]

Dup2(table, from, to) == [table EXCEPT ![to] = table[from]]

CloseNumbers(table, numbers) ==
  [i \in DOMAIN table |-> IF i \in numbers THEN Free ELSE table[i]]

\* The number of an open file of which there is one copy.
NumberOf(table, file) == CHOOSE i \in DOMAIN table : table[i] = file

-----------------------------------------------------------------------------
(* The numbers of a session: its client, and the program's output, if jaild
   was started with its standard descriptors open. *)
Remote == 4

\* A mistake that a run tells from the code: stderr left at 0.
FdOfUnset(k) == [stdout |-> 6, stderr |-> IF k = "tty" THEN 0 ELSE 8]

FdOf(k) ==
  CASE k = "pipe"   -> [stdout |-> 6, stderr |-> 8]
    [] k = "socket" -> [stdout |-> 8, stderr |-> 7]
    [] k = "tty"    -> [stdout |-> 6, stderr |-> -1]
=============================================================================
