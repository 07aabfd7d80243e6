----------------------------- MODULE RemoteExec -----------------------------
(***************************************************************************)
(* What a user may count on who runs a program in the container: it is     *)
(* started at most once, its output is shown in order and the input given  *)
(* to it is what was typed, in order; the result is the program's own code *)
(* after its end, or a failure at any time, and there is but one.  What is *)
(* missing is a promise that all output is shown, or all input read.       *)
(***************************************************************************)
EXTENDS Integers, Sequences

CONSTANTS Files, Statuses

VARIABLES
  program,          \* "none", "running" or "ended"
  status,           \* its wait status, -1 if it has none
  written, shown,   \* per file: how much it wrote, and what was shown of it
  typed, consumed,  \* how much was typed, and what it read of it
  result            \* what the user is told of it all, -1 before

vars == <<program, status, written, shown, typed, consumed, result>>

Init ==
  /\ program = "none" /\ status = -1
  /\ written = [f \in Files |-> 0]
  /\ shown = [f \in Files |-> <<>>]
  /\ typed = 0 /\ consumed = <<>>
  /\ result = -1

Start ==
  /\ program = "none" /\ program' = "running"
  /\ UNCHANGED <<status, written, shown, typed, consumed, result>>

\* What the program leaves behind may still write, and read.
Write(f) ==
  /\ program # "none"
  /\ written' = [written EXCEPT ![f] = @ + 1]
  /\ UNCHANGED <<program, status, shown, typed, consumed, result>>

Show(f) ==
  /\ result = -1
  /\ Len(shown[f]) < written[f]
  /\ shown' = [shown EXCEPT ![f] = Append(@, Len(@) + 1)]
  /\ UNCHANGED <<program, status, written, typed, consumed, result>>

Type ==
  /\ typed' = typed + 1
  /\ UNCHANGED <<program, status, written, shown, consumed, result>>

Read ==
  /\ program # "none"
  /\ Len(consumed) < typed
  /\ consumed' = Append(consumed, Len(consumed) + 1)
  /\ UNCHANGED <<program, status, written, shown, typed, result>>

End ==
  /\ program = "running" /\ program' = "ended"
  /\ status' \in Statuses \cup {-1}
  /\ UNCHANGED <<written, shown, typed, consumed, result>>

Failure == 255
OwnCode == IF status >= 0 /\ status % 128 = 0 THEN {status \div 256} ELSE {}

Return ==
  /\ result = -1
  /\ result' \in {Failure} \cup OwnCode
  /\ UNCHANGED <<program, status, written, shown, typed, consumed>>

Next ==
  \/ Start \/ End \/ Return
  \/ Type \/ Read
  \/ \E f \in Files : Write(f) \/ Show(f)

Spec == Init /\ [][Next]_vars
=============================================================================
