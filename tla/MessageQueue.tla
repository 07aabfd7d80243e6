---------------------------- MODULE MessageQueue ----------------------------
(***************************************************************************)
(* What each end of the connection expects of the other's messages: they   *)
(* are taken one by one, whole, each once and in the order they were put.  *)
(* The models above the connection (Wire) are written as if they had this. *)
(***************************************************************************)
EXTENDS Naturals, Sequences

VARIABLES
  put,              \* all that was ever put
  taken             \* all that was ever taken

Init == put = <<>> /\ taken = <<>>

Put ==
  /\ Len(put') = Len(put) + 1
  /\ SubSeq(put', 1, Len(put)) = put
  /\ UNCHANGED taken

Take ==
  /\ Len(taken) < Len(put)
  /\ taken' = Append(taken, put[Len(taken) + 1])
  /\ UNCHANGED put

Next == Put \/ Take

Spec == Init /\ [][Next]_<<put, taken>>
=============================================================================
