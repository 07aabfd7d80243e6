------------------------------- MODULE Service -------------------------------
(***************************************************************************)
(* What jaild promises its clients, whatever happens to its processes:     *)
(* whoever comes while it is open waits until he is served or sent away,   *)
(* one at a time and each once, and when it is closed nobody waits.        *)
(***************************************************************************)
CONSTANT Clients

VARIABLES
  phase,            \* "starting", "open" or "closed"
  at                \* per client: "away", "waiting", "served" or "left"

vars == <<phase, at>>

Waiting == {c \in Clients : at[c] = "waiting"}
Present == {c \in Clients : at[c] \in {"waiting", "served"}}

Init == phase = "starting" /\ at = [c \in Clients |-> "away"]

Gone(leaving) == [c \in Clients |-> IF c \in leaving THEN "left" ELSE at[c]]

Open ==
  /\ phase = "starting"
  /\ phase' = "open"
  /\ UNCHANGED at

Come(c) ==
  /\ phase = "open" /\ at[c] = "away"
  /\ at' = [at EXCEPT ![c] = "waiting"]
  /\ UNCHANGED phase

Serve(c) ==
  /\ phase = "open" /\ at[c] = "waiting"
  /\ at' = [at EXCEPT ![c] = "served"]
  /\ UNCHANGED phase

\* Sessions end, alone or with the process that started them, and a connection
\* is closed when there is no session for it.
Leave(leaving) ==
  /\ at' = Gone(leaving)
  /\ UNCHANGED phase

\* The end of the service, for whatever reason.
Close(leaving) ==
  /\ phase # "closed" /\ Waiting \subseteq leaving
  /\ phase' = "closed"
  /\ at' = Gone(leaving)

Next ==
  \/ Open
  \/ \E c \in Clients : Come(c) \/ Serve(c)
  \/ \E leaving \in SUBSET Present : Leave(leaving) \/ Close(leaving)

Spec == Init /\ [][Next]_vars
=============================================================================
