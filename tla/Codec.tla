-------------------------------- MODULE Codec --------------------------------
(***************************************************************************)
(* Lists of strings as they travel (src/common/array.c): the strings one   *)
(* after the other, each with its zero byte, and a zero byte at the end.   *)
(* Serialized, a list is the sequence of its strings and an empty one: an  *)
(* empty string is nothing but a zero byte.                                *)
(*                                                                         *)
(* A string is a record: NAME=value, or with an empty name just a value.   *)
(***************************************************************************)
EXTENDS Integers, Sequences

CONSTANTS
  Strings,          \* what a list may hold
  Strlen(_),        \* strlen(3)
  Hyphenated,       \* the strings that begin with "-"
  LcNames           \* the names that begin with "LC_"

Empty == [name |-> "", value |-> ""]
Plain(value) == [name |-> "", value |-> value]

\* The names environ_permitted lets pass beside LcNames, and those that the
\* session sets whatever its client has.
GoodNames == {"SSH_CONNECTION", "SSH_CLIENT", "SSH_TTY", "TERM", "LANG"}
OwnNames == {"HOME", "PWD", "SHELL", "LOGNAME", "USER"}

ASSUME CodecAssumption ==
  /\ Strings \subseteq [name : STRING, value : STRING] /\ Empty \in Strings
  /\ \A s \in Strings : Strlen(s) \in Nat /\ (Strlen(s) = 0 <=> s = Empty)
  /\ LcNames \cap (GoodNames \cup OwnNames \cup {""}) = {}

\* The bytes of a list of strings without the zero byte at its end.
Bytes(strings) ==
  LET upTo[n \in 0 .. Len(strings)] ==
        IF n = 0 THEN 0 ELSE upTo[n - 1] + Strlen(strings[n]) + 1
  IN  upTo[Len(strings)]

\* array_serialize into a buffer of so much room.
Fits(strings, room) == Bytes(strings) + 1 <= room
Serialize(strings) == Append(strings, Empty)

\* array_parse of a buffer of size bytes: all before the first zero byte that
\* ends no string, unless array_sanity_test runs out of the buffer before it.
Items(cells) ==
  LET ends == CHOOSE i \in 1 .. Len(cells) :
                cells[i] = Empty /\ \A j \in 1 .. i - 1 : cells[j] # Empty
  IN  SubSeq(cells, 1, ends - 1)

Parses(cells, size) ==
  /\ \E i \in 1 .. Len(cells) : cells[i] = Empty
  /\ Bytes(Items(cells)) < size

\* What follows the list in the buffer, and the bytes it took.
Rest(cells) == SubSeq(cells, Len(Items(cells)) + 2, Len(cells))
Used(cells) == Bytes(Items(cells)) + 1

Permitted(s) == s.name \in GoodNames \/ s.name \in LcNames

PermittedOnly(strings) ==
  LET upTo[n \in 0 .. Len(strings)] ==
        IF n = 0 THEN <<>>
        ELSE IF Permitted(strings[n]) THEN Append(upTo[n - 1], strings[n])
        ELSE upTo[n - 1]
  IN  upTo[Len(strings)]
=============================================================================
