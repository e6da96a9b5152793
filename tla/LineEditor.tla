----------------------------- MODULE LineEditor -----------------------------
(***************************************************************************)
(* What c_gets promises its caller: a line the user types and corrects, of *)
(* fewer than n characters, handed over as a string.  A line that reaches  *)
(* n characters is handed over without the last one.                       *)
(***************************************************************************)
EXTENDS Integers, Sequences

CONSTANTS Chars, n

VARIABLES line, status

Init == line = << >> /\ status = "edit"

Type(c) ==
  /\ status = "edit"
  /\ IF Len(line) + 1 < n THEN line' = Append(line, c) /\ status' = status
                          ELSE line' = line /\ status' = "done"

Erase ==
  /\ status = "edit" /\ line # << >>
  /\ line' = SubSeq(line, 1, Len(line) - 1)
  /\ status' = status

Enter == status = "edit" /\ status' = "done" /\ line' = line

NewLine == status = "done" /\ status' = "edit" /\ line' = << >>

Next == (\E c \in Chars : Type(c)) \/ Erase \/ Enter \/ NewLine

Spec == Init /\ [][Next]_<<line, status>>
=============================================================================
