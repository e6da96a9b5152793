------------------------------ MODULE Console ------------------------------
(***************************************************************************)
(* c_gets (mach/*/promlib.c), one step per key, and the prompt's repeated  *)
(* use of it with the same buffer.                                         *)
(*                                                                         *)
(* The three ports differ in the erase keys: c1700 and c3600 take BS and   *)
(* DEL back with "i -= 2"; c7200 takes only BS, with "i--".                *)
(***************************************************************************)
EXTENDS CString

CONSTANTS
  Platforms,  \* the ports: "c1700", "c3600", "c7200"
  Chars,      \* the printable characters
  Junk,       \* an uninitialised character
  n,          \* the size passed to c_gets, 128
  Careful,    \* whether the user of c1700 or c3600 never erases on an
              \* empty line
  Below       \* how far below the buffer writes are followed

ASSUME ConsoleAssumption ==
  /\ Platforms \subseteq {"c1700", "c3600", "c7200"}
  /\ n \in Nat /\ n > 1 /\ Below \in Nat
  /\ Careful \in BOOLEAN
  /\ Space \in Chars /\ Chars \cap {"BS", "DEL", NUL, Junk} = {}
  /\ NUL \notin {"BS", "DEL"}

VARIABLES
  platform,   \* the port that was built
  b, i,
  gets        \* "edit" in c_gets' loop, "done" behind it

getsVars == <<platform, b, i, gets>>

(* The caller's array, uninitialised but for the terminator behind the n   *)
(* cells that c_gets may use.                                              *)
buf == [k \in 0 .. n |-> IF k = n THEN NUL ELSE b[k]]

GetsInit ==
  /\ platform \in Platforms
  /\ b = [k \in -Below .. n - 1 |-> Junk]
  /\ i = 0
  /\ gets = "edit"

(* The keys that take a character back, and what they do to i after the    *)
(* i++.  The mutant forgets that the key has been counted.                 *)
EraseKeys == IF platform = "c7200" THEN {"BS"} ELSE {"BS", "DEL"}

EraseStepOne == 1

EraseStep == IF platform = "c7200" THEN 1 ELSE 2

(* while (i < n); the mutant goes one further.                             *)
FullLate(j) == j > n

Full(j) == j >= n

(* Every other key is kept; "DEL" is one on c7200.  When the buffer is     *)
(* full the loop ends and b[i - 1] = '\0' replaces the character.          *)
PressChar ==
  /\ gets = "edit"
  /\ \E c \in Chars \cup ({"DEL"} \ EraseKeys) :
       b' = [b EXCEPT ![i] = IF Full(i + 1) THEN NUL ELSE c]
  /\ i' = i + 1
  /\ gets' = IF Full(i + 1) THEN "done" ELSE "edit"
  /\ UNCHANGED platform

PressErase ==
  /\ gets = "edit"
  /\ Careful /\ platform # "c7200" => i > 0
  /\ i - 1 >= -Below
  /\ \E k \in EraseKeys : b' = [b EXCEPT ![i] = k]
  /\ i' = i + 1 - EraseStep
  /\ UNCHANGED <<platform, gets>>

(* '\n' or '\r' is stored, then replaced by the terminator.                *)
PressEnter ==
  /\ gets = "edit"
  /\ b' = [b EXCEPT ![i] = NUL]
  /\ i' = i + 1
  /\ gets' = "done"
  /\ UNCHANGED platform

(* start_bootloader has used the line and prompts again; b is not cleared. *)
Prompt ==
  /\ gets = "done"
  /\ i' = 0
  /\ gets' = "edit"
  /\ UNCHANGED <<platform, b>>

GetsNext == PressChar \/ PressErase \/ PressEnter \/ Prompt

GetsSpec == GetsInit /\ [][GetsNext]_getsVars

-----------------------------------------------------------------------------
(* c_gets "reads up to n characters into buffer b": every character and    *)
(* the terminator are stored in b[0] .. b[n - 1].                          *)
InBuffer ==
  /\ gets = "edit" => i \in 0 .. n - 1
  /\ gets = "done" => i \in 1 .. n

(* The characters the loop has kept, and the string it hands over.         *)
kept == IF gets = "edit" THEN [k \in 1 .. i |-> b[k - 1]] ELSE Str(buf)

(* c_gets is a line editor: on c1700 and c3600, for a user who does not    *)
(* erase an empty line, an erase key takes back exactly one character; on  *)
(* c7200 it takes back only itself, which the editor does not see.  The    *)
(* string handed over is the line, whatever longer line was in the buffer. *)
Editor == INSTANCE LineEditor WITH Chars <- Chars \cup {"DEL"}, line <- kept, status <- gets

EditsLines ==
  /\ Editor!Spec
  /\ [][gets = "edit" /\ platform # "c7200" /\ b'[i] \in EraseKeys
          => Len(kept') = Len(kept) - 1]_getsVars
=============================================================================
