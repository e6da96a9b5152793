------------------------------ MODULE CString ------------------------------
(***************************************************************************)
(* The operations of string.c that the boot prompt uses.  A buffer is a    *)
(* function from 0 .. size - 1 to characters; a string is the sequence of  *)
(* its characters before the first NUL.                                    *)
(***************************************************************************)
EXTENDS Integers, Sequences

CONSTANTS NUL, Space

strlen(b) == CHOOSE k \in DOMAIN b : b[k] = NUL /\ \A j \in 0 .. k - 1 : b[j] # NUL

Str(b) == [k \in 1 .. strlen(b) |-> b[k - 1]]

(* strchr: where c first occurs in the string, or -1.                      *)
strchr(b, c) ==
  LET at == {k \in 0 .. strlen(b) : b[k] = c}
  IN  IF at = {} THEN -1 ELSE CHOOSE k \in at : \A j \in at : k <= j

(* strncpy(d, src, count): copies up to the terminator and pads with NUL.  *)
(* The mutant, like the library's memcpy, does not pad.                    *)
strncpyUnpadded(d, src, count) ==
  [k \in DOMAIN d |-> IF k < count /\ k < strlen(src) THEN src[k] ELSE d[k]]

strncpy(d, src, count) ==
  [k \in DOMAIN d |-> IF k >= count THEN d[k]
                      ELSE IF k < strlen(src) THEN src[k] ELSE NUL]

(* strstr(h, needle) # NULL, as the loop finds it: npos counts the needle's*)
(* characters matched so far, falls back to 0 on a mismatch without        *)
(* looking at that character again, and the needle counts as found when    *)
(* all but its last character are.                                         *)
strstr(h, needle) ==
  LET npos[k \in 0 .. Len(h)] ==
        IF k = 0 THEN 0
        ELSE IF needle[npos[k - 1] + 1] = h[k] THEN npos[k - 1] + 1 ELSE 0
  IN  \E k \in 1 .. Len(h) :
        /\ npos[k] = Len(needle) - 1
        /\ \A j \in 1 .. k - 1 : npos[j] # Len(needle) - 1

(* What strstr is for: the needle occurs in h.                             *)
Contains(h, needle) ==
  \E k \in 0 .. Len(h) - Len(needle) : SubSeq(h, k + 1, k + Len(needle)) = needle
=============================================================================
