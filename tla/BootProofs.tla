----------------------------- MODULE BootProofs -----------------------------
(***************************************************************************)
(* The boot prompt, for every buffer size and every line: c_gets stays in  *)
(* its buffer and is a line editor, and start_bootloader opens the name    *)
(* that was entered.                                                       *)
(***************************************************************************)
EXTENDS Boot, Induction

(* What a kept cell may hold.                                              *)
Kept == Chars \cup {"DEL"}

(* The number of cells the line occupies: behind the loop, i also counts   *)
(* the terminator.                                                         *)
LineLen == IF gets = "edit" THEN i ELSE i - 1

GetsInv ==
  /\ platform \in {"c1700", "c3600", "c7200"}
  /\ gets \in {"edit", "done"}
  /\ i \in Int /\ InBuffer
  /\ DOMAIN b = -Below .. n - 1 /\ b = [k \in DOMAIN b |-> b[k]]
  /\ \A k \in 0 .. LineLen - 1 : b[k] \in Kept
  /\ gets = "done" => b[LineLen] = NUL

(* Storing one cell of the buffer.                                         *)
LEMMA Store ==
  ASSUME NEW m \in -Below .. n - 1, NEW v, DOMAIN b = -Below .. n - 1,
         b' = [b EXCEPT ![m] = v]
  PROVE  /\ DOMAIN b' = -Below .. n - 1 /\ b' = [k \in DOMAIN b' |-> b'[k]]
         /\ b'[m] = v
         /\ \A k \in -Below .. n - 1 : k # m => b'[k] = b[k]
OBVIOUS

LEMMA GetsInvInit == GetsInit => GetsInv
BY ConsoleAssumption DEF GetsInit, GetsInv, InBuffer, LineLen

LEMMA GetsInvStep == Careful /\ GetsInv /\ [GetsNext]_getsVars => GetsInv'
<1> SUFFICES ASSUME Careful, GetsInv, [GetsNext]_getsVars PROVE GetsInv'
  OBVIOUS
<1> USE DEF GetsInv
<1>1. n \in Nat /\ n > 1 /\ Below \in Nat /\ NUL \notin Kept
  BY ConsoleAssumption DEF Kept
<1>2. gets = "edit" => i \in 0 .. n - 1 /\ LineLen = i
  BY DEF InBuffer, LineLen
<1>3. CASE PressChar
  <2>1. PICK c \in Kept : b' = [b EXCEPT ![i] = IF Full(i + 1) THEN NUL ELSE c]
    BY <1>3 DEF PressChar, Kept
  <2>2. /\ gets = "edit" /\ i \in 0 .. n - 1 /\ i' = i + 1 /\ platform' = platform
        /\ gets' = IF i + 1 >= n THEN "done" ELSE "edit"
    BY <1>2, <1>3 DEF PressChar, Full
  <2>3. i \in -Below .. n - 1
    BY <1>1, <2>2
  <2>4. /\ DOMAIN b' = -Below .. n - 1 /\ b' = [k \in DOMAIN b' |-> b'[k]]
        /\ b'[i] = IF i + 1 >= n THEN NUL ELSE c
        /\ \A k \in -Below .. n - 1 : k # i => b'[k] = b[k]
    BY <2>1, <2>3, Store DEF Full
  <2>5. LineLen' = IF i + 1 >= n THEN i ELSE i + 1
    BY <2>2 DEF LineLen
  <2>6. \A k \in 0 .. i - 1 : b'[k] \in Kept
    BY <1>1, <1>2, <2>2, <2>4
  <2>7. \A k \in 0 .. LineLen' - 1 : b'[k] \in Kept
    BY <2>2, <2>4, <2>5, <2>6
  <2>8. gets' = "done" => b'[LineLen'] = NUL
    BY <2>2, <2>4, <2>5
  <2>9. InBuffer' /\ i' \in Int
    BY <1>1, <2>2 DEF InBuffer
  <2> QED BY <2>2, <2>4, <2>7, <2>8, <2>9
<1>4. CASE PressErase
  <2>1. PICK v : b' = [b EXCEPT ![i] = v]
    BY <1>4 DEF PressErase
  <2>2. /\ gets = "edit" /\ gets' = "edit" /\ i \in 0 .. n - 1 /\ platform' = platform
        /\ i' = i \/ (i > 0 /\ i' = i - 1)
    <3>1. Careful /\ platform # "c7200" => i > 0
      BY <1>4, Zenon DEF PressErase
    <3>2. platform # "c7200" => i > 0
      BY <3>1, Zenon
    <3>3. gets = "edit" /\ gets' = gets /\ platform' = platform /\ i' = i + 1 - EraseStep
      BY <1>4 DEF PressErase
    <3>4. i \in 0 .. n - 1 /\ i \in Int
      BY <1>2, <3>3
    <3>5. CASE platform = "c7200"
      BY <3>3, <3>4, <3>5 DEF EraseStep
    <3>6. CASE platform # "c7200"
      BY <3>2, <3>3, <3>4, <3>6 DEF EraseStep
    <3> QED BY <3>5, <3>6
  <2>3. i \in -Below .. n - 1
    BY <1>1, <2>2
  <2>4. /\ DOMAIN b' = -Below .. n - 1 /\ b' = [k \in DOMAIN b' |-> b'[k]]
        /\ \A k \in -Below .. n - 1 : k # i => b'[k] = b[k]
    BY <2>1, <2>3, Store
  <2>5. LineLen' = i' /\ LineLen = i
    BY <2>2 DEF LineLen
  <2>6. \A k \in 0 .. i' - 1 : b'[k] \in Kept
    BY <1>1, <2>2, <2>4, <2>5
  <2>7. InBuffer' /\ i' \in Int
    BY <1>1, <2>2 DEF InBuffer
  <2> QED BY <2>2, <2>4, <2>5, <2>6, <2>7
<1>5. CASE PressEnter
  <2>1. /\ b' = [b EXCEPT ![i] = NUL] /\ gets = "edit" /\ gets' = "done"
        /\ i \in 0 .. n - 1 /\ i' = i + 1 /\ platform' = platform
    BY <1>2, <1>5 DEF PressEnter
  <2>2. i \in -Below .. n - 1
    BY <1>1, <2>1
  <2>3. /\ DOMAIN b' = -Below .. n - 1 /\ b' = [k \in DOMAIN b' |-> b'[k]]
        /\ b'[i] = NUL
        /\ \A k \in -Below .. n - 1 : k # i => b'[k] = b[k]
    BY <2>1, <2>2, Store
  <2>4. LineLen' = i /\ LineLen = i
    BY <2>1 DEF LineLen
  <2>5. \A k \in 0 .. i - 1 : b'[k] \in Kept
    BY <1>1, <2>1, <2>3, <2>4
  <2>6. InBuffer' /\ i' \in Int
    BY <1>1, <2>1 DEF InBuffer
  <2> QED BY <2>1, <2>3, <2>4, <2>5, <2>6
<1>6. CASE Prompt
  BY <1>1, <1>6 DEF Prompt, InBuffer, LineLen
<1>7. CASE UNCHANGED getsVars
  BY <1>7 DEF getsVars, InBuffer, LineLen
<1> QED BY <1>3, <1>4, <1>5, <1>6, <1>7 DEF GetsNext

(* For a user who does not erase an empty line, every character and the    *)
(* terminator that c_gets stores lies in the n bytes of its buffer,        *)
(* whatever keys are pressed at however many prompts.                      *)
THEOREM GetsInBuffer == ASSUME Careful PROVE GetsSpec => []InBuffer
<1>1. GetsInv /\ [GetsNext]_getsVars => GetsInv'
  BY GetsInvStep
<1>2. GetsInv => InBuffer
  BY DEF GetsInv
<1> QED BY <1>1, <1>2, GetsInvInit, PTL DEF GetsSpec

-----------------------------------------------------------------------------
(* strlen is the only place where a NUL follows none.                      *)
LEMMA StrlenAt ==
  ASSUME NEW s, NEW size \in Nat, DOMAIN s = 0 .. size, NEW m \in 0 .. size,
         s[m] = NUL, \A j \in 0 .. m - 1 : s[j] # NUL
  PROVE  strlen(s) = m
<1> DEFINE P(k) == s[k] = NUL /\ \A j \in 0 .. k - 1 : s[j] # NUL
<1>1. P(m) /\ m \in DOMAIN s
  OBVIOUS
<1>2. ASSUME NEW k \in DOMAIN s, P(k) PROVE k = m
  <2>1. k \in 0 .. size /\ m \in 0 .. size
    OBVIOUS
  <2>2. ~(k < m) /\ ~(m < k)
    BY <1>2, <2>1
  <2> QED BY <2>1, <2>2
<1> HIDE DEF P
<1>3. (CHOOSE k \in DOMAIN s : P(k)) = m
  BY <1>1, <1>2
<1> QED BY <1>3 DEF strlen, P

(* The line: the cells in front of i, or in front of the terminator.       *)
Line(c, m) == [k \in 1 .. m |-> c[k - 1]]

LineInv ==
  /\ kept = Line(b, LineLen) /\ LineLen \in 0 .. n - 1
  /\ gets = "done" => strlen(buf) = LineLen /\ Str(buf) = kept

LEMMA KeptIsLine == GetsInv => LineInv
<1> SUFFICES ASSUME GetsInv PROVE LineInv
  OBVIOUS
<1> USE DEF LineInv
<1>1. n \in Nat /\ n > 1 /\ NUL \notin Kept
  BY ConsoleAssumption DEF Kept
<1>2. LineLen \in 0 .. n - 1
  BY <1>1 DEF GetsInv, InBuffer, LineLen
<1>3. CASE gets = "edit"
  BY <1>2, <1>3 DEF kept, Line, LineLen
<1>4. CASE gets = "done"
  <2> DEFINE m == LineLen
  <2>1. m \in 0 .. n /\ m < n
    BY <1>1, <1>2
  <2> HIDE DEF m
  <2>2. DOMAIN buf = 0 .. n /\ \A k \in 0 .. n - 1 : buf[k] = b[k]
    <3>1. DOMAIN buf = 0 .. n
      BY DEF buf
    <3>2. ASSUME NEW k \in 0 .. n - 1 PROVE buf[k] = b[k]
      <4>1. k \in 0 .. n /\ k # n
        BY <1>1
      <4> QED BY <4>1 DEF buf
    <3> QED BY <3>1, <3>2
  <2>3. b[m] = NUL /\ \A j \in 0 .. m - 1 : b[j] \in Kept
    BY <1>4 DEF GetsInv, m
  <2>4. buf[m] = NUL /\ \A j \in 0 .. m - 1 : buf[j] # NUL
    BY <1>1, <2>1, <2>2, <2>3
  <2>5. strlen(buf) = m
    BY <1>1, <2>1, <2>2, <2>4, StrlenAt
  <2>6. Str(buf) = Line(b, m)
    <3>1. \A k \in 1 .. m : buf[k - 1] = b[k - 1]
      BY <1>1, <2>1, <2>2
    <3> QED BY <2>5, <3>1 DEF Str, Line
  <2>7. kept = Str(buf)
    BY <1>4 DEF kept
  <2> QED BY <1>2, <2>5, <2>6, <2>7 DEF m
<1> QED BY <1>3, <1>4 DEF GetsInv

LEMMA LineFacts ==
  ASSUME NEW c, NEW m \in Nat
  PROVE  /\ Len(Line(c, m)) = m
         /\ Line(c, 0) = << >>
         /\ Line(c, m) = << >> => m = 0
<1>1. Len(Line(c, m)) = m /\ Line(c, 0) = << >>
  BY DEF Line
<1> QED BY <1>1

(* Changes of the buffer, seen on the line.                                *)
LEMMA LineChanges ==
  ASSUME NEW c, NEW d, NEW m \in Nat, \A k \in 0 .. m - 1 : d[k] = c[k]
  PROVE  /\ Line(d, m) = Line(c, m)
         /\ Line(d, m + 1) = Append(Line(c, m), d[m])
         /\ m > 0 => Line(d, m - 1) = SubSeq(Line(c, m), 1, m - 1)
<1>1. \A k \in 1 .. m : d[k - 1] = c[k - 1]
  OBVIOUS
<1>2. Line(d, m) = Line(c, m)
  BY <1>1 DEF Line
<1>3. Line(d, m + 1) = Append(Line(c, m), d[m])
  BY <1>1 DEF Line
<1>4. m > 0 => Line(d, m - 1) = SubSeq(Line(c, m), 1, m - 1)
  BY <1>1 DEF Line
<1> QED BY <1>2, <1>3, <1>4

(* What each key does to the line.                                         *)
LEMMA CharKept ==
  ASSUME GetsInv, LineInv, LineInv', PressChar
  PROVE  /\ Len(kept) = i /\ i \in 0 .. n - 1
         /\ kept' = IF Full(i + 1) THEN kept ELSE Append(kept, b'[i])
         /\ \E c \in Chars \cup ({"DEL"} \ EraseKeys) :
              b'[i] = IF Full(i + 1) THEN NUL ELSE c
<1> DEFINE m == LineLen
<1>1. n \in Nat /\ n > 1 /\ Below \in Nat
  BY ConsoleAssumption
<1>2. PICK c \in Chars \cup ({"DEL"} \ EraseKeys) :
             b' = [b EXCEPT ![i] = IF Full(i + 1) THEN NUL ELSE c]
  BY DEF PressChar
<1>3. /\ gets = "edit" /\ i = m /\ i' = i + 1
      /\ gets' = IF i + 1 >= n THEN "done" ELSE "edit"
      /\ m' = IF gets' = "edit" THEN i' ELSE i' - 1
  BY DEF PressChar, Full, LineLen
<1>4. /\ kept = Line(b, m) /\ m \in 0 .. n - 1 /\ m \in Nat
      /\ kept' = Line(b', m') /\ DOMAIN b = -Below .. n - 1
  BY <1>1 DEF LineInv, GetsInv
<1> HIDE DEF m
<1>5. i \in -Below .. n - 1
  BY <1>1, <1>3, <1>4
<1>6. /\ b'[i] = IF Full(i + 1) THEN NUL ELSE c
      /\ \A k \in -Below .. n - 1 : k # i => b'[k] = b[k]
  BY <1>2, <1>4, <1>5, Store
<1>7. \A k \in 0 .. m - 1 : b'[k] = b[k]
  <2>1. \A k \in 0 .. m - 1 : k \in -Below .. n - 1 /\ k # i
    BY <1>1, <1>3, <1>4
  <2> QED BY <1>6, <2>1
<1>8. Len(kept) = m
  BY <1>4, LineFacts
<1>9. Line(b', m) = Line(b, m) /\ Line(b', m + 1) = Append(Line(b, m), b'[m])
  BY <1>4, <1>7, LineChanges
<1>10. kept' = IF Full(i + 1) THEN kept ELSE Append(kept, b'[i])
  <2>1. CASE i + 1 >= n
    <3>1. m' = m
      BY <1>3, <1>4, <2>1
    <3> QED BY <1>4, <1>9, <2>1, <3>1 DEF Full
  <2>2. CASE ~(i + 1 >= n)
    <3>1. m' = m + 1
      BY <1>3, <2>2
    <3> QED BY <1>3, <1>4, <1>9, <2>2, <3>1 DEF Full
  <2> QED BY <2>1, <2>2
<1> QED BY <1>3, <1>4, <1>6, <1>8, <1>10

LEMMA EraseKept ==
  ASSUME Careful, GetsInv, LineInv, LineInv', PressErase
  PROVE  /\ platform = "c7200" => kept' = kept
         /\ platform # "c7200" =>
              /\ kept # << >> /\ kept' = SubSeq(kept, 1, Len(kept) - 1)
              /\ Len(kept') = Len(kept) - 1
<1> DEFINE m == LineLen
<1>1. n \in Nat /\ n > 1 /\ Below \in Nat
  BY ConsoleAssumption
<1>2. PICK v : b' = [b EXCEPT ![i] = v]
  BY DEF PressErase
<1>3. /\ gets = "edit" /\ gets' = "edit" /\ i = m /\ m' = i'
      /\ i' = i + 1 - EraseStep
  BY DEF PressErase, LineLen
<1>4. /\ kept = Line(b, m) /\ m \in 0 .. n - 1 /\ m \in Nat
      /\ kept' = Line(b', m') /\ DOMAIN b = -Below .. n - 1
  BY <1>1 DEF LineInv, GetsInv
<1> HIDE DEF m
<1>5. i \in -Below .. n - 1
  BY <1>1, <1>3, <1>4
<1>6. \A k \in -Below .. n - 1 : k # i => b'[k] = b[k]
  BY <1>2, <1>4, <1>5, Store
<1>7. \A k \in 0 .. m - 1 : b'[k] = b[k]
  <2>1. \A k \in 0 .. m - 1 : k \in -Below .. n - 1 /\ k # i
    BY <1>1, <1>3, <1>4
  <2> QED BY <1>6, <2>1
<1>8. CASE platform = "c7200"
  <2>1. m' = m
    BY <1>3, <1>4, <1>8 DEF EraseStep
  <2>2. Line(b', m) = Line(b, m)
    BY <1>4, <1>7, LineChanges
  <2> QED BY <1>4, <1>8, <2>1, <2>2
<1>9. CASE platform # "c7200"
  <2>1. m > 0
    <3>1. i > 0
      BY <1>9, Zenon DEF PressErase
    <3> QED BY <1>3, <3>1
  <2>2. m' = m - 1 /\ m - 1 \in Nat
    BY <1>3, <1>4, <1>9, <2>1 DEF EraseStep
  <2>3. Line(b', m - 1) = SubSeq(Line(b, m), 1, m - 1)
    BY <1>4, <1>7, <2>1, LineChanges
  <2>4. Len(Line(b, m)) = m /\ Line(b, m) # << >>
    BY <1>4, <2>1, LineFacts
  <2>5. Len(Line(b', m - 1)) = m - 1
    BY <2>2, LineFacts
  <2> QED BY <1>4, <1>9, <2>2, <2>3, <2>4, <2>5
<1> QED BY <1>8, <1>9

LEMMA EnterKept ==
  ASSUME GetsInv, LineInv, LineInv', PressEnter
  PROVE  kept' = kept /\ b'[i] = NUL
<1> DEFINE m == LineLen
<1>1. n \in Nat /\ n > 1 /\ Below \in Nat
  BY ConsoleAssumption
<1>2. /\ b' = [b EXCEPT ![i] = NUL] /\ gets = "edit" /\ gets' = "done"
      /\ i = m /\ i' = i + 1 /\ m' = i' - 1
  BY DEF PressEnter, LineLen
<1>3. /\ kept = Line(b, m) /\ m \in 0 .. n - 1 /\ m \in Nat
      /\ kept' = Line(b', m') /\ DOMAIN b = -Below .. n - 1
  BY <1>1 DEF LineInv, GetsInv
<1> HIDE DEF m
<1>4. i \in -Below .. n - 1
  BY <1>1, <1>2, <1>3
<1>5. b'[i] = NUL /\ \A k \in -Below .. n - 1 : k # i => b'[k] = b[k]
  BY <1>2, <1>3, <1>4, Store
<1>6. \A k \in 0 .. m - 1 : b'[k] = b[k]
  <2>1. \A k \in 0 .. m - 1 : k \in -Below .. n - 1 /\ k # i
    BY <1>1, <1>2, <1>3
  <2> QED BY <1>5, <2>1
<1>7. Line(b', m) = Line(b, m)
  BY <1>3, <1>6, LineChanges
<1>8. m' = m
  BY <1>2, <1>3
<1> QED BY <1>3, <1>5, <1>7, <1>8

LEMMA PromptKept == ASSUME LineInv', Prompt PROVE kept' = << >>
<1>1. kept' = Line(b', LineLen') /\ LineLen' = 0
  BY DEF LineInv, Prompt, LineLen
<1> QED BY <1>1, LineFacts

(* Every key, seen by the line editor.                                     *)
LEMMA KeyEdits ==
  ASSUME Careful, GetsInv, LineInv, LineInv', [GetsNext]_getsVars
  PROVE  /\ [Editor!Next]_<<kept, gets>>
         /\ [gets = "edit" /\ platform # "c7200" /\ b'[i] \in EraseKeys
               => Len(kept') = Len(kept) - 1]_getsVars
<1>1. /\ n \in Nat /\ n > 1 /\ NUL \notin {"BS", "DEL"}
      /\ Chars \cap {"BS", "DEL"} = {}
  BY ConsoleAssumption
<1>2. CASE PressChar
  <2>1. PICK c \in Chars \cup ({"DEL"} \ EraseKeys) :
               b'[i] = IF Full(i + 1) THEN NUL ELSE c
    BY <1>2, CharKept
  <2>2. /\ Len(kept) = i /\ i \in 0 .. n - 1
        /\ kept' = IF Full(i + 1) THEN kept ELSE Append(kept, b'[i])
    BY <1>2, CharKept
  <2>3. gets = "edit" /\ gets' = IF Full(i + 1) THEN "done" ELSE "edit"
    BY <1>2 DEF PressChar
  <2>4. Full(i + 1) <=> ~(Len(kept) + 1 < n)
    BY <1>1, <2>2 DEF Full
  <2>5. Editor!Type(c)
    BY <2>1, <2>2, <2>3, <2>4 DEF Editor!Type
  <2>6. Editor!Next
    BY <2>5 DEF Editor!Next
  <2>7. platform # "c7200" => b'[i] \notin EraseKeys
    BY <1>1, <2>1 DEF EraseKeys
  <2> QED BY <2>6, <2>7
<1>3. CASE PressErase
  <2>1. gets = "edit" /\ gets' = gets
    BY <1>3 DEF PressErase
  <2>2. CASE platform = "c7200"
    BY <1>3, <2>1, <2>2, EraseKept
  <2>3. CASE platform # "c7200"
    <3>1. /\ kept # << >> /\ kept' = SubSeq(kept, 1, Len(kept) - 1)
          /\ Len(kept') = Len(kept) - 1
      BY <1>3, <2>3, EraseKept
    <3> QED BY <2>1, <3>1 DEF Editor!Next, Editor!Erase
  <2> QED BY <2>2, <2>3
<1>4. CASE PressEnter
  <2>1. gets = "edit" /\ gets' = "done" /\ kept' = kept /\ b'[i] = NUL
    BY <1>4, EnterKept DEF PressEnter
  <2>2. Editor!Next
    BY <2>1 DEF Editor!Next, Editor!Enter
  <2>3. b'[i] \notin EraseKeys
    BY <1>1, <2>1 DEF EraseKeys
  <2> QED BY <2>2, <2>3
<1>5. CASE Prompt
  <2>1. gets = "done" /\ gets' = "edit" /\ kept' = << >>
    BY <1>5, PromptKept DEF Prompt
  <2> QED BY <2>1 DEF Editor!Next, Editor!NewLine
<1>6. CASE UNCHANGED getsVars
  <2>1. b' = b /\ gets' = gets /\ LineLen' = LineLen
    BY <1>6 DEF getsVars, LineLen
  <2>2. kept' = kept
    BY <2>1 DEF LineInv
  <2> QED BY <1>6, <2>1, <2>2
<1> QED BY <1>2, <1>3, <1>4, <1>5, <1>6 DEF GetsNext

(* c_gets implements the line editor of module LineEditor; on c1700 and    *)
(* c3600 an erase key takes back exactly one character.  The string handed *)
(* over is the edited line for every buffer size and every earlier content *)
(* of the buffer.                                                          *)
THEOREM GetsEdits == ASSUME Careful PROVE GetsSpec => EditsLines
<1>1. GetsInv /\ [GetsNext]_getsVars => GetsInv'
  BY GetsInvStep
<1>2. GetsInit => Editor!Init
  <2> SUFFICES ASSUME GetsInit PROVE kept = << >> /\ gets = "edit"
    BY DEF Editor!Init
  <2>1. LineInv /\ LineLen = 0 /\ gets = "edit"
    BY GetsInvInit, KeptIsLine DEF GetsInit, LineLen
  <2> QED BY <2>1, LineFacts DEF LineInv
<1>3. GetsInv /\ LineInv /\ LineInv' /\ [GetsNext]_getsVars
        => /\ [Editor!Next]_<<kept, gets>>
           /\ [gets = "edit" /\ platform # "c7200" /\ b'[i] \in EraseKeys
                 => Len(kept') = Len(kept) - 1]_getsVars
  BY KeyEdits
<1> QED BY <1>1, <1>2, <1>3, GetsInvInit, KeptIsLine, PTL
        DEF GetsSpec, EditsLines, Editor!Spec

-----------------------------------------------------------------------------
(* start_bootloader's steps are keys and prompts of c_gets, or leave it    *)
(* alone.                                                                  *)
LEMMA BootGets == [Next]_vars => [GetsNext]_getsVars
<1> SUFFICES ASSUME [Next]_vars PROVE [GetsNext]_getsVars
  OBVIOUS
<1>1. CASE TypeChar \/ TypeErase \/ TypeEnter \/ OpenMissing \/ LoaderReturns
  BY <1>1 DEF TypeChar, TypeErase, TypeEnter, OpenMissing, LoaderReturns, GetsNext
<1>2. CASE NoFlash \/ FlashFound \/ ParseWithArgs \/ ParseBare \/ OpenFile
             \/ LoaderStartsKernel
  BY <1>2 DEF NoFlash, FlashFound, ParseWithArgs, ParseBare, OpenFile, LoaderStartsKernel
<1>3. CASE UNCHANGED vars
  BY <1>3 DEF vars
<1> QED BY <1>1, <1>2, <1>3 DEF Next

(* The whole prompt keeps c_gets in its buffer.                            *)
THEOREM BootInBuffer == ASSUME Careful PROVE Spec => []InBuffer
<1>1. Init => GetsInit
  BY DEF Init
<1>2. GetsSpec => []InBuffer
  BY GetsInBuffer
<1> QED BY <1>1, <1>2, BootGets, PTL DEF Spec, GetsSpec

(* The whole prompt edits lines as module LineEditor says.                 *)
THEOREM BootEdits == ASSUME Careful PROVE Spec => EditsLines
<1>1. Init => GetsInit
  BY DEF Init
<1>2. GetsSpec => EditsLines
  BY GetsEdits
<1> QED BY <1>1, <1>2, BootGets, PTL DEF Spec, GetsSpec

LEMMA BootGetsInv == ASSUME Careful PROVE Spec => [](GetsInv /\ LineInv)
<1>1. Init => GetsInv
  BY GetsInvInit DEF Init
<1>2. GetsInv /\ [Next]_vars => GetsInv'
  BY BootGets, GetsInvStep
<1> QED BY <1>1, <1>2, KeptIsLine, PTL DEF Spec

-----------------------------------------------------------------------------
(* What the user sees is what c_gets keeps, and a line is only parsed when *)
(* c_gets has handed it over.                                              *)
Editing == pc \in {"start", "prompt", "aborted"}
Entered == pc \in {"parse", "open", "lzma", "elf32", "elf64", "kernel", "corrupt"}

TypedInv ==
  /\ typed = kept
  /\ Editing \/ Entered
  /\ Editing => gets = "edit"
  /\ Entered => gets = "done"

LEMMA TypedInit == GetsInv /\ LineInv /\ Init => TypedInv
<1> SUFFICES ASSUME GetsInv, LineInv, Init PROVE TypedInv
  OBVIOUS
<1>1. kept = Line(b, LineLen) /\ LineLen = 0
  BY DEF Init, GetsInit, LineInv, LineLen
<1>2. kept = << >>
  BY <1>1, LineFacts
<1> QED BY <1>2 DEF Init, GetsInit, TypedInv, Editing, Entered

LEMMA KeptUnchanged ==
  ASSUME LineInv, LineInv', UNCHANGED getsVars PROVE kept' = kept /\ gets' = gets
<1>1. b' = b /\ gets' = gets /\ LineLen' = LineLen
  BY DEF getsVars, LineLen
<1> QED BY <1>1 DEF LineInv

LEMMA TypedStep ==
  ASSUME Careful, GetsInv, LineInv, LineInv', TypedInv, [Next]_vars
  PROVE  TypedInv'
<1> USE DEF TypedInv
<1>1. CASE TypeChar
  <2>1. pc = "prompt" /\ PressChar /\ LineHandedOver
        /\ typed' = IF Full(i + 1) THEN typed ELSE Append(typed, b'[i])
    BY <1>1 DEF TypeChar
  <2>2. kept' = IF Full(i + 1) THEN kept ELSE Append(kept, b'[i])
    BY <2>1, CharKept
  <2>3. gets' \in {"edit", "done"}
    BY <2>1 DEF PressChar
  <2> QED BY <2>1, <2>2, <2>3 DEF LineHandedOver, Editing, Entered
<1>2. CASE TypeErase
  <2>1. pc = "prompt" /\ PressErase /\ LineHandedOver /\ gets' = "edit"
        /\ typed' = IF platform = "c7200" THEN typed ELSE SubSeq(typed, 1, Len(typed) - 1)
    BY <1>2 DEF TypeErase, PressErase
  <2>2. kept' = IF platform = "c7200" THEN kept ELSE SubSeq(kept, 1, Len(kept) - 1)
    BY <2>1, EraseKept
  <2> QED BY <2>1, <2>2 DEF LineHandedOver, Editing, Entered
<1>3. CASE TypeEnter
  <2>1. pc = "prompt" /\ PressEnter /\ LineHandedOver /\ gets' = "done" /\ typed' = typed
    BY <1>3 DEF TypeEnter, PressEnter
  <2>2. kept' = kept
    BY <2>1, EnterKept
  <2> QED BY <2>1, <2>2 DEF LineHandedOver, Editing, Entered
<1>4. CASE OpenMissing \/ LoaderReturns
  <2>1. Prompt /\ pc' = "prompt" /\ typed' = << >> /\ gets' = "edit"
    BY <1>4 DEF OpenMissing, LoaderReturns, Prompt
  <2>2. kept' = << >>
    BY <2>1, PromptKept
  <2> QED BY <2>1, <2>2 DEF Editing, Entered
<1>5. CASE NoFlash \/ FlashFound \/ ParseWithArgs \/ ParseBare \/ OpenFile
             \/ LoaderStartsKernel \/ UNCHANGED vars
  <2>1. /\ UNCHANGED getsVars /\ typed' = typed
        /\ Editing' <=> Editing
        /\ Entered' <=> Entered
    BY <1>5 DEF NoFlash, FlashFound, ParseWithArgs, ParseBare, OpenFile,
                LoaderStartsKernel, vars, bootVars, Editing, Entered
  <2>2. kept' = kept /\ gets' = gets
    BY <2>1, KeptUnchanged
  <2> QED BY <2>1, <2>2
<1> QED BY <1>1, <1>2, <1>3, <1>4, <1>5 DEF Next

-----------------------------------------------------------------------------
(* The parsed buffer is the typed line.                                    *)
LEMMA BufTyped ==
  ASSUME GetsInv, LineInv, TypedInv, Entered
  PROVE  /\ typed \in Seq(Kept) /\ strlen(buf) = Len(typed) /\ Str(buf) = typed
         /\ \A k \in 0 .. Len(typed) - 1 : buf[k] = typed[k + 1]
         /\ buf[Len(typed)] = NUL
<1> DEFINE m == LineLen
<1>1. n \in Nat /\ gets = "done"
  BY ConsoleAssumption DEF TypedInv
<1>2. /\ typed = Line(b, m) /\ m \in 0 .. n - 1 /\ m \in Nat
      /\ strlen(buf) = m /\ Str(buf) = typed
      /\ b[m] = NUL /\ \A k \in 0 .. m - 1 : b[k] \in Kept
  BY <1>1 DEF TypedInv, LineInv, GetsInv
<1> HIDE DEF m
<1>3. \A k \in 1 .. m : k - 1 \in 0 .. m - 1
  BY <1>2
<1>4. typed \in Seq(Kept) /\ Len(typed) = m /\ \A k \in 1 .. m : typed[k] = b[k - 1]
  BY <1>2, <1>3 DEF Line
<1>5. ASSUME NEW k \in 0 .. m PROVE buf[k] = b[k]
  <2>1. k \in 0 .. n /\ k # n
    BY <1>1, <1>2
  <2> QED BY <2>1 DEF buf
<1>6. ASSUME NEW k \in 0 .. m - 1 PROVE buf[k] = typed[k + 1]
  <2>1. k + 1 \in 1 .. m /\ k \in 0 .. m /\ (k + 1) - 1 = k
    BY <1>2
  <2> QED BY <1>4, <1>5, <2>1
<1>7. m \in 0 .. m
  BY <1>2
<1> QED BY <1>2, <1>4, <1>5, <1>6, <1>7

(* strchr finds the end of the first word.                                 *)
LEMMA FirstSpace ==
  ASSUME GetsInv, LineInv, TypedInv, Entered
  PROVE  /\ Spaces = {} => strchr(buf, Space) = -1
         /\ Spaces # {} =>
              /\ strchr(buf, Space) = Len(Word1)
              /\ Len(Word1) \in 0 .. Len(typed) - 1
              /\ Word1 = SubSeq(typed, 1, Len(Word1))
<1> DEFINE m  == Len(typed)
           at == {k \in 0 .. strlen(buf) : buf[k] = Space}
<1>1. /\ typed \in Seq(Kept) /\ m \in Nat /\ strlen(buf) = m
      /\ \A k \in 0 .. m - 1 : buf[k] = typed[k + 1]
      /\ buf[m] = NUL /\ NUL # Space
  BY BufTyped, ConsoleAssumption
<1>2. Spaces = {k \in 1 .. m : typed[k] = Space}
  BY DEF Spaces
<1>3. strchr(buf, Space) =
        IF at = {} THEN -1 ELSE CHOOSE k \in at : \A j \in at : k <= j
  BY DEF strchr
<1>4. at = {k \in 0 .. m : buf[k] = Space}
  BY <1>1
<1> HIDE DEF m, at
<1>5. ASSUME NEW k \in at PROVE k \in 0 .. m - 1 /\ k + 1 \in Spaces
  <2>1. k \in 0 .. m /\ buf[k] = Space /\ k # m
    BY <1>1, <1>4
  <2>2. k \in 0 .. m - 1 /\ k + 1 \in 1 .. m
    BY <1>1, <2>1
  <2> QED BY <1>1, <1>2, <2>1, <2>2
<1>6. ASSUME NEW k \in Spaces PROVE k \in 1 .. m /\ k - 1 \in at
  <2>1. k \in 1 .. m /\ typed[k] = Space /\ k - 1 \in 0 .. m - 1 /\ k - 1 \in 0 .. m
        /\ (k - 1) + 1 = k
    BY <1>1, <1>2
  <2>2. buf[k - 1] = Space
    BY <1>1, <2>1
  <2> QED BY <1>4, <2>1, <2>2
<1>7. Spaces = {} => strchr(buf, Space) = -1
  BY <1>3, <1>5
<1>8. ASSUME Spaces # {}
      PROVE  /\ strchr(buf, Space) = Len(Word1)
             /\ Len(Word1) \in 0 .. m - 1
             /\ Word1 = SubSeq(typed, 1, Len(Word1))
  <2>1. Spaces \in SUBSET Nat
    BY <1>1, <1>2
  <2>2. PICK x \in Spaces : \A j \in Spaces : x <= j
    BY <1>8, <2>1, LeastNatural
  <2>3. ASSUME NEW k \in Spaces, \A j \in Spaces : k <= j PROVE k = x
    <3>1. k <= x /\ x <= k /\ k \in Nat /\ x \in Nat
      BY <2>1, <2>2, <2>3
    <3> QED BY <3>1
  <2>4. (CHOOSE k \in Spaces : \A j \in Spaces : k <= j) = x
    BY <2>2, <2>3
  <2>5. x \in 1 .. m /\ x - 1 \in at
    BY <1>6
  <2>6. Word1 = SubSeq(typed, 1, x - 1)
    BY <1>8, <2>4 DEF Word1
  <2>7. Len(Word1) = x - 1
    BY <1>1, <2>5, <2>6 DEF m
  <2>8. \A j \in at : x - 1 <= j
    <3> TAKE j \in at
    <3>1. j \in 0 .. m - 1 /\ j + 1 \in Spaces
      BY <1>5
    <3>2. x <= j + 1
      BY <2>2, <3>1
    <3> QED BY <1>1, <2>5, <3>1, <3>2
  <2>9. ASSUME NEW k \in at, \A j \in at : k <= j PROVE k = x - 1
    <3>1. k <= x - 1 /\ x - 1 <= k /\ k \in Int /\ x \in Int
      BY <1>1, <1>5, <2>5, <2>8, <2>9
    <3> QED BY <3>1
  <2>10. (CHOOSE k \in at : \A j \in at : k <= j) = x - 1
    BY <2>5, <2>8, <2>9
  <2>11. strchr(buf, Space) = x - 1
    BY <1>3, <2>5, <2>10
  <2>12. x - 1 \in 0 .. m - 1
    BY <1>1, <2>5
  <2> QED BY <2>6, <2>7, <2>11, <2>12
<1> QED BY <1>7, <1>8 DEF m

-----------------------------------------------------------------------------
(* kernel[] always ends with a terminator, whatever was copied into it.    *)
KernelInv == DOMAIN kernel = 0 .. KernelLen /\ kernel[KernelLen] = NUL

(* A name copied alone: padded with terminators to the end of kernel[].    *)
LEMMA BareCopied ==
  ASSUME GetsInv, LineInv, TypedInv, KernelInv, ParseBare
  PROVE  /\ KernelInv'
         /\ Str(kernel') = SubSeq(typed, 1, IF Len(typed) < KernelLen THEN Len(typed)
                                                                      ELSE KernelLen)
<1> DEFINE m == IF Len(typed) < KernelLen THEN Len(typed) ELSE KernelLen
<1>1. Entered /\ kernel' = strncpy(kernel, buf, KernelLen)
  BY DEF ParseBare, Entered
<1>2. /\ typed \in Seq(Kept) /\ strlen(buf) = Len(typed) /\ Len(typed) \in Nat
      /\ \A k \in 0 .. Len(typed) - 1 : buf[k] = typed[k + 1]
  BY <1>1, BufTyped
<1>3. KernelLen \in Nat /\ NUL \notin Kept
  BY BootAssumption, ConsoleAssumption DEF Kept
<1>4. kernel' = [k \in 0 .. KernelLen |->
                   IF k >= KernelLen THEN kernel[k]
                   ELSE IF k < Len(typed) THEN buf[k] ELSE NUL]
  BY <1>1, <1>2 DEF KernelInv, strncpy
<1>5. DOMAIN kernel' = 0 .. KernelLen /\ kernel'[KernelLen] = NUL
  BY <1>3, <1>4 DEF KernelInv
<1>6. m \in 0 .. KernelLen /\ m \in Nat /\ m <= Len(typed) /\ m <= KernelLen
  BY <1>2, <1>3
<1>7. kernel'[m] = NUL
  <2>1. CASE m = KernelLen
    BY <1>5, <2>1
  <2>2. CASE m # KernelLen
    <3>1. m = Len(typed) /\ m < KernelLen /\ m \in 0 .. KernelLen
      BY <1>2, <1>3, <2>2
    <3> HIDE DEF m
    <3> QED BY <1>3, <1>4, <3>1
  <2> QED BY <2>1, <2>2
<1> HIDE DEF m
<1>8. ASSUME NEW k \in 0 .. m - 1
      PROVE  kernel'[k] = typed[k + 1] /\ kernel'[k] # NUL
  <2>1. k \in 0 .. KernelLen /\ ~(k >= KernelLen) /\ k < Len(typed)
        /\ k \in 0 .. Len(typed) - 1 /\ k + 1 \in 1 .. Len(typed)
    BY <1>2, <1>3, <1>6
  <2>2. kernel'[k] = buf[k]
    BY <1>4, <2>1
  <2>3. typed[k + 1] \in Kept
    BY <1>2, <2>1
  <2> QED BY <1>2, <1>3, <2>1, <2>2, <2>3
<1>9. strlen(kernel') = m
  BY <1>3, <1>5, <1>6, <1>7, <1>8, StrlenAt
<1>10. Str(kernel') = [k \in 1 .. m |-> kernel'[k - 1]]
  BY <1>9 DEF Str
<1>11. ASSUME NEW k \in 1 .. m PROVE kernel'[k - 1] = typed[k]
  <2>1. k - 1 \in 0 .. m - 1 /\ (k - 1) + 1 = k
    BY <1>6
  <2> QED BY <1>8, <2>1
<1>12. Str(kernel') = [k \in 1 .. m |-> typed[k]]
  BY <1>10, <1>11
<1>13. SubSeq(typed, 1, m) = [k \in 1 .. m |-> typed[k]]
  BY <1>2, <1>6
<1> QED BY <1>5, <1>12, <1>13 DEF KernelInv, m

(* A name copied in front of arguments: its characters, a cell left over,  *)
(* and the late terminator.                                                *)
LEMMA SplitCopied ==
  ASSUME GetsInv, LineInv, TypedInv, KernelInv, ParseWithArgs
  PROVE  /\ Spaces # {}
         /\ KernelInv'
         /\ pc' = "open" =>
              /\ Len(Str(kernel')) \in {Len(Word1), Len(Word1) + 1}
              /\ SubSeq(Str(kernel'), 1, Len(Word1)) = Word1
<1> DEFINE len == strchr(buf, Space)
<1>1. /\ Entered /\ len # -1
      /\ IF len + 1 > KernelLen
         THEN kernel' = kernel /\ pc' = "corrupt"
         ELSE kernel' = NameSplit(kernel, buf, len) /\ pc' = "open"
  BY DEF ParseWithArgs, Entered
<1>2. /\ typed \in Seq(Kept) /\ strlen(buf) = Len(typed) /\ Len(typed) \in Nat
      /\ \A k \in 0 .. Len(typed) - 1 : buf[k] = typed[k + 1]
  BY <1>1, BufTyped
<1>3. KernelLen \in Nat /\ NUL \notin Kept
  BY BootAssumption, ConsoleAssumption DEF Kept
<1>4. /\ Spaces # {} /\ len = Len(Word1) /\ len \in 0 .. Len(typed) - 1
      /\ Word1 = SubSeq(typed, 1, len)
  BY <1>1, FirstSpace
<1> HIDE DEF len
<1>5. CASE len + 1 > KernelLen
  BY <1>1, <1>4, <1>5 DEF KernelInv
<1>6. CASE ~(len + 1 > KernelLen)
  <2>1. kernel' = NameSplit(kernel, buf, len)
    BY <1>1, <1>6
  <2> DEFINE copy == strncpy(kernel, buf, len)
  <2>2. copy = [k \in 0 .. KernelLen |->
                  IF k >= len THEN kernel[k]
                  ELSE IF k < Len(typed) THEN buf[k] ELSE NUL]
    BY <1>2 DEF KernelInv, strncpy
  <2>3. kernel' = [copy EXCEPT ![len + 1] = NUL]
    BY <2>1 DEF NameSplit
  <2>4. len \in Nat /\ len + 1 \in 0 .. KernelLen /\ len \in 0 .. KernelLen
        /\ len < Len(typed)
    BY <1>2, <1>3, <1>4, <1>6
  <2>5. DOMAIN copy = 0 .. KernelLen
    BY <2>2
  <2> HIDE DEF copy
  <2>6. /\ DOMAIN kernel' = 0 .. KernelLen /\ kernel'[len + 1] = NUL
        /\ \A k \in 0 .. KernelLen : k # len + 1 => kernel'[k] = copy[k]
    BY <2>3, <2>4, <2>5
  <2>7. kernel'[KernelLen] = NUL
    <3>1. CASE KernelLen = len + 1
      BY <2>6, <3>1
    <3>2. CASE KernelLen # len + 1
      <4>1. KernelLen \in 0 .. KernelLen /\ KernelLen >= len
        BY <1>3, <2>4
      <4>2. copy[KernelLen] = kernel[KernelLen]
        BY <2>2, <4>1
      <4> QED BY <2>6, <3>2, <4>1, <4>2 DEF KernelInv
    <3> QED BY <3>1, <3>2
  <2>8. ASSUME NEW k \in 0 .. len - 1
        PROVE  kernel'[k] = typed[k + 1] /\ kernel'[k] # NUL
    <3>1. k \in 0 .. KernelLen /\ k # len + 1 /\ ~(k >= len) /\ k < Len(typed)
          /\ k \in 0 .. Len(typed) - 1 /\ k + 1 \in 1 .. Len(typed)
      BY <1>2, <1>3, <2>4
    <3>2. kernel'[k] = buf[k]
      BY <2>2, <2>6, <3>1
    <3>3. typed[k + 1] \in Kept
      BY <1>2, <3>1
    <3> QED BY <1>2, <1>3, <3>1, <3>2, <3>3
  <2>9. ASSUME NEW m \in {len, len + 1}, strlen(kernel') = m
        PROVE  /\ Len(Str(kernel')) \in {len, len + 1}
               /\ SubSeq(Str(kernel'), 1, len) = Word1
    <3>1. m \in Nat /\ len <= m
      BY <2>4
    <3>2. Str(kernel') = [k \in 1 .. m |-> kernel'[k - 1]]
      BY <2>9 DEF Str
    <3>3. Len(Str(kernel')) = m
      BY <3>1, <3>2
    <3>4. SubSeq(Str(kernel'), 1, len) = [k \in 1 .. len |-> kernel'[k - 1]]
      BY <2>4, <3>1, <3>2
    <3>5. ASSUME NEW k \in 1 .. len PROVE kernel'[k - 1] = typed[k]
      <4>1. k - 1 \in 0 .. len - 1 /\ (k - 1) + 1 = k
        BY <2>4
      <4> QED BY <2>8, <4>1
    <3>6. SubSeq(typed, 1, len) = [k \in 1 .. len |-> typed[k]]
      BY <1>2, <2>4
    <3> QED BY <1>4, <3>3, <3>4, <3>5, <3>6
  <2>10. strlen(kernel') \in {len, len + 1}
    <3>1. CASE kernel'[len] = NUL
      <4>1. strlen(kernel') = len
        BY <1>3, <2>4, <2>6, <2>8, <3>1, StrlenAt
      <4> QED BY <4>1
    <3>2. CASE kernel'[len] # NUL
      <4>1. \A k \in 0 .. (len + 1) - 1 : kernel'[k] # NUL
        <5> TAKE k \in 0 .. (len + 1) - 1
        <5>1. k = len \/ k \in 0 .. len - 1
          BY <2>4
        <5> QED BY <2>8, <3>2, <5>1
      <4>2. strlen(kernel') = len + 1
        BY <1>3, <2>4, <2>6, <4>1, StrlenAt
      <4> QED BY <4>2
    <3> QED BY <3>1, <3>2
  <2> QED BY <1>4, <2>6, <2>7, <2>9, <2>10 DEF KernelInv
<1> QED BY <1>5, <1>6

-----------------------------------------------------------------------------
(* The name that is opened, and kernel[] along the way.                    *)
NameInv == KernelInv /\ BareNameExact /\ NameAtMostOneStray

LEMMA NameInit == Init => NameInv
<1> SUFFICES ASSUME Init PROVE NameInv
  OBVIOUS
<1>1. KernelLen \in Nat
  BY BootAssumption
<1>2. KernelInv
  BY <1>1 DEF Init, KernelInv
<1>3. ~Parsed
  BY DEF Init, Parsed
<1> QED BY <1>2, <1>3 DEF NameInv, BareNameExact, NameAtMostOneStray

LEMMA NameStep ==
  ASSUME GetsInv, LineInv, TypedInv, NameInv, [Next]_vars
  PROVE  NameInv'
<1> USE DEF NameInv
<1>1. CASE ParseBare
  <2>1. Entered /\ strchr(buf, Space) = -1 /\ typed' = typed
    BY <1>1 DEF ParseBare, Entered
  <2>2. Spaces = {}
    <3>1. ASSUME Spaces # {} PROVE FALSE
      <4>1. Len(Word1) = -1 /\ Len(Word1) \in 0 .. Len(typed) - 1
        BY <2>1, <3>1, FirstSpace
      <4> QED BY <4>1
    <3> QED BY <3>1
  <2>3. Spaces' = {}
    BY <2>1, <2>2 DEF Spaces
  <2>4. KernelInv' /\ Str(kernel') = SubSeq(typed, 1, IF Len(typed) < KernelLen
                                                      THEN Len(typed) ELSE KernelLen)
    BY <1>1, BareCopied
  <2> QED BY <2>1, <2>3, <2>4 DEF BareNameExact, NameAtMostOneStray
<1>2. CASE ParseWithArgs
  <2>1. /\ Spaces # {} /\ KernelInv'
        /\ pc' = "open" =>
              /\ Len(Str(kernel')) \in {Len(Word1), Len(Word1) + 1}
              /\ SubSeq(Str(kernel'), 1, Len(Word1)) = Word1
    BY <1>2, SplitCopied
  <2>2. typed' = typed /\ pc' \in {"open", "corrupt"}
    BY <1>2 DEF ParseWithArgs
  <2>3. Spaces' = Spaces /\ Word1' = Word1
    BY <2>2 DEF Spaces, Word1
  <2>4. Parsed' => pc' = "open"
    BY <2>2 DEF Parsed
  <2> QED BY <2>1, <2>3, <2>4 DEF BareNameExact, NameAtMostOneStray
<1>3. CASE OpenFile \/ LoaderStartsKernel \/ UNCHANGED vars
  <2>1. typed' = typed /\ kernel' = kernel /\ (Parsed' => Parsed)
    BY <1>3 DEF OpenFile, LoaderStartsKernel, vars, bootVars, Parsed
  <2>2. Spaces' = Spaces /\ Word1' = Word1
    BY <2>1 DEF Spaces, Word1
  <2> QED BY <2>1, <2>2 DEF KernelInv, BareNameExact, NameAtMostOneStray
<1>4. CASE \/ NoFlash \/ FlashFound \/ TypeChar \/ TypeErase \/ TypeEnter
           \/ OpenMissing \/ LoaderReturns
  <2>1. kernel' = kernel /\ pc' \notin {"open", "lzma", "elf32", "elf64", "kernel"}
    BY <1>4 DEF NoFlash, FlashFound, TypeChar, TypeErase, TypeEnter, OpenMissing,
                LoaderReturns, LineHandedOver
  <2>2. ~Parsed'
    BY <2>1 DEF Parsed
  <2> QED BY <2>1, <2>2 DEF KernelInv, BareNameExact, NameAtMostOneStray
<1> QED BY <1>1, <1>2, <1>3, <1>4 DEF Next

LEMMA PromptInv == ASSUME Careful PROVE Spec => [](GetsInv /\ LineInv /\ TypedInv)
<1>1. GetsInv /\ LineInv /\ LineInv' /\ TypedInv /\ [Next]_vars => TypedInv'
  BY TypedStep
<1> QED BY <1>1, BootGetsInv, TypedInit, PTL DEF Spec

LEMMA NameKept == ASSUME Careful PROVE Spec => []NameInv
<1>1. GetsInv /\ LineInv /\ TypedInv /\ NameInv /\ [Next]_vars => NameInv'
  BY NameStep
<1> QED BY <1>1, PromptInv, NameInit, PTL DEF Spec

(* A name entered alone is the name that is opened, cut to the length of   *)
(* kernel[], whatever start_bootloader left in kernel[] and c_gets in buf  *)
(* at earlier prompts.                                                     *)
THEOREM BareNameOpened == ASSUME Careful PROVE Spec => []BareNameExact
<1>1. NameInv => BareNameExact
  BY DEF NameInv
<1> QED BY <1>1, NameKept, PTL

(* A name entered with arguments is opened with at most the one character  *)
(* behind it that start_bootloader's late terminator leaves standing.      *)
THEOREM SplitNameOpened == ASSUME Careful PROVE Spec => []NameAtMostOneStray
<1>1. NameInv => NameAtMostOneStray
  BY DEF NameInv
<1> QED BY <1>1, NameKept, PTL

-----------------------------------------------------------------------------
(* The count of matched characters in strstr's loop: when it is q after    *)
(* the k-th character, the last q characters are the needle's first q.     *)
Counts(np, h, needle) ==
  /\ np \in [0 .. Len(h) -> Nat] /\ np[0] = 0
  /\ \A k \in 1 .. Len(h) :
       np[k] = IF needle[np[k - 1] + 1] = h[k] THEN np[k - 1] + 1 ELSE 0

LEMMA StrstrMatches ==
  ASSUME NEW S, NEW h \in Seq(S), NEW needle, NEW np, Counts(np, h, needle)
  PROVE  \A k \in 0 .. Len(h) :
           np[k] <= k /\ \A j \in 1 .. np[k] : h[(k - np[k]) + j] = needle[j]
<1> USE DEF Counts
<1> DEFINE P(k) == np[k] <= k /\ \A j \in 1 .. np[k] : h[(k - np[k]) + j] = needle[j]
           T == {k \in Nat : k <= Len(h) => P(k)}
<1>1. Len(h) \in Nat
  OBVIOUS
<1>2. 0 \in T
  BY <1>1
<1>3. ASSUME NEW k \in Nat, k \in T PROVE k + 1 \in T
  <2> SUFFICES ASSUME k + 1 <= Len(h) PROVE P(k + 1)
    OBVIOUS
  <2>1. k + 1 \in 1 .. Len(h) /\ k \in 0 .. Len(h) /\ (k + 1) - 1 = k /\ k <= Len(h)
    BY <1>1
  <2>2. np[k] \in Nat /\ np[k + 1] = IF needle[np[k] + 1] = h[k + 1] THEN np[k] + 1 ELSE 0
    BY <2>1
  <2>3. np[k] <= k /\ \A j \in 1 .. np[k] : h[(k - np[k]) + j] = needle[j]
    BY <1>3, <2>1
  <2>4. CASE needle[np[k] + 1] = h[k + 1]
    <3>1. np[k + 1] = np[k] + 1
      BY <2>2, <2>4
    <3>2. ASSUME NEW j \in 1 .. np[k] + 1
          PROVE  h[((k + 1) - (np[k] + 1)) + j] = needle[j]
      <4>1. ((k + 1) - (np[k] + 1)) + j = (k - np[k]) + j
        <5>1. \A r \in Nat : ((k + 1) - (r + 1)) + j = (k - r) + j
          BY <2>2
        <5> QED BY <2>2, <5>1
      <4>2. CASE j = np[k] + 1
        <5>1. (k - np[k]) + j = k + 1
          BY <2>2, <4>2
        <5> QED BY <2>4, <4>1, <4>2, <5>1
      <4>3. CASE j # np[k] + 1
        <5>1. j \in 1 .. np[k]
          BY <2>2, <4>3
        <5> QED BY <2>3, <4>1, <5>1
      <4> QED BY <4>2, <4>3
    <3> QED BY <2>2, <2>3, <3>1, <3>2
  <2>5. CASE needle[np[k] + 1] # h[k + 1]
    BY <2>2, <2>5
  <2> QED BY <2>4, <2>5
<1>4. Nat \subseteq T
  <2> HIDE DEF T
  <2> QED BY <1>2, <1>3, SetInduction
<1> QED BY <1>1, <1>4

(* What strstr reports holds all but the needle's last character.          *)
LEMMA StrstrPrefix ==
  ASSUME NEW S, NEW h \in Seq(S), NEW needle \in Seq(S), Len(needle) > 0,
         strstr(h, needle)
  PROVE  Contains(h, SubSeq(needle, 1, Len(needle) - 1))
<1> DEFINE Body(f) == [k \in 0 .. Len(h) |->
                         IF k = 0 THEN 0
                         ELSE IF needle[f[k - 1] + 1] = h[k] THEN f[k - 1] + 1 ELSE 0]
           np == CHOOSE f : f = Body(f)
           step == [p \in Nat \X Nat |-> IF needle[p[2] + 1] = h[p[1]] THEN p[2] + 1 ELSE 0]
           q == Len(needle) - 1
<1>1. \E k \in 1 .. Len(h) : np[k] = q
  BY Zenon DEF strstr
<1>2. Len(h) \in Nat /\ 0 \in Nat /\ step \in [Nat \X Nat -> Nat] /\ q \in Nat
  OBVIOUS
<1>3. \E g \in [0 .. Len(h) -> Nat] : Recursive(g, Len(h), 0, step)
  <2> HIDE DEF step
  <2> QED BY <1>2, RecursiveFunction
<1>4. PICK g \in [0 .. Len(h) -> Nat] : Recursive(g, Len(h), 0, step)
  BY <1>3
<1>5. g[0] = 0
  BY <1>4 DEF Recursive
<1>6. ASSUME NEW k \in 1 .. Len(h)
      PROVE  g[k] = IF needle[g[k - 1] + 1] = h[k] THEN g[k - 1] + 1 ELSE 0
  <2>1. k \in Nat /\ k - 1 \in 0 .. Len(h)
    BY <1>2
  <2>2. g[k - 1] \in Nat /\ g[k] = step[<<k, g[k - 1]>>]
    BY <1>4, <2>1 DEF Recursive
  <2> QED BY <2>1, <2>2
<1>7. g = Body(g)
  <2>1. ASSUME NEW k \in 0 .. Len(h) PROVE g[k] = Body(g)[k]
    <3>1. CASE k = 0
      BY <1>5, <3>1
    <3>2. CASE k # 0
      <4>1. k \in 1 .. Len(h)
        BY <1>2, <3>2
      <4> QED BY <1>6, <3>2, <4>1
    <3> QED BY <3>1, <3>2
  <2> QED BY <2>1
<1>8. np = Body(np)
  <2> HIDE DEF Body
  <2> QED BY <1>7
<1> HIDE DEF np
<1>9. ASSUME NEW f, f = Body(f)
      PROVE  f[0] = 0 /\ \A k \in 1 .. Len(h) :
               f[k] = IF needle[f[k - 1] + 1] = h[k] THEN f[k - 1] + 1 ELSE 0
  <2>1. \A k \in 1 .. Len(h) : k \in 0 .. Len(h) /\ k # 0
    BY <1>2
  <2>2. 0 \in 0 .. Len(h)
    BY <1>2
  <2> QED BY <1>9, <2>1, <2>2
<1>10. np[0] = 0 /\ \A k \in 1 .. Len(h) :
               np[k] = IF needle[np[k - 1] + 1] = h[k] THEN np[k - 1] + 1 ELSE 0
  <2> HIDE DEF Body
  <2> QED BY <1>8, <1>9
<1>11. np = g
  <2> DEFINE T == {k \in Nat : k <= Len(h) => np[k] = g[k]}
  <2>1. 0 \in T
    BY <1>5, <1>10
  <2>2. ASSUME NEW k \in Nat, k \in T PROVE k + 1 \in T
    <3> SUFFICES ASSUME k + 1 <= Len(h) PROVE np[k + 1] = g[k + 1]
      OBVIOUS
    <3>1. k + 1 \in 1 .. Len(h) /\ (k + 1) - 1 = k /\ k <= Len(h)
      BY <1>2
    <3>2. np[k] = g[k]
      BY <2>2, <3>1
    <3> QED BY <1>6, <1>10, <3>1, <3>2
  <2>3. Nat \subseteq T
    <3> HIDE DEF T
    <3> QED BY <2>1, <2>2, SetInduction
  <2>4. \A k \in 0 .. Len(h) : np[k] = g[k]
    BY <1>2, <2>3
  <2>5. np = [k \in 0 .. Len(h) |-> np[k]]
    BY <1>8
  <2> QED BY <2>4, <2>5
<1>12. PICK k \in 1 .. Len(h) : g[k] = q
  BY <1>1, <1>11
<1>13. \A j \in 0 .. Len(h) :
         g[j] <= j /\ \A c \in 1 .. g[j] : h[(j - g[j]) + c] = needle[c]
  <2>1. Counts(g, h, needle)
    BY <1>5, <1>6 DEF Counts
  <2> QED BY <2>1, StrstrMatches
<1>14. k \in 0 .. Len(h) /\ k \in Nat
  BY <1>2
<1>15. q <= k /\ \A j \in 1 .. q : h[(k - q) + j] = needle[j]
  BY <1>12, <1>13, <1>14
<1> DEFINE almost == SubSeq(needle, 1, q)
<1>16. almost = [j \in 1 .. q |-> needle[j]] /\ Len(almost) = q
  BY <1>2
<1>17. k - q \in 0 .. Len(h) - q
  BY <1>2, <1>14, <1>15
<1> HIDE DEF q
<1>18. SubSeq(h, (k - q) + 1, (k - q) + q) = [j \in 1 .. q |-> h[(k - q) + j]]
  <2>1. (k - q) + q = k /\ (k - q) + 1 \in 1 .. Len(h) + 1 /\ (k - ((k - q) + 1)) + 1 = q
    BY <1>2, <1>14, <1>17
  <2>2. \A j \in 1 .. q : ((k - q) + 1 + j) - 1 = (k - q) + j
    BY <1>2, <1>14
  <2> QED BY <1>2, <1>14, <1>17, <2>1, <2>2
<1>19. SubSeq(h, (k - q) + 1, (k - q) + q) = almost
  BY <1>15, <1>16, <1>18
<1> HIDE DEF almost
<1>20. Contains(h, almost)
  BY <1>16, <1>17, <1>19 DEF Contains
<1> QED BY <1>20 DEF almost, q

-----------------------------------------------------------------------------
(* The command line made from the words behind the name.                   *)
LEMMA ArgumentsMade ==
  ASSUME GetsInv, LineInv, TypedInv, ParseWithArgs
  PROVE  /\ Spaces # {}
         /\ cmd_line' \in {Rest, Rest \o <<Space>> \o ConsoleArg}
         /\ cmd_line' = Rest
              => Contains(Rest, SubSeq(ConsoleWord, 1, Len(ConsoleWord) - 1))
<1> DEFINE len == strchr(buf, Space)
<1>1. /\ Entered /\ len # -1
      /\ cmd_line' = WithConsole(SubSeq(Str(buf), len + 2, strlen(buf)))
  BY DEF ParseWithArgs, Entered
<1>2. typed \in Seq(Kept) /\ strlen(buf) = Len(typed) /\ Str(buf) = typed
  BY <1>1, BufTyped
<1>3. Spaces # {} /\ len = Len(Word1) /\ len \in 0 .. Len(typed) - 1
  BY <1>1, FirstSpace
<1> HIDE DEF len
<1>4. cmd_line' = WithConsole(Rest)
  BY <1>1, <1>2, <1>3 DEF Rest
<1>5. Rest \in Seq(Kept)
  <2>1. len + 2 \in 1 .. Len(typed) + 1 /\ Len(typed) \in Nat
    BY <1>2, <1>3
  <2>2. SubSeq(typed, len + 2, Len(typed)) \in Seq(Kept)
    BY <1>2, <2>1
  <2> QED BY <1>3, <2>2 DEF Rest
<1>6. ConsoleWord \in Seq(Kept) /\ Len(ConsoleWord) > 0 /\ Space \in Kept
  BY BootAssumption, ConsoleAssumption DEF Kept
<1>7. CASE strstr(Rest, ConsoleWord)
  <2>1. Contains(Rest, SubSeq(ConsoleWord, 1, Len(ConsoleWord) - 1))
    BY <1>5, <1>6, <1>7, StrstrPrefix
  <2>2. cmd_line' = Rest
    BY <1>4, <1>7 DEF WithConsole
  <2> QED BY <1>3, <2>1, <2>2
<1>8. CASE ~strstr(Rest, ConsoleWord)
  <2>1. cmd_line' = Rest \o <<Space>> \o ConsoleArg
    BY <1>4, <1>8 DEF WithConsole
  <2>2. ASSUME NEW r \in Seq(Kept), NEW c, c \in Seq(Kept \cup {"="})
        PROVE  r \o <<Space>> \o c # r
    <3>1. Len(r \o <<Space>> \o c) = Len(r) + 1 + Len(c)
      BY <1>6, <2>2
    <3> QED BY <2>2, <3>1
  <2>3. ConsoleArg \in Seq(Kept \cup {"="})
    BY <1>6 DEF ConsoleArg
  <2>4. cmd_line' # Rest
    BY <1>5, <2>1, <2>2, <2>3
  <2> QED BY <1>3, <2>1, <2>4
<1> QED BY <1>7, <1>8

LEMMA ArgumentsStep ==
  ASSUME GetsInv, LineInv, TypedInv, ArgumentsKept, [Next]_vars
  PROVE  ArgumentsKept'
<1>1. CASE ParseBare
  <2>1. Entered /\ strchr(buf, Space) = -1 /\ typed' = typed /\ cmd_line' = ConsoleArg
    BY <1>1 DEF ParseBare, Entered
  <2>2. ASSUME Spaces # {} PROVE FALSE
    <3>1. Len(Word1) = -1 /\ Len(Word1) \in 0 .. Len(typed) - 1
      BY <2>1, <2>2, FirstSpace
    <3> QED BY <3>1
  <2>3. Spaces' = {}
    BY <2>1, <2>2 DEF Spaces
  <2> QED BY <2>1, <2>3 DEF ArgumentsKept
<1>2. CASE ParseWithArgs
  <2>1. /\ Spaces # {}
        /\ cmd_line' \in {Rest, Rest \o <<Space>> \o ConsoleArg}
        /\ cmd_line' = Rest
             => Contains(Rest, SubSeq(ConsoleWord, 1, Len(ConsoleWord) - 1))
    BY <1>2, ArgumentsMade
  <2>2. typed' = typed
    BY <1>2 DEF ParseWithArgs
  <2>3. Spaces' = Spaces /\ Rest' = Rest
    BY <2>2 DEF Spaces, Word1, Rest
  <2> QED BY <2>1, <2>3, Zenon DEF ArgumentsKept
<1>3. CASE OpenFile \/ LoaderStartsKernel \/ UNCHANGED vars
  <2>1. typed' = typed /\ cmd_line' = cmd_line /\ (Parsed' => Parsed)
    BY <1>3 DEF OpenFile, LoaderStartsKernel, vars, bootVars, Parsed
  <2>2. Spaces' = Spaces /\ Rest' = Rest
    BY <2>1 DEF Spaces, Word1, Rest
  <2> QED BY <2>1, <2>2, Zenon DEF ArgumentsKept
<1>4. CASE \/ NoFlash \/ FlashFound \/ TypeChar \/ TypeErase \/ TypeEnter
           \/ OpenMissing \/ LoaderReturns
  <2>1. pc' \notin {"open", "lzma", "elf32", "elf64", "kernel"}
    BY <1>4 DEF NoFlash, FlashFound, TypeChar, TypeErase, TypeEnter, OpenMissing,
                LoaderReturns, LineHandedOver
  <2> QED BY <2>1 DEF ArgumentsKept, Parsed
<1> QED BY <1>1, <1>2, <1>3, <1>4 DEF Next

(* The kernel gets the arguments as they were typed, and a console setting *)
(* behind them unless strstr found all but the last letter of "console" in *)
(* them: main.c's strchr, strstr and sprintf on the command line.          *)
THEOREM ArgumentsPassedOn == ASSUME Careful PROVE Spec => []ArgumentsKept
<1>1. GetsInv /\ LineInv /\ TypedInv /\ ArgumentsKept /\ [Next]_vars => ArgumentsKept'
  BY ArgumentsStep
<1>2. Init => ArgumentsKept
  BY DEF Init, ArgumentsKept, Parsed
<1> QED BY <1>1, <1>2, PromptInv, PTL DEF Spec
=============================================================================
