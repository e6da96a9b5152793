---------------------------- MODULE PrintfProofs ----------------------------
(***************************************************************************)
(* vsprintf and number for every format, every list of arguments, every    *)
(* size of a word and of a pointer, and every content of the buffer.       *)
(***************************************************************************)
EXTENDS FormatParse, Induction

-----------------------------------------------------------------------------
(* The characters of a directive.                                          *)
LEMMA DigitChars ==
  ASSUME NEW c
  PROVE  isdigit(c) <=> c \in {"0", "1", "2", "3", "4", "5", "6", "7", "8", "9"}
<1>1. /\ Decimal[1] = "0" /\ Decimal[2] = "1" /\ Decimal[3] = "2" /\ Decimal[4] = "3"
      /\ Decimal[5] = "4" /\ Decimal[6] = "5" /\ Decimal[7] = "6" /\ Decimal[8] = "7"
      /\ Decimal[9] = "8" /\ Decimal[10] = "9"
  BY DEF Decimal
<1>2. \A k : k \in 1 .. 10 <=> k \in {1, 2, 3, 4, 5, 6, 7, 8, 9, 10}
  OBVIOUS
<1> QED BY <1>1, <1>2 DEF isdigit

LEMMA CharFacts ==
  /\ ~isdigit(NUL) /\ ~isdigit("*") /\ ~isdigit(".")
  /\ ~isdigit("h") /\ ~isdigit("l") /\ ~isdigit("L")
  /\ NUL \notin FlagChars /\ "*" \notin FlagChars /\ "." \notin FlagChars
  /\ "h" \notin FlagChars /\ "l" \notin FlagChars /\ "L" \notin FlagChars
  /\ NUL \notin {"*", ".", "%", "h", "l", "L"}
BY DigitChars DEF FlagChars, NUL

-----------------------------------------------------------------------------
(* The format is a C string: no character of it is the terminator, and the *)
(* next character is read inside of it or at its end.                      *)
FormatOK == fmt \in Seq(STRING \ {NUL}) /\ args \in Seq(Argument)

PointerInside == pos \in 1 .. Len(fmt) + 1

LEMMA AtInside ==
  ASSUME FormatOK, NEW p \in Nat, p >= 1
  PROVE  /\ Len(fmt) \in Nat
         /\ At(p) # NUL <=> p <= Len(fmt)
         /\ p <= Len(fmt) => At(p) = fmt[p] /\ At(p) \in STRING
         /\ p > Len(fmt) => At(p) = NUL
BY DEF FormatOK, At

(* skip_atoi stops at the first character that is no digit, the terminator *)
(* at the latest.                                                          *)
LEMMA DigitsEnd ==
  ASSUME FormatOK, NEW p \in Nat, p >= 1, p <= Len(fmt) + 1
  PROVE  /\ AfterDigits(p) \in p .. Len(fmt) + 1
         /\ ~isdigit(At(AfterDigits(p)))
         /\ \A k \in p .. AfterDigits(p) - 1 : isdigit(At(k))
         /\ \A e \in p .. Len(fmt) + 1 :
              ~isdigit(At(e)) /\ (\A k \in p .. e - 1 : isdigit(At(k))) => e = AfterDigits(p)
<1> DEFINE N == Len(fmt)
           Ends(e) == ~isdigit(At(e)) /\ \A k \in p .. e - 1 : isdigit(At(k))
           T == {e \in p .. N + 1 : ~isdigit(At(e))}
<1>1. N \in Nat /\ At(N + 1) = NUL
  BY AtInside
<1> HIDE DEF N
<1>2. N + 1 \in T
  BY <1>1, CharFacts DEF N
<1>3. T \in SUBSET Nat /\ T # {}
  BY <1>1, <1>2
<1>4. PICK e \in T : \A y \in T : e <= y
  BY <1>3, LeastNatural
<1>5. e \in p .. N + 1 /\ Ends(e)
  <2>1. e \in p .. N + 1 /\ ~isdigit(At(e)) /\ e \in Nat
    BY <1>1, <1>4
  <2>2. ASSUME NEW k \in p .. e - 1 PROVE isdigit(At(k))
    <3>1. k \in p .. N + 1 /\ ~(e <= k)
      BY <1>1, <2>1
    <3> QED BY <1>4, <3>1
  <2> QED BY <2>1, <2>2
<1>6. \A d1, d2 \in p .. N + 1 : Ends(d1) /\ Ends(d2) => d1 = d2
  <2> SUFFICES ASSUME NEW d1 \in p .. N + 1, NEW d2 \in p .. N + 1, Ends(d1), Ends(d2), d1 < d2
               PROVE  FALSE
    BY <1>1
  <2>1. d1 \in p .. d2 - 1
    BY <1>1
  <2> QED BY <2>1
<1>7. AfterDigits(p) = CHOOSE d \in p .. N + 1 : Ends(d)
  BY DEF AfterDigits, N
<1> HIDE DEF Ends
<1>8. AfterDigits(p) \in p .. N + 1 /\ Ends(AfterDigits(p))
  BY <1>5, <1>7
<1>9. \A d \in p .. N + 1 : Ends(d) => d = AfterDigits(p)
  BY <1>6, <1>8
<1> QED BY <1>8, <1>9 DEF Ends, N

LEMMA FormatInit == Init => FormatOK /\ PointerInside
<1> SUFFICES ASSUME Init PROVE FormatOK /\ PointerInside
  OBVIOUS
<1>1. PICK call \in Calls : fmt = call.fmt /\ args = call.args
  BY DEF Init
<1>2. call \in [fmt: Seq(STRING \ {NUL}), args: Seq(Argument)]
  BY PrintfAssumption
<1>3. FormatOK /\ Len(fmt) \in Nat
  BY <1>1, <1>2 DEF FormatOK
<1>4. pos = 1
  BY DEF Init
<1> QED BY <1>3, <1>4 DEF PointerInside

LEMMA FormatKept == [Next]_vars => UNCHANGED <<fmt, args>>
BY DEF Next, vars, Literal, Percent, Flag, Width, Precision, Qualifier, ConvertChar,
       ConvertString, ConvertPointer, ConvertCount, ConvertPercent, ConvertNumber,
       ConvertOther, Converted, Terminate, Puts

LEMMA PointerStep == FormatOK /\ PointerInside /\ [Next]_vars => FormatOK' /\ PointerInside'
<1> SUFFICES ASSUME FormatOK, PointerInside, [Next]_vars PROVE FormatOK' /\ PointerInside'
  OBVIOUS
<1>1. FormatOK' /\ fmt' = fmt
  BY FormatKept DEF FormatOK
<1>2. /\ Len(fmt) \in Nat /\ pos \in Nat /\ pos >= 1 /\ pos <= Len(fmt) + 1
      /\ At(pos) # NUL => pos <= Len(fmt)
      /\ At(pos + 1) # NUL => pos + 1 <= Len(fmt)
  <2>1. Len(fmt) \in Nat
    BY DEF FormatOK
  <2>2. pos \in Nat /\ pos >= 1 /\ pos <= Len(fmt) + 1 /\ pos + 1 \in Nat /\ pos + 1 >= 1
    BY <2>1 DEF PointerInside
  <2> QED BY <2>1, <2>2, AtInside
<1> SUFFICES pos' \in 1 .. Len(fmt) + 1
  BY <1>1 DEF PointerInside
<1>3. At(pos) # NUL => pos + 1 \in 1 .. Len(fmt) + 1
  BY <1>2
<1>4. CASE UNCHANGED vars \/ Terminate \/ Puts
  <2>1. pos' = pos
    BY <1>4 DEF vars, Terminate, Puts
  <2> QED BY <1>2, <2>1
<1>5. CASE Literal \/ Percent \/ Flag
  <2>1. pos' = pos + 1 /\ At(pos) # NUL
    BY <1>5, CharFacts DEF Literal, Percent, Flag
  <2> QED BY <1>3, <2>1
<1>6. CASE Width
  <2>1. \/ isdigit(At(pos)) /\ pos' = AfterDigits(pos)
        \/ At(pos) = "*" /\ pos' = pos + 1
        \/ pos' = pos
    BY <1>6 DEF Width
  <2> QED BY <1>2, <1>3, <2>1, DigitsEnd, CharFacts
<1>7. CASE Precision
  <2>1. \/ pos' = pos
        \/ At(pos) = "." /\ isdigit(At(pos + 1)) /\ pos' = AfterDigits(pos + 1)
        \/ At(pos + 1) = "*" /\ pos' = pos + 2
        \/ At(pos) = "." /\ pos' = pos + 1
    BY <1>7 DEF Precision
  <2>2. CASE At(pos) = "." /\ isdigit(At(pos + 1)) /\ pos' = AfterDigits(pos + 1)
    <3>1. pos + 1 \in Nat /\ pos + 1 >= 1 /\ pos + 1 <= Len(fmt) + 1
      BY <1>2, <2>2, CharFacts
    <3>2. AfterDigits(pos + 1) \in pos + 1 .. Len(fmt) + 1
      BY <3>1, DigitsEnd
    <3> QED BY <1>2, <2>2, <3>1, <3>2
  <2>3. CASE At(pos + 1) = "*" /\ pos' = pos + 2
    BY <1>2, <2>3, CharFacts
  <2> QED BY <1>2, <1>3, <2>1, <2>2, <2>3, CharFacts
<1>8. CASE Qualifier
  <2>1. pos' = IF At(pos) \in {"h", "l", "L"} THEN pos + 1 ELSE pos
    BY <1>8 DEF Qualifier
  <2> QED BY <1>2, <1>3, <2>1, CharFacts
<1>9. CASE ConvertChar \/ ConvertString \/ ConvertPointer \/ ConvertCount \/ ConvertPercent
           \/ ConvertNumber
  <2>1. pos' = pos + 1 /\ At(pos) # NUL
    BY <1>9 DEF ConvertChar, ConvertString, ConvertPointer, ConvertCount, ConvertPercent,
                ConvertNumber, Converted, NUL
  <2> QED BY <1>3, <2>1
<1>10. CASE ConvertOther
  <2>1. pos' = IF At(pos) = NUL THEN pos ELSE pos + 1
    BY <1>10 DEF ConvertOther, AfterOther
  <2> QED BY <1>2, <1>3, <2>1
<1> QED BY <1>4, <1>5, <1>6, <1>7, <1>8, <1>9, <1>10 DEF Next

(* For every format, well-formed or cut short anywhere, vsprintf reads     *)
(* nothing behind the terminator.                                          *)
THEOREM FormatNotLeft == Spec => [](FormatOK /\ PointerInside)
BY FormatInit, PointerStep, PTL DEF Spec
-----------------------------------------------------------------------------
(* Where vsprintf is in the directive d, and what it has read of it.       *)
InDirective(d) ==
  /\ d.at = 1 => out = << >>
  /\ pc = "flags" => d.at < pos /\ pos <= d.w /\ ap = d.need /\ (pos = d.at + 1 => flags = {})
  /\ pc \in {"precision", "qualifier", "convert"} =>
       (d.p = d.w => field_width = -1) /\ (d.p = d.at + 1 => flags = {})
  /\ pc \in {"qualifier", "convert"} => (d.q = d.p => precision = -1)
  /\ pc = "precision" => pos = d.p /\ ap = d.need + One(StarWidth(fmt, d))
  /\ pc = "qualifier" => pos = d.q /\ ap = d.need + Stars(fmt, d)
  /\ pc = "convert" => pos = d.c /\ ap = d.need + Stars(fmt, d)

InPiece(P) ==
  \/ /\ pc = "scan" /\ pos >= 1 /\ (pos = 1 => out = << >>)
     /\ \E j \in 1 .. Len(P) : pos = P[j].at /\ ap = P[j].need
  \/ /\ pc \in {"flags", "precision", "qualifier", "convert"}
     /\ \E j \in 1 .. Len(P) - 1 : IsDirective(fmt, args, P[j], P[j + 1]) /\ InDirective(P[j])
  \/ pc \in {"puts", "done"} /\ ap = Len(args)

ParseInv == \E P : IsParse(fmt, args, P) /\ InPiece(P)

LEMMA CharAt ==
  ASSUME NEW k
  PROVE  CharOf(fmt, k) = At(k)
BY DEF CharOf, At

LEMMA PieceFields ==
  ASSUME NEW d \in Piece
  PROVE  /\ d.at \in Nat /\ d.w \in Nat /\ d.p \in Nat /\ d.q \in Nat /\ d.c \in Nat
         /\ d.need \in Nat
BY DEF Piece

(* The character that begins a part tells which part it is.                *)
LEMMA PartStarts ==
  ASSUME NEW d \in Piece, InOrder(fmt, d), WidthPart(fmt, d), PrecisionPart(fmt, d),
         QualifierPart(fmt, d), Converts(CharOf(fmt, d.c))
  PROVE  /\ Converts(At(d.c))
         /\ At(d.q) \notin FlagChars /\ ~isdigit(At(d.q)) /\ At(d.q) \notin {"*", "."}
         /\ d.c = IF At(d.q) \in {"h", "l", "L"} THEN d.q + 1 ELSE d.q
         /\ At(d.p) \notin FlagChars /\ ~isdigit(At(d.p)) /\ At(d.p) # "*"
         /\ At(d.p) = "." <=> d.p < d.q
         /\ At(d.w) \notin FlagChars
<1>1. Converts(At(d.c))
  BY CharAt
<1>2. \/ d.c = d.q
      \/ d.c = d.q + 1 /\ At(d.q) \in {"h", "l", "L"}
  BY CharAt DEF QualifierPart
<1>3. /\ At(d.q) \notin FlagChars /\ ~isdigit(At(d.q)) /\ At(d.q) \notin {"*", "."}
      /\ d.c = IF At(d.q) \in {"h", "l", "L"} THEN d.q + 1 ELSE d.q
  <2>1. CASE d.c = d.q
    BY <1>1, <2>1 DEF Converts
  <2>2. CASE d.c = d.q + 1 /\ At(d.q) \in {"h", "l", "L"}
    BY <2>2, CharFacts
  <2> QED BY <1>2, <2>1, <2>2
<1>4. d.p \in Nat /\ d.q \in Nat
  BY PieceFields
<1>5. d.p = d.q \/ (d.p < d.q /\ At(d.p) = ".")
  BY <1>4, CharAt DEF PrecisionPart, StarPrecision
<1>6. /\ At(d.p) \notin FlagChars /\ ~isdigit(At(d.p)) /\ At(d.p) # "*"
      /\ At(d.p) = "." <=> d.p < d.q
  BY <1>3, <1>4, <1>5, CharFacts
<1>7. At(d.w) \notin FlagChars
  <2>1. d.w = d.p \/ At(d.w) = "*" \/ (At(d.w) # "0" /\ isdigit(At(d.w)))
    <3>1. d.w \in Nat
      BY PieceFields
    <3>2. d.w < d.p => d.w \in d.w .. d.p - 1
      BY <1>4, <3>1
    <3> QED BY <3>2, CharAt DEF WidthPart, StarWidth, AllDigits
  <2>2. At(d.w) # "0" /\ isdigit(At(d.w)) => At(d.w) \notin FlagChars
    BY DigitChars DEF FlagChars
  <2> QED BY <1>6, <2>1, <2>2, CharFacts
<1> QED BY <1>1, <1>3, <1>6, <1>7

(* The flags are read one by one, and nothing else is.                     *)
LEMMA FlagRead ==
  ASSUME pos \in Nat, NEW d \in Piece, NEW e \in Piece, IsDirective(fmt, args, d, e),
         InDirective(d), Flag
  PROVE  InDirective(d)' /\ pc' = "flags"
<1>1. /\ pc = "flags" /\ pc' = "flags" /\ At(pos) \in FlagChars /\ pos' = pos + 1
      /\ UNCHANGED <<fmt, ap, out>>
  BY DEF Flag
<1>2. /\ d.at \in Nat /\ d.w \in Nat /\ d.at < pos /\ pos <= d.w /\ ap = d.need /\ pos \in Nat
  BY <1>1, PieceFields DEF InDirective
<1>3. pos # d.w
  BY <1>1, PartStarts DEF IsDirective
<1>4. d.at < pos' /\ pos' <= d.w /\ pos' # d.at + 1
  BY <1>1, <1>2, <1>3
<1>5. d.at = 1 => out' = << >>
  BY <1>1 DEF InDirective
<1> QED BY <1>1, <1>2, <1>4, <1>5 DEF InDirective
(* The width is read up to the precision, and its argument taken.          *)
LEMMA WidthRead ==
  ASSUME FormatOK, pos \in Nat, NEW d \in Piece, NEW e \in Piece,
         IsDirective(fmt, args, d, e), InDirective(d), Width
  PROVE  InDirective(d)' /\ pc' = "precision"
<1>1. /\ pc = "flags" /\ pc' = "precision" /\ At(pos) \notin FlagChars
      /\ UNCHANGED <<fmt, out>>
  BY DEF Width
<1>2. /\ d.at \in Nat /\ d.w \in Nat /\ d.p \in Nat /\ d.at < pos /\ pos <= d.w /\ ap = d.need
      /\ pos = d.at + 1 => flags = {}
  BY <1>1, PieceFields DEF InDirective
<1>3. InOrder(fmt, d) /\ WidthPart(fmt, d) /\ PrecisionPart(fmt, d) /\ QualifierPart(fmt, d)
      /\ Converts(CharOf(fmt, d.c))
  BY DEF IsDirective
<1>4. d.w <= d.p /\ d.p <= Len(fmt) + 1 /\ 1 <= d.w
      /\ \A k \in d.at + 1 .. d.w - 1 : At(k) \in FlagChars
  <2>1. /\ d.q \in Nat /\ d.c \in Nat /\ Len(fmt) \in Nat
    BY PieceFields DEF FormatOK
  <2>2. /\ 1 <= d.at /\ d.at < d.w /\ d.w <= d.p /\ d.p <= d.q /\ d.q <= d.c /\ d.c <= Len(fmt) + 1
        /\ \A k \in d.at + 1 .. d.w - 1 : At(k) \in FlagChars
    BY <1>3, CharAt DEF InOrder
  <2> QED BY <1>2, <2>1, <2>2
<1>5. pos = d.w
  <2>1. pos \notin d.at + 1 .. d.w - 1
    BY <1>1, <1>4
  <2> QED BY <1>2, <2>1
<1>6. ~isdigit(At(d.p)) /\ At(d.p) # "*"
  BY <1>3, PartStarts
<1>7. /\ pos' = d.p /\ ap' = d.need + One(StarWidth(fmt, d))
      /\ d.p = d.w => field_width' = -1 /\ flags' = flags
  <2>1. CASE d.p = d.w
    <3>1. ~StarWidth(fmt, d)
      BY <1>2, <2>1 DEF StarWidth
    <3>2. ~isdigit(At(pos)) /\ At(pos) # "*"
      BY <1>5, <1>6, <2>1
    <3>3. field_width' = -1 /\ UNCHANGED <<ap, flags, pos>>
      BY <3>2 DEF Width
    <3> QED BY <1>2, <1>5, <2>1, <3>1, <3>3, PieceFields DEF One
  <2>2. CASE StarWidth(fmt, d)
    <3>1. At(pos) = "*" /\ d.p = d.w + 1
      BY <1>5, <2>2, CharAt DEF StarWidth
    <3>2. ap' = ap + 1 /\ pos' = pos + 1
      BY <3>1, CharFacts DEF Width
    <3> QED BY <1>2, <1>5, <2>2, <3>1, <3>2 DEF One
  <2>3. CASE d.w < d.p /\ CharOf(fmt, d.w) # "0" /\ AllDigits(fmt, d.w, d.p)
    <3>1. \A k \in d.w .. d.p - 1 : isdigit(At(k))
      BY <2>3, CharAt DEF AllDigits
    <3>2. isdigit(At(d.w))
      BY <1>2, <2>3, <3>1
    <3>3. ~StarWidth(fmt, d)
      BY <3>2, CharAt, CharFacts DEF StarWidth
    <3>4. pos' = AfterDigits(d.w) /\ ap' = ap
      BY <1>5, <3>2, CharFacts DEF Width
    <3>5. d.w <= Len(fmt) + 1 /\ d.p \in d.w .. Len(fmt) + 1
      BY <1>2, <1>4 DEF FormatOK
    <3>6. d.p = AfterDigits(d.w)
      BY <1>2, <1>4, <1>6, <3>1, <3>5, DigitsEnd
    <3> QED BY <1>2, <2>3, <3>3, <3>4, <3>6, PieceFields DEF One
  <2> QED BY <1>3, <2>1, <2>2, <2>3 DEF WidthPart
<1>8. d.p = d.at + 1 => flags' = {}
  BY <1>2, <1>4, <1>5, <1>7
<1>9. d.at = 1 => out' = << >>
  BY <1>1 DEF InDirective
<1>10. StarWidth(fmt, d)' = StarWidth(fmt, d)
  BY <1>1 DEF StarWidth, CharOf
<1>11. (One(StarWidth(fmt, d)))' = One(StarWidth(fmt, d))
  BY <1>10 DEF One
<1> QED BY <1>1, <1>7, <1>8, <1>9, <1>11 DEF InDirective

(* The precision is read up to the qualifier, and its argument taken.      *)
LEMMA PrecisionRead ==
  ASSUME FormatOK, NEW d \in Piece, NEW e \in Piece,
         IsDirective(fmt, args, d, e), InDirective(d), Precision
  PROVE  InDirective(d)' /\ pc' = "qualifier"
<1>1. /\ pc = "precision" /\ pc' = "qualifier" /\ UNCHANGED <<fmt, flags, field_width, out>>
  BY DEF Precision
<1>2. /\ d.w \in Nat /\ d.p \in Nat /\ d.q \in Nat /\ d.need \in Nat
      /\ pos = d.p /\ ap = d.need + One(StarWidth(fmt, d))
  BY <1>1, PieceFields DEF InDirective
<1>3. InOrder(fmt, d) /\ WidthPart(fmt, d) /\ PrecisionPart(fmt, d) /\ QualifierPart(fmt, d)
      /\ Converts(CharOf(fmt, d.c))
  BY DEF IsDirective
<1>4. d.p <= d.q /\ d.q <= Len(fmt) + 1 /\ 1 <= d.p
  <2>1. /\ d.at \in Nat /\ d.c \in Nat /\ Len(fmt) \in Nat
    BY PieceFields DEF FormatOK
  <2>2. /\ 1 <= d.at /\ d.at < d.w /\ d.w <= d.p /\ d.p <= d.q /\ d.q <= d.c /\ d.c <= Len(fmt) + 1
    BY <1>3 DEF InOrder
  <2> QED BY <1>2, <2>1, <2>2
<1>5. /\ ~isdigit(At(d.q)) /\ At(d.q) # "*"
      /\ At(d.p) = "." <=> d.p < d.q
  BY <1>3, PartStarts
<1>6. /\ pos' = d.q /\ ap' = ap + One(StarPrecision(fmt, d))
      /\ d.q = d.p => precision' = -1
  <2>0. ap \in Nat
    BY <1>2 DEF One
  <2>1. CASE d.p = d.q
    <3>1. ~StarPrecision(fmt, d)
      BY <1>2, <2>1 DEF StarPrecision
    <3>2. At(pos) # "."
      BY <1>2, <1>5, <2>1
    <3>3. precision' = -1 /\ UNCHANGED <<ap, pos>>
      BY <3>2 DEF Precision
    <3> QED BY <1>2, <2>0, <2>1, <3>1, <3>3 DEF One
  <2>2. CASE StarPrecision(fmt, d)
    <3>1. At(pos) = "." /\ At(pos + 1) = "*" /\ d.q = d.p + 2
      BY <1>2, <2>2, CharAt DEF StarPrecision
    <3>2. ap' = ap + 1 /\ pos' = pos + 2
      BY <3>1, CharFacts DEF Precision
    <3> QED BY <1>2, <2>2, <3>1, <3>2 DEF One
  <2>3. CASE d.p < d.q /\ CharOf(fmt, d.p) = "." /\ AllDigits(fmt, d.p + 1, d.q)
    <3>1. \A k \in d.p + 1 .. d.q - 1 : isdigit(At(k))
      BY <2>3, CharAt DEF AllDigits
    <3>2. At(pos) = "."
      BY <1>2, <2>3, CharAt
    <3>3. CASE d.q = d.p + 1
      <4>1. ~StarPrecision(fmt, d)
        BY <1>2, <3>3 DEF StarPrecision
      <4>2. pos' = pos + 1 /\ ap' = ap
        BY <1>2, <1>5, <3>2, <3>3 DEF Precision
      <4> QED BY <1>2, <2>0, <3>3, <4>1, <4>2 DEF One
    <3>4. CASE d.q # d.p + 1
      <4>1. isdigit(At(d.p + 1))
        BY <1>2, <2>3, <3>1, <3>4
      <4>2. ~StarPrecision(fmt, d)
        BY <4>1, CharAt, CharFacts DEF StarPrecision
      <4>3. pos' = AfterDigits(d.p + 1) /\ ap' = ap
        BY <1>2, <3>2, <4>1, CharFacts DEF Precision
      <4>4. d.p + 1 \in Nat /\ d.p + 1 >= 1 /\ d.p + 1 <= Len(fmt) + 1
            /\ d.q \in d.p + 1 .. Len(fmt) + 1
        BY <1>2, <1>4, <2>3 DEF FormatOK
      <4>5. d.q = AfterDigits(d.p + 1)
        BY <1>5, <3>1, <4>4, DigitsEnd
      <4> QED BY <1>2, <2>0, <2>3, <4>2, <4>3, <4>5 DEF One
    <3> QED BY <3>3, <3>4
  <2> QED BY <1>3, <2>1, <2>2, <2>3 DEF PrecisionPart
<1>7. ap' = d.need + Stars(fmt, d)
  BY <1>2, <1>6 DEF Stars, One
<1>8. Stars(fmt, d)' = Stars(fmt, d)
  BY <1>1 DEF Stars, One, StarWidth, StarPrecision, CharOf
<1> QED BY <1>1, <1>6, <1>7, <1>8 DEF InDirective

LEMMA QualifierRead ==
  ASSUME NEW d \in Piece, NEW e \in Piece,
         IsDirective(fmt, args, d, e), InDirective(d), Qualifier
  PROVE  InDirective(d)' /\ pc' = "convert"
<1>1. /\ pc = "qualifier" /\ pc' = "convert"
      /\ UNCHANGED <<fmt, ap, flags, field_width, precision, out>>
      /\ pos' = IF At(pos) \in {"h", "l", "L"} THEN pos + 1 ELSE pos
  BY DEF Qualifier
<1>2. pos = d.q /\ ap = d.need + Stars(fmt, d)
  BY <1>1 DEF InDirective
<1>3. d.c = IF At(d.q) \in {"h", "l", "L"} THEN d.q + 1 ELSE d.q
  BY PartStarts DEF IsDirective
<1>4. Stars(fmt, d)' = Stars(fmt, d)
  BY <1>1 DEF Stars, One, StarWidth, StarPrecision, CharOf
<1> QED BY <1>1, <1>2, <1>3, <1>4 DEF InDirective
(* A conversion takes the argument it stands for, and leaves the pointer   *)
(* at the next piece.                                                      *)
Conversion ==
  \/ ConvertChar \/ ConvertString \/ ConvertPointer \/ ConvertCount
  \/ ConvertPercent \/ ConvertNumber \/ ConvertOther

LEMMA ConversionRead ==
  ASSUME FormatOK, NEW d \in Piece, NEW e \in Piece,
         IsDirective(fmt, args, d, e), InDirective(d), Conversion
  PROVE  pc' = "scan" /\ pos' = e.at /\ ap' = e.need /\ pos' > 1
<1>1. pc = "convert" /\ pc' = "scan"
  BY DEF Conversion, ConvertChar, ConvertString, ConvertPointer, ConvertCount, ConvertPercent,
         ConvertNumber, ConvertOther, Converted
<1>2. pos = d.c /\ ap = d.need + Stars(fmt, d)
  BY <1>1 DEF InDirective
<1>3. /\ e.at = (IF d.c <= Len(fmt) THEN d.c + 1 ELSE d.c)
      /\ e.need = d.need + Taken(fmt, d)
      /\ InOrder(fmt, d)
  BY DEF IsDirective
<1>4. d.c \in Nat /\ d.c > 1 /\ Len(fmt) \in Nat /\ d.need \in Nat /\ Stars(fmt, d) \in Nat
  <2>1. /\ d.at \in Nat /\ d.w \in Nat /\ d.p \in Nat /\ d.q \in Nat /\ d.c \in Nat
        /\ d.need \in Nat
    BY PieceFields
  <2>2. 1 <= d.at /\ d.at < d.w /\ d.w <= d.p /\ d.p <= d.q /\ d.q <= d.c
    BY <1>3 DEF InOrder
  <2>3. Stars(fmt, d) \in Nat
    BY DEF Stars, One
  <2> QED BY <2>1, <2>2, <2>3 DEF FormatOK
<1>5. Taken(fmt, d) = Stars(fmt, d) + (IF At(d.c) \in Taking THEN 1 ELSE 0)
  BY CharAt DEF Taken, One
<1>6. At(d.c) # NUL <=> d.c <= Len(fmt)
  BY <1>4, AtInside
<1>7. CASE ConvertChar \/ ConvertString \/ ConvertPointer \/ ConvertCount \/ ConvertNumber
  <2>1. At(pos) \in Taking /\ pos' = pos + 1 /\ ap' = ap + 1 /\ At(pos) # NUL
    BY <1>7 DEF ConvertChar, ConvertString, ConvertPointer, ConvertCount, ConvertNumber,
                Converted, Taking, NUL
  <2>2. pos' = e.at /\ pos' > 1
    BY <1>2, <1>3, <1>4, <1>6, <2>1
  <2>3. Taken(fmt, d) = Stars(fmt, d) + 1
    BY <1>2, <1>5, <2>1
  <2>4. ap' = e.need
    BY <1>2, <1>3, <1>4, <2>1, <2>3
  <2> QED BY <1>1, <2>2, <2>4
<1>8. CASE ConvertPercent
  <2>1. At(pos) \notin Taking /\ pos' = pos + 1 /\ ap' = ap + 0 /\ At(pos) # NUL
    BY <1>8 DEF ConvertPercent, Converted, Taking, NUL
  <2> QED BY <1>1, <1>2, <1>3, <1>4, <1>5, <1>6, <2>1
<1>9. CASE ConvertOther
  <2>1. /\ At(pos) \notin Taking /\ ap' = ap
        /\ pos' = IF At(pos) = NUL THEN pos ELSE pos + 1
    BY <1>9 DEF ConvertOther, AfterOther, Taking
  <2> QED BY <1>1, <1>2, <1>3, <1>4, <1>5, <1>6, <2>1
<1> QED BY <1>7, <1>8, <1>9 DEF Conversion

(* The pieces follow one another, the last one at the terminator.          *)
LEMMA Pieces ==
  ASSUME FormatOK, NEW P, IsParse(fmt, args, P), NEW j \in 1 .. Len(P)
  PROVE  /\ Len(P) \in Nat /\ P[j] \in Piece
         /\ At(P[j].at) = NUL => P[j].need = Len(args)
         /\ At(P[j].at) \notin {"%", NUL} =>
              j + 1 \in 1 .. Len(P) /\ IsLiteral(fmt, P[j], P[j + 1])
         /\ At(P[j].at) = "%" =>
              /\ j \in 1 .. Len(P) - 1 /\ P[j + 1] \in Piece
              /\ IsDirective(fmt, args, P[j], P[j + 1])
         /\ P[j].need <= Len(args)
<1>1. P \in Seq(Piece) /\ Len(P) \in Nat /\ P[j] \in Piece /\ Len(fmt) \in Nat
      /\ Len(args) \in Nat
  BY DEF IsParse, FormatOK
<1>2. CASE j = Len(P)
  <2>1. P[j].at = Len(fmt) + 1 /\ P[j].need = Len(args)
    BY <1>2 DEF IsParse
  <2>2. At(P[j].at) = NUL
    BY <1>1, <2>1 DEF At
  <2> QED BY <1>1, <2>1, <2>2 DEF NUL
<1>3. CASE j # Len(P)
  <2>1. j \in 1 .. Len(P) - 1 /\ j + 1 \in 1 .. Len(P) /\ P[j + 1] \in Piece
    BY <1>1, <1>3
  <2>2. /\ P[j].need <= Len(args)
        /\ IsLiteral(fmt, P[j], P[j + 1]) \/ IsDirective(fmt, args, P[j], P[j + 1])
    BY <2>1 DEF IsParse
  <2>3. IsLiteral(fmt, P[j], P[j + 1]) => At(P[j].at) \notin {"%", NUL}
    BY CharAt DEF IsLiteral
  <2>4. IsDirective(fmt, args, P[j], P[j + 1]) => At(P[j].at) = "%"
    BY CharAt DEF IsDirective, InOrder
  <2> QED BY <1>1, <2>1, <2>2, <2>3, <2>4, CharFacts
<1> QED BY <1>2, <1>3

LEMMA ParseInit ==
  ASSUME \A call \in Calls : WellFormed(call), Init
  PROVE  ParseInv
<1>1. PICK call \in Calls : fmt = call.fmt /\ args = call.args
  BY DEF Init
<1>2. PICK P : IsParse(fmt, args, P)
  BY <1>1 DEF WellFormed
<1>3. Len(P) \in Nat /\ 1 \in 1 .. Len(P) /\ P[1].at = 1 /\ P[1].need = 0
  BY <1>2 DEF IsParse
<1>4. pc = "scan" /\ pos = 1 /\ ap = 0 /\ out = << >>
  BY DEF Init
<1>5. InPiece(P)
  BY <1>3, <1>4 DEF InPiece
<1> QED BY <1>2, <1>5 DEF ParseInv

(* Outside of directives.                                                  *)
LEMMA ScanRead ==
  ASSUME FormatOK, PointerInside, NEW P, IsParse(fmt, args, P), InPiece(P), FormatOK',
         fmt' = fmt, args' = args, Literal \/ Percent \/ Terminate
  PROVE  InPiece(P)'
<1>0. pos \in Nat /\ pos >= 1
  BY DEF PointerInside, FormatOK
<1>1. pc = "scan" /\ (pos = 1 => out = << >>)
  BY DEF Literal, Percent, Terminate, InPiece
<1>2. PICK j \in 1 .. Len(P) : pos = P[j].at /\ ap = P[j].need
  BY <1>1 DEF InPiece
<1>3. CASE Literal
  <2>1. pc' = "scan" /\ At(pos) \notin {"%", NUL} /\ pos' = pos + 1 /\ ap' = ap
    BY <1>3 DEF Literal
  <2>2. j + 1 \in 1 .. Len(P) /\ IsLiteral(fmt, P[j], P[j + 1])
    BY <1>2, <2>1, Pieces
  <2>3. pos' = P[j + 1].at /\ ap' = P[j + 1].need /\ pos' >= 1 /\ pos' # 1
    BY <1>0, <1>2, <2>1, <2>2 DEF IsLiteral
  <2> QED BY <2>1, <2>2, <2>3 DEF InPiece
<1>4. CASE Percent
  <2>1. pc' = "flags" /\ At(pos) = "%" /\ pos' = pos + 1 /\ ap' = ap /\ flags' = {} /\ out' = out
    BY <1>4 DEF Percent
  <2>2. /\ j \in 1 .. Len(P) - 1 /\ P[j] \in Piece /\ P[j + 1] \in Piece
        /\ IsDirective(fmt, args, P[j], P[j + 1])
    BY <1>2, <2>1, Pieces
  <2>3. P[j].at < P[j].w /\ P[j].w \in Nat
    BY <2>2, PieceFields DEF IsDirective, InOrder
  <2>4. InDirective(P[j])'
    <3>1. P[j].at < pos' /\ pos' <= P[j].w
      BY <1>0, <1>2, <2>1, <2>3
    <3>2. P[j].at = 1 => out' = << >>
      BY <1>1, <1>2, <2>1
    <3> QED BY <1>2, <2>1, <3>1, <3>2 DEF InDirective
  <2>5. IsDirective(fmt, args, P[j], P[j + 1])'
    BY <2>2
  <2> QED BY <2>1, <2>2, <2>4, <2>5 DEF InPiece
<1>5. CASE Terminate
  <2>1. pc' = "puts" /\ At(pos) = NUL /\ ap' = ap
    BY <1>5 DEF Terminate
  <2>2. ap' = Len(args')
    BY <1>2, <2>1, Pieces
  <2> QED BY <2>1, <2>2 DEF InPiece
<1> QED BY <1>3, <1>4, <1>5

(* Inside of one.                                                          *)
LEMMA DirectiveRead ==
  ASSUME FormatOK, PointerInside, NEW P, IsParse(fmt, args, P), InPiece(P),
         fmt' = fmt, args' = args,
         Flag \/ Width \/ Precision \/ Qualifier \/ Conversion
  PROVE  InPiece(P)'
<1>0. pos \in Nat
  BY DEF PointerInside, FormatOK
<1>1. pc \in {"flags", "precision", "qualifier", "convert"}
  BY DEF Flag, Width, Precision, Qualifier, Conversion, ConvertChar, ConvertString,
         ConvertPointer, ConvertCount, ConvertPercent, ConvertNumber, ConvertOther
<1>2. PICK j \in 1 .. Len(P) - 1 : IsDirective(fmt, args, P[j], P[j + 1]) /\ InDirective(P[j])
  BY <1>1 DEF InPiece
<1>3. P[j] \in Piece /\ P[j + 1] \in Piece /\ j + 1 \in 1 .. Len(P)
  BY DEF IsParse
<1>4. IsDirective(fmt, args, P[j], P[j + 1])'
  BY <1>2
<1>5. CASE Flag \/ Width \/ Precision \/ Qualifier
  <2>1. InDirective(P[j])' /\ pc' \in {"flags", "precision", "qualifier", "convert"}
    BY <1>0, <1>2, <1>3, <1>5, FlagRead, WidthRead, PrecisionRead, QualifierRead
  <2> QED BY <1>2, <1>4, <2>1 DEF InPiece
<1>6. CASE Conversion
  <2>1. pc' = "scan" /\ pos' = P[j + 1].at /\ ap' = P[j + 1].need /\ pos' > 1
    BY <1>2, <1>3, <1>6, ConversionRead
  <2>2. P[j + 1].at \in Nat
    BY <1>3, PieceFields
  <2>3. pos' >= 1 /\ pos' # 1
    BY <2>1, <2>2
  <2> QED BY <1>3, <2>1, <2>3 DEF InPiece
<1> QED BY <1>5, <1>6

LEMMA ParseStep ==
  FormatOK /\ PointerInside /\ ParseInv /\ [Next]_vars => ParseInv'
<1> SUFFICES ASSUME FormatOK, PointerInside, ParseInv, [Next]_vars
             PROVE  ParseInv'
  OBVIOUS
<1>1. fmt' = fmt /\ args' = args
  BY FormatKept
<1>2. FormatOK'
  BY <1>1 DEF FormatOK
<1>3. PICK P : IsParse(fmt, args, P) /\ InPiece(P)
  BY DEF ParseInv
<1>4. IsParse(fmt, args, P)'
  BY <1>1, <1>3
<1> SUFFICES InPiece(P)'
  BY <1>4 DEF ParseInv
<1>5. CASE UNCHANGED vars
  BY <1>3, <1>5 DEF InPiece, InDirective, vars
<1>6. CASE Literal \/ Percent \/ Terminate
  BY <1>1, <1>2, <1>3, <1>6, ScanRead
<1>7. CASE Flag \/ Width \/ Precision \/ Qualifier \/ Conversion
  BY <1>1, <1>3, <1>7, DirectiveRead
<1>8. CASE Puts
  <2>1. pc = "puts" /\ pc' = "done" /\ ap' = ap
    BY <1>8 DEF Puts
  <2>2. ap' = Len(args')
    BY <1>1, <1>3, <2>1 DEF InPiece
  <2> QED BY <2>1, <2>2 DEF InPiece
<1> QED BY <1>5, <1>6, <1>7, <1>8 DEF Next, Conversion

LEMMA ParseInside == FormatOK /\ PointerInside /\ ParseInv => InsideFormat
<1> SUFFICES ASSUME FormatOK, PointerInside, ParseInv PROVE InsideFormat
  OBVIOUS
<1>1. pos <= Len(fmt) + 1 /\ Len(args) \in Nat
  BY DEF PointerInside, FormatOK
<1>2. PICK P : IsParse(fmt, args, P) /\ InPiece(P)
  BY DEF ParseInv
<1>3. CASE pc = "scan"
  <2>1. PICK j \in 1 .. Len(P) : ap = P[j].need
    BY <1>2, <1>3 DEF InPiece
  <2> QED BY <1>1, <1>2, <1>3, <2>1, Pieces DEF InsideFormat
<1>4. CASE pc \in {"flags", "precision", "qualifier", "convert"}
  <2>1. PICK j \in 1 .. Len(P) - 1 :
          IsDirective(fmt, args, P[j], P[j + 1]) /\ InDirective(P[j])
    BY <1>2, <1>4 DEF InPiece
  <2>2. P[j] \in Piece
    BY <1>2 DEF IsParse
  <2> DEFINE d == P[j]
  <2>3. d.need \in Nat /\ d.need + Taken(fmt, d) <= Len(args)
    BY <2>1, <2>2, PieceFields DEF IsDirective
  <2>4. \/ ap = d.need
        \/ ap = d.need + One(StarWidth(fmt, d))
        \/ ap = d.need + Stars(fmt, d)
    BY <1>4, <2>1 DEF InDirective
  <2> HIDE DEF d
  <2>5. ap <= Len(args)
    BY <1>1, <2>3, <2>4 DEF Taken, Stars, One
  <2> QED BY <1>1, <1>4, <2>5 DEF InsideFormat
<1>5. CASE pc \in {"puts", "done"} /\ ap = Len(args)
  BY <1>1, <1>5 DEF InsideFormat
<1> QED BY <1>2, <1>3, <1>4, <1>5 DEF InPiece

(* With a format whose directives match the arguments, as every format of  *)
(* the loader's does, vsprintf stays inside the format, va_arg never goes  *)
(* behind the last argument, and every argument is used in the end.        *)
THEOREM ArgumentsTaken ==
  ASSUME \A call \in Calls : WellFormed(call)
  PROVE  Spec => []InsideFormat
<1>1. Init => ParseInv
  BY ParseInit
<1>2. Init => FormatOK /\ PointerInside
  BY FormatInit
<1> QED BY <1>1, <1>2, ParseStep, PointerStep, ParseInside, PTL DEF Spec
-----------------------------------------------------------------------------
(* The characters of a format, of a string, and those written by itself.   *)
Chars ==
  STRING \cup {"0", "1", "2", "3", "4", "5", "6", "7", "8", "9", "A", "B", "C", "D", "E", "F",
               "a", "b", "c", "d", "e", "f", "x", "X", "+", "-", " ", "%", NUL}

(* The digits of every base: sixteen different characters in either case,  *)
(* each with the value of its place.                                       *)
Hex == 1 .. 16

LEMMA Join ==
  ASSUME NEW S, NEW a \in Seq(S), NEW b \in Seq(S)
  PROVE  /\ Len(a) \in Nat /\ Len(b) \in Nat
         /\ a \o b \in Seq(S) /\ Len(a \o b) = Len(a) + Len(b)
         /\ \A k \in 1 .. Len(a) : (a \o b)[k] = a[k]
         /\ \A k \in 1 .. Len(b) : (a \o b)[Len(a) + k] = b[k]
OBVIOUS

Joined(S, a, b, m, n, c) ==
  /\ c \in Seq(S) /\ Len(c) = m + n
  /\ \A k \in 1 .. m : c[k] = a[k]
  /\ \A k \in 1 .. n : c[m + k] = b[k]

LEMMA JoinSized ==
  ASSUME NEW S, NEW a \in Seq(S), NEW b \in Seq(S), NEW m, NEW n, Len(a) = m, Len(b) = n
  PROVE  Joined(S, a, b, m, n, a \o b)
<1>1. a \o b \in Seq(S) /\ Len(a \o b) = m + n
  BY Join
<1>2. \A k \in 1 .. m : (a \o b)[k] = a[k]
  BY Join
<1>3. \A k \in 1 .. n : (a \o b)[m + k] = b[k]
  BY Join
<1> QED BY <1>1, <1>2, <1>3 DEF Joined

LEMMA DigitTable ==
  /\ digits \in Seq(Chars) /\ Len(digits) = 16
  /\ lower \in Seq(Chars) /\ Len(lower) = 16
  /\ \A k \in 1 .. 10 : digits[k] = Decimal[k] /\ lower[k] = Decimal[k]
  /\ digits[11] = "A" /\ digits[12] = "B" /\ digits[13] = "C" /\ digits[14] = "D"
  /\ digits[15] = "E" /\ digits[16] = "F"
  /\ lower[11] = "a" /\ lower[12] = "b" /\ lower[13] = "c" /\ lower[14] = "d"
  /\ lower[15] = "e" /\ lower[16] = "f"
<1> DEFINE u == <<"A", "B", "C", "D", "E", "F">>
           l == <<"a", "b", "c", "d", "e", "f">>
<1>1. Decimal \in Seq(Chars) /\ Len(Decimal) = 10
  BY DEF Decimal, Chars
<1>2. /\ u \in Seq(Chars) /\ Len(u) = 6
      /\ u[1] = "A" /\ u[2] = "B" /\ u[3] = "C" /\ u[4] = "D" /\ u[5] = "E" /\ u[6] = "F"
  BY DEF Chars
<1>3. /\ l \in Seq(Chars) /\ Len(l) = 6
      /\ l[1] = "a" /\ l[2] = "b" /\ l[3] = "c" /\ l[4] = "d" /\ l[5] = "e" /\ l[6] = "f"
  BY DEF Chars
<1>4. digits = Decimal \o u /\ lower = Decimal \o l
  BY DEF digits, lower
<1> HIDE DEF u, l
<1>5. /\ digits \in Seq(Chars) /\ Len(digits) = 16
      /\ \A k \in 1 .. 10 : digits[k] = Decimal[k]
      /\ \A k \in 1 .. 6 : digits[10 + k] = u[k]
  <2>1. Joined(Chars, Decimal, u, 10, 6, digits)
    BY <1>1, <1>2, <1>4, JoinSized, Zenon
  <2> QED BY <2>1 DEF Joined
<1>6. /\ lower \in Seq(Chars) /\ Len(lower) = 16
      /\ \A k \in 1 .. 10 : lower[k] = Decimal[k]
      /\ \A k \in 1 .. 6 : lower[10 + k] = l[k]
  <2>1. Joined(Chars, Decimal, l, 10, 6, lower)
    BY <1>1, <1>3, <1>4, JoinSized, Zenon
  <2> QED BY <2>1 DEF Joined
<1>7. \A k \in 1 .. 6 : digits[10 + k] = u[k] /\ lower[10 + k] = l[k]
  BY <1>5, <1>6
<1>8. /\ digits[11] = u[1] /\ digits[12] = u[2] /\ digits[13] = u[3] /\ digits[14] = u[4]
      /\ digits[15] = u[5] /\ digits[16] = u[6]
  BY <1>7
<1>9. /\ lower[11] = l[1] /\ lower[12] = l[2] /\ lower[13] = l[3] /\ lower[14] = l[4]
      /\ lower[15] = l[5] /\ lower[16] = l[6]
  BY <1>7
<1> QED BY <1>2, <1>3, <1>5, <1>6, <1>8, <1>9

LEMMA DigitsApart ==
  \A j, k \in Hex : {digits[j], lower[j]} \cap {digits[k], lower[k]} # {} => j = k
<1> DEFINE Is(k, u, l) == digits[k] = u /\ lower[k] = l
<1>1. /\ Is(1, "0", "0") /\ Is(2, "1", "1") /\ Is(3, "2", "2") /\ Is(4, "3", "3")
      /\ Is(5, "4", "4") /\ Is(6, "5", "5") /\ Is(7, "6", "6") /\ Is(8, "7", "7")
      /\ Is(9, "8", "8") /\ Is(10, "9", "9")
  <2>1. \A k \in 1 .. 10 : digits[k] = Decimal[k] /\ lower[k] = Decimal[k]
    BY DigitTable
  <2>2. /\ Decimal[1] = "0" /\ Decimal[2] = "1" /\ Decimal[3] = "2" /\ Decimal[4] = "3"
        /\ Decimal[5] = "4" /\ Decimal[6] = "5" /\ Decimal[7] = "6" /\ Decimal[8] = "7"
        /\ Decimal[9] = "8" /\ Decimal[10] = "9"
    BY DEF Decimal
  <2> QED BY <2>1, <2>2
<1>2. /\ Is(11, "A", "a") /\ Is(12, "B", "b") /\ Is(13, "C", "c") /\ Is(14, "D", "d")
      /\ Is(15, "E", "e") /\ Is(16, "F", "f")
  BY DigitTable
<1>3. \A k \in Hex : k \in {1, 2, 3, 4, 5, 6, 7, 8, 9, 10, 11, 12, 13, 14, 15, 16}
  BY DEF Hex
<1>4. ASSUME NEW j \in Hex, NEW k \in Hex,
             digits[j] = digits[k] \/ digits[j] = lower[k] \/ lower[j] = lower[k]
      PROVE  j = k
  BY <1>1, <1>2, <1>3, <1>4
<1> QED BY <1>4

LEMMA HexValues ==
  ASSUME NEW k \in Hex
  PROVE  HexValue(digits[k]) = k - 1 /\ HexValue(lower[k]) = k - 1
<1>1. ASSUME NEW c \in {digits[k], lower[k]} PROVE HexValue(c) = k - 1
  <2>1. HexValue(c) = (CHOOSE j \in Hex : c \in {digits[j], lower[j]}) - 1
    BY DEF HexValue, Hex
  <2>2. \A j \in Hex : c \in {digits[j], lower[j]} => j = k
    BY DigitsApart
  <2>3. (CHOOSE j \in Hex : c \in {digits[j], lower[j]}) = k
    BY <2>2
  <2> QED BY <2>1, <2>3
<1> QED BY <1>1

(* A run of digits of a base, and the number it stands for.                *)
Bases == {8, 10, 16}

Digit(c) == \E k \in Hex : c = digits[k] \/ c = lower[k]

LEMMA DigitHasValue ==
  ASSUME NEW c, Digit(c)
  PROVE  HexValue(c) \in Nat
<1>1. PICK k \in Hex : c = digits[k] \/ c = lower[k]
  BY DEF Digit
<1>2. HexValue(c) = k - 1
  BY <1>1, HexValues
<1> QED BY <1>2 DEF Hex

DigitRun(s) == s \in Seq(Chars) /\ \A k \in 1 .. Len(s) : Digit(s[k])
(* v holds the values of the beginnings of s.                              *)
Reads(v, s, base) ==
  /\ v \in [0 .. Len(s) -> Nat] /\ v[0] = 0
  /\ \A k \in 1 .. Len(s) : v[k] = v[k - 1] * base + HexValue(s[k])

LEMMA NatProduct ==
  ASSUME NEW a \in Nat, NEW b \in Nat, NEW c \in Nat
  PROVE  a * b + c \in Nat
OBVIOUS

LEMMA ValueIs ==
  ASSUME NEW s, DigitRun(s), NEW base \in Nat
  PROVE  \E v : Reads(v, s, base) /\ Value(s, base) = v[Len(s)]
<1> DEFINE Body(f) == [k \in 0 .. Len(s) |->
                         IF k = 0 THEN 0 ELSE f[k - 1] * base + HexValue(s[k])]
           v == CHOOSE f : f = Body(f)
           step == [p \in Nat \X Nat |-> IF p[1] \in 1 .. Len(s)
                                         THEN p[2] * base + HexValue(s[p[1]]) ELSE 0]
<1>1. Value(s, base) = v[Len(s)]
  BY Zenon DEF Value
<1>2. /\ Len(s) \in Nat /\ 0 \in Nat
      /\ \A k \in 1 .. Len(s) : HexValue(s[k]) \in Nat
  BY DigitHasValue DEF DigitRun
<1>3. step \in [Nat \X Nat -> Nat]
  BY <1>2, NatProduct
<1>4. \E g \in [0 .. Len(s) -> Nat] : Recursive(g, Len(s), 0, step)
  <2> HIDE DEF step
  <2> QED BY <1>2, <1>3, RecursiveFunction
<1>5. PICK g \in [0 .. Len(s) -> Nat] : Recursive(g, Len(s), 0, step)
  BY <1>4
<1>6. g[0] = 0
  BY <1>5 DEF Recursive
<1>7. ASSUME NEW k \in 1 .. Len(s) PROVE g[k] = g[k - 1] * base + HexValue(s[k])
  <2>1. k \in Nat /\ k - 1 \in 0 .. Len(s)
    BY <1>2
  <2>2. g[k - 1] \in Nat /\ g[k] = step[<<k, g[k - 1]>>]
    BY <1>5, <2>1 DEF Recursive
  <2> QED BY <2>1, <2>2
<1>8. g = Body(g)
  <2>1. ASSUME NEW k \in 0 .. Len(s) PROVE g[k] = Body(g)[k]
    <3>1. CASE k = 0
      BY <1>6, <3>1
    <3>2. CASE k # 0
      <4>1. k \in 1 .. Len(s)
        BY <1>2, <3>2
      <4> QED BY <1>7, <3>2, <4>1
    <3> QED BY <3>1, <3>2
  <2> QED BY <2>1
<1>9. v = Body(v)
  <2> HIDE DEF Body
  <2> QED BY <1>8
<1> HIDE DEF v
<1>10. ASSUME NEW f, f = Body(f)
       PROVE  /\ DOMAIN f = 0 .. Len(s) /\ f[0] = 0 /\ f = [k \in 0 .. Len(s) |-> f[k]]
              /\ \A k \in 1 .. Len(s) : f[k] = f[k - 1] * base + HexValue(s[k])
  <2>1. \A k \in 1 .. Len(s) : k \in 0 .. Len(s) /\ k # 0
    BY <1>2
  <2>2. 0 \in 0 .. Len(s)
    BY <1>2
  <2> QED BY <1>10, <2>1, <2>2
<1>11. /\ v[0] = 0 /\ v = [k \in 0 .. Len(s) |-> v[k]]
       /\ \A k \in 1 .. Len(s) : v[k] = v[k - 1] * base + HexValue(s[k])
  <2> HIDE DEF Body
  <2> QED BY <1>9, <1>10
<1> DEFINE T == {k \in Nat : k <= Len(s) => v[k] \in Nat}
<1>12. 0 \in T
  BY <1>11
<1>13. ASSUME NEW k \in Nat, k \in T PROVE k + 1 \in T
  <2> SUFFICES ASSUME k + 1 <= Len(s) PROVE v[k + 1] \in Nat
    OBVIOUS
  <2>1. k + 1 \in 1 .. Len(s) /\ (k + 1) - 1 = k /\ v[k] \in Nat
    BY <1>2, <1>13
  <2>2. v[k + 1] = v[k] * base + HexValue(s[k + 1]) /\ HexValue(s[k + 1]) \in Nat
    BY <1>2, <1>11, <2>1
  <2> QED BY <2>1, <2>2, NatProduct
<1>14. Nat \subseteq T
  <2> HIDE DEF T
  <2> QED BY <1>12, <1>13, SetInduction
<1>15. v \in [0 .. Len(s) -> Nat]
  BY <1>2, <1>11, <1>14
<1>16. Reads(v, s, base)
  BY <1>11, <1>15 DEF Reads
<1> QED BY <1>1, <1>16

SameStart(s, r, m) ==
  /\ Len(s) \in Nat /\ Len(r) \in Nat /\ m \in Nat /\ m <= Len(s) /\ m <= Len(r)
  /\ \A k \in 1 .. m : s[k] = r[k]

LEMMA SameReading ==
  ASSUME NEW s, NEW r, NEW base, NEW v, NEW u, NEW m,
         Reads(v, s, base), Reads(u, r, base), SameStart(s, r, m)
  PROVE  v[m] = u[m]
<1> USE DEF SameStart
<1> DEFINE T == {k \in Nat : k <= m => v[k] = u[k]}
<1>1. 0 \in T
  BY DEF Reads
<1>2. ASSUME NEW k \in Nat, k \in T PROVE k + 1 \in T
  <2> SUFFICES ASSUME k + 1 <= m PROVE v[k + 1] = u[k + 1]
    OBVIOUS
  <2>1. k + 1 \in 1 .. m /\ k + 1 \in 1 .. Len(s) /\ k + 1 \in 1 .. Len(r) /\ (k + 1) - 1 = k
        /\ v[k] = u[k]
    BY <1>2
  <2>2. v[k + 1] = v[k] * base + HexValue(s[k + 1])
    BY <2>1 DEF Reads
  <2>3. u[k + 1] = u[k] * base + HexValue(r[k + 1])
    BY <2>1 DEF Reads
  <2> QED BY <2>1, <2>2, <2>3
<1>3. Nat \subseteq T
  <2> HIDE DEF T
  <2> QED BY <1>1, <1>2, SetInduction
<1> QED BY <1>3

(* One more digit.                                                         *)
LEMMA ValueAppend ==
  ASSUME NEW s, DigitRun(s), NEW c \in Chars, Digit(c), NEW base \in Nat
  PROVE  /\ DigitRun(Append(s, c))
         /\ Value(s, base) \in Nat
         /\ Value(Append(s, c), base) = Value(s, base) * base + HexValue(c)
<1> DEFINE r == Append(s, c)
<1>1. /\ s \in Seq(Chars) /\ Len(s) \in Nat /\ r \in Seq(Chars) /\ Len(r) = Len(s) + 1
      /\ r[Len(s) + 1] = c /\ \A k \in 1 .. Len(s) : r[k] = s[k]
  BY DEF DigitRun
<1> HIDE DEF r
<1>2. DigitRun(r)
  <2>1. ASSUME NEW k \in 1 .. Len(r) PROVE Digit(r[k])
    <3>1. k \in 1 .. Len(s) \/ k = Len(s) + 1
      BY <1>1
    <3> QED BY <1>1, <3>1 DEF DigitRun
  <2> QED BY <1>1, <2>1 DEF DigitRun
<1>3. PICK v : Reads(v, s, base) /\ Value(s, base) = v[Len(s)]
  BY ValueIs
<1>4. PICK u : Reads(u, r, base) /\ Value(r, base) = u[Len(r)]
  BY <1>2, ValueIs
<1>5. v[Len(s)] = u[Len(s)]
  <2>1. Len(r) \in Nat /\ Len(s) <= Len(r) /\ Len(s) <= Len(s)
    BY <1>1
  <2>2. \A k \in 1 .. Len(s) : s[k] = r[k]
    BY <1>1
  <2>3. SameStart(s, r, Len(s))
    BY <1>1, <2>1, <2>2 DEF SameStart
  <2>4. Reads(v, s, base) /\ Reads(u, r, base)
    BY <1>3, <1>4
  <2> QED BY <2>3, <2>4, SameReading
<1>6. u[Len(s) + 1] = u[Len(s)] * base + HexValue(c)
  <2>1. Len(s) + 1 \in 1 .. Len(r) /\ (Len(s) + 1) - 1 = Len(s)
    BY <1>1
  <2> QED BY <1>1, <1>4, <2>1 DEF Reads
<1>7. v[Len(s)] \in Nat
  BY <1>1, <1>3 DEF Reads
<1> QED BY <1>1, <1>2, <1>3, <1>4, <1>5, <1>6, <1>7 DEF r

LEMMA EmptyValue ==
  ASSUME NEW base \in Nat
  PROVE  DigitRun(<< >>) /\ Value(<< >>, base) = 0
<1>1. << >> \in Seq(Chars) /\ Len(<< >>) = 0
  OBVIOUS
<1>2. DigitRun(<< >>)
  BY <1>1 DEF DigitRun
<1>3. PICK v : Reads(v, << >>, base) /\ Value(<< >>, base) = v[Len(<< >>)]
  BY <1>2, ValueIs
<1> QED BY <1>1, <1>2, <1>3 DEF Reads
LEMMA FillIs ==
  ASSUME NEW S, NEW c \in S, NEW n \in Int
  PROVE  /\ Fill(c, n) \in Seq(S)
         /\ Len(Fill(c, n)) = IF n > 0 THEN n ELSE 0
         /\ \A k \in 1 .. Len(Fill(c, n)) : Fill(c, n)[k] = c
BY DEF Fill

LEMMA ZeroDigit ==
  "0" \in Chars /\ Digit("0") /\ HexValue("0") = 0 /\ digits[1] = "0" /\ lower[1] = "0"
<1>1. Decimal[1] = "0" /\ 1 \in 1 .. 10 /\ 1 \in Hex
  BY DEF Decimal, Hex
<1>2. digits[1] = "0" /\ lower[1] = "0"
  BY <1>1, DigitTable
<1>3. HexValue(digits[1]) = 1 - 1
  BY <1>1, HexValues
<1> QED BY <1>1, <1>2, <1>3 DEF Chars, Digit

(* Leading zeros do not count.                                             *)
LEMMA ValueZeros ==
  ASSUME NEW t, DigitRun(t), NEW z \in Int, NEW base \in Nat
  PROVE  /\ DigitRun(Fill("0", z) \o t)
         /\ Value(Fill("0", z) \o t, base) = Value(t, base)
<1> DEFINE F == Fill("0", z)
           s == F \o t
           m == Len(F)
           n == Len(t)
<1>1. t \in Seq(Chars) /\ F \in Seq(Chars) /\ \A k \in 1 .. m : F[k] = "0"
  BY FillIs, ZeroDigit DEF DigitRun
<1> HIDE DEF F
<1>2. /\ m \in Nat /\ n \in Nat /\ s \in Seq(Chars) /\ Len(s) = m + n
      /\ \A k \in 1 .. m : s[k] = F[k]
      /\ \A k \in 1 .. n : s[m + k] = t[k]
  BY <1>1, Join
<1> HIDE DEF s, m
<1>3. DigitRun(s)
  <2>1. ASSUME NEW k \in 1 .. Len(s) PROVE Digit(s[k])
    <3>1. CASE k <= m
      <4>1. k \in 1 .. m
        BY <1>2, <3>1
      <4> QED BY <1>1, <1>2, <4>1, ZeroDigit
    <3>2. CASE ~(k <= m)
      <4>1. k - m \in 1 .. n /\ m + (k - m) = k
        BY <1>2, <3>2
      <4>2. s[k] = t[k - m]
        BY <1>2, <4>1
      <4> QED BY <4>1, <4>2 DEF DigitRun
    <3> QED BY <3>1, <3>2
  <2> QED BY <1>2, <2>1 DEF DigitRun
<1>4. PICK v : Reads(v, t, base) /\ Value(t, base) = v[n]
  BY ValueIs
<1>5. PICK u : Reads(u, s, base) /\ Value(s, base) = u[Len(s)]
  BY <1>3, ValueIs
<1>u. u[0] = 0 /\ \A k \in 1 .. m + n : u[k] = u[k - 1] * base + HexValue(s[k])
  BY <1>2, <1>5 DEF Reads
<1>v. v[0] = 0 /\ \A k \in 1 .. n : v[k] = v[k - 1] * base + HexValue(t[k])
  BY <1>4 DEF Reads
<1> HIDE DEF n
<1> DEFINE Z == {k \in Nat : k <= m => u[k] = 0}
           T == {k \in Nat : k <= n => u[m + k] = v[k]}
<1>6. u[m] = 0
  <2>1. 0 \in Z
    BY <1>u
  <2>2. ASSUME NEW k \in Nat, k \in Z PROVE k + 1 \in Z
    <3> SUFFICES ASSUME k + 1 <= m PROVE u[k + 1] = 0
      OBVIOUS
    <3>1. k + 1 \in 1 .. m + n /\ k + 1 \in 1 .. m /\ (k + 1) - 1 = k /\ u[k] = 0
      BY <1>2, <2>2
    <3>2. u[k + 1] = u[k] * base + HexValue(s[k + 1])
      BY <1>u, <3>1
    <3>3. HexValue(s[k + 1]) = 0
      BY <1>1, <1>2, <3>1, ZeroDigit
    <3> QED BY <3>1, <3>2, <3>3
  <2>3. Nat \subseteq Z
    <3> HIDE DEF Z
    <3> QED BY <2>1, <2>2, SetInduction
  <2> QED BY <1>2, <2>3
<1>7. u[m + n] = v[n]
  <2>1. 0 \in T
    <3>1. m + 0 = m
      BY <1>2
    <3> QED BY <1>6, <1>v, <3>1
  <2>2. ASSUME NEW k \in Nat, k \in T PROVE k + 1 \in T
    <3> SUFFICES ASSUME k + 1 <= n PROVE u[m + (k + 1)] = v[k + 1]
      OBVIOUS
    <3>1. /\ k + 1 \in 1 .. n /\ m + (k + 1) \in 1 .. m + n
          /\ (k + 1) - 1 = k /\ (m + (k + 1)) - 1 = m + k /\ u[m + k] = v[k]
      BY <1>2, <2>2
    <3>2. u[m + (k + 1)] = u[m + k] * base + HexValue(s[m + (k + 1)])
      BY <1>u, <3>1
    <3>3. v[k + 1] = v[k] * base + HexValue(t[k + 1])
      BY <1>v, <3>1
    <3>4. s[m + (k + 1)] = t[k + 1]
      BY <1>2, <3>1
    <3> QED BY <3>1, <3>2, <3>3, <3>4
  <2>3. Nat \subseteq T
    <3> HIDE DEF T
    <3> QED BY <2>1, <2>2, SetInduction
  <2> QED BY <1>2, <2>3
<1> QED BY <1>2, <1>3, <1>4, <1>5, <1>7 DEF s, F
LEMMA DivideOff ==
  ASSUME NEW base \in Bases, NEW n \in Nat
  PROVE  /\ base \in Nat /\ base > 1 /\ base <= 16
         /\ n % base \in 0 .. base - 1
         /\ n \div base \in Nat /\ n = (n \div base) * base + (n % base)
         /\ n < base => n % base = n
         /\ n >= base => n \div base < n /\ n \div base > 0
<1>1. CASE base = 8
  BY <1>1
<1>2. CASE base = 10
  BY <1>2
<1>3. CASE base = 16
  BY <1>3
<1> QED BY <1>1, <1>2, <1>3 DEF Bases

Alphabets == {digits, lower}

Alphabet(small) == IF small THEN lower ELSE digits

(* A digit of the alphabet, by its value.                                  *)
LEMMA AlphabetDigit ==
  ASSUME NEW A \in Alphabets, NEW m \in 0 .. 15
  PROVE  LET c == A[m + 1]
         IN  c \in Chars /\ Digit(c) /\ HexValue(c) = m /\ (m > 0 => c # "0")
<1> DEFINE c == A[m + 1]
<1>1. m + 1 \in Hex
  BY DEF Hex
<1>2. c = lower[m + 1] \/ c = digits[m + 1]
  BY DEF Alphabets
<1>3. c \in Chars
  <2>1. digits \in Seq(Chars) /\ lower \in Seq(Chars)
    BY DigitTable
  <2>2. Hex = 1 .. Len(digits) /\ Hex = 1 .. Len(lower)
    BY DigitTable DEF Hex
  <2>3. digits[m + 1] \in Chars /\ lower[m + 1] \in Chars
    BY <1>1, <2>1, <2>2
  <2> QED BY <1>2, <2>3
<1>4. Digit(c)
  BY <1>1, <1>2 DEF Digit
<1>5. HexValue(c) = (m + 1) - 1
  BY <1>1, <1>2, HexValues
<1>6. m > 0 => c # "0"
  BY <1>5, ZeroDigit
<1> HIDE DEF c
<1>7. HexValue(c) = m
  BY <1>5
<1> QED BY <1>3, <1>4, <1>6, <1>7 DEF c

(* The recursion of the digits that number divides off has a solution.     *)
DigitsBody(f, M, base, A) ==
  [n \in 0 .. M |->
     IF n < base THEN <<A[(n % base) + 1]>>
     ELSE Append(f[n \div base], A[(n % base) + 1])]

LEMMA DigitsExist ==
  ASSUME NEW base \in Bases, NEW A, NEW M \in Nat
  PROVE  \E f : f = DigitsBody(f, M, base, A)
<1> DEFINE Ch(n) == A[(n % base) + 1]
           B(f, m) == [n \in 0 .. m |-> IF n < base THEN <<Ch(n)>>
                                        ELSE Append(f[n \div base], Ch(n))]
           T == {m \in Nat : \E f : f = B(f, m)}
<1> HIDE DEF Ch
<1>1. 0 \in T
  <2> DEFINE f0 == [n \in 0 .. 0 |-> <<Ch(n)>>]
  <2>1. 0 < base
    BY DEF Bases
  <2>2. f0 = B(f0, 0)
    BY <2>1
  <2> QED BY <2>2
<1>2. ASSUME NEW m \in Nat, m \in T PROVE m + 1 \in T
  <2>1. PICK f : f = B(f, m)
    BY <1>2
  <2> DEFINE x == IF m + 1 < base THEN <<Ch(m + 1)>>
                  ELSE Append(f[(m + 1) \div base], Ch(m + 1))
             g == [n \in 0 .. m + 1 |-> IF n = m + 1 THEN x ELSE f[n]]
  <2>2. \A n \in 0 .. m : g[n] = f[n]
    OBVIOUS
  <2>3. g[m + 1] = x
    OBVIOUS
  <2>4. ASSUME NEW n \in 0 .. m
        PROVE  f[n] = IF n < base THEN <<Ch(n)>> ELSE Append(f[n \div base], Ch(n))
    <3>1. B(f, m)[n] = IF n < base THEN <<Ch(n)>> ELSE Append(f[n \div base], Ch(n))
      OBVIOUS
    <3> HIDE DEF B
    <3> QED BY <2>1, <3>1
  <2>5. DOMAIN g = 0 .. m + 1 /\ g = [n \in 0 .. m + 1 |-> g[n]]
    OBVIOUS
  <2> HIDE DEF g
  <2>6. ASSUME NEW n \in 0 .. m + 1
        PROVE  g[n] = IF n < base THEN <<Ch(n)>> ELSE Append(g[n \div base], Ch(n))
    <3>1. n >= base => n \div base \in 0 .. m
      <4>1. n >= base => n \div base \in Nat /\ n \div base < n
        BY DivideOff
      <4>2. n \in Nat /\ n <= m + 1
        OBVIOUS
      <4> DEFINE q == n \div base
      <4> HIDE DEF q
      <4>3. n >= base => q \in 0 .. m
        BY <4>1, <4>2 DEF q
      <4> QED BY <4>3 DEF q
    <3>2. n >= base => g[n \div base] = f[n \div base]
      BY <2>2, <3>1
    <3>3. base \in Nat
      BY DivideOff
    <3>4. CASE n = m + 1
      BY <2>3, <3>2, <3>3, <3>4
    <3>5. CASE n # m + 1
      <4>1. n \in 0 .. m
        BY <3>5
      <4>2. g[n] = f[n]
        BY <2>2, <4>1
      <4> QED BY <2>4, <3>2, <3>3, <4>1, <4>2
    <3> QED BY <3>4, <3>5
  <2>7. g = B(g, m + 1)
    BY <2>5, <2>6
  <2> QED BY <2>7
<1>3. M \in T
  <2> HIDE DEF T
  <2> QED BY <1>1, <1>2, SetInduction
<1>4. PICK f : f = B(f, M)
  BY <1>3
<1>5. B(f, M) = DigitsBody(f, M, base, A)
  BY DEF DigitsBody, Ch
<1> HIDE DEF B
<1> QED BY <1>4, <1>5

Numeral(s, n, base, A) ==
  /\ DigitRun(s) /\ Len(s) >= 1
  /\ AreDigits(s, base, A)
  /\ Value(s, base) = n
  /\ n = 0 => Len(s) = 1
  /\ n > 0 => s[1] # "0"
(* The next digit is put behind the ones of the quotient.                  *)
Quotient(s, n, base, A) ==
  /\ DigitRun(s) /\ AreDigits(s, base, A) /\ Value(s, base) = n \div base
  /\ Len(s) = 0 <=> n < base
  /\ Len(s) >= 1 => s[1] # "0"

LEMMA NumeralAppend ==
  ASSUME NEW base \in Bases, NEW A \in Alphabets, NEW n \in Nat, NEW s,
         Quotient(s, n, base, A)
  PROVE  Numeral(Append(s, A[(n % base) + 1]), n, base, A)
<1> USE DEF Quotient
<1> DEFINE m == n % base
           c == A[m + 1]
           r == Append(s, c)
           q == n \div base
<1>1. /\ base \in Nat /\ base > 1 /\ base <= 16 /\ m \in 0 .. base - 1
      /\ q \in Nat /\ n = q * base + m /\ (n < base => m = n)
  BY DivideOff
<1> HIDE DEF m, q
<1>2. m \in 0 .. 15 /\ m + 1 \in 1 .. base
  BY <1>1
<1>3. c \in Chars /\ Digit(c) /\ HexValue(c) = m /\ (m > 0 => c # "0")
  BY <1>2, AlphabetDigit
<1>4. /\ s \in Seq(Chars) /\ Len(s) \in Nat /\ r \in Seq(Chars) /\ Len(r) = Len(s) + 1
      /\ r[Len(s) + 1] = c /\ \A k \in 1 .. Len(s) : r[k] = s[k]
  BY <1>3 DEF DigitRun
<1>5. DigitRun(r) /\ Value(r, base) = Value(s, base) * base + HexValue(c)
  BY <1>1, <1>3, ValueAppend
<1>6. Value(r, base) = n
  BY <1>1, <1>3, <1>5 DEF q
<1>7. AreDigits(r, base, A)
  <2>1. ASSUME NEW k \in 1 .. Len(r) PROVE \E d \in 1 .. base : r[k] = A[d]
    <3>1. CASE k = Len(s) + 1
      BY <1>2, <1>4, <3>1
    <3>2. CASE k # Len(s) + 1
      <4>1. k \in 1 .. Len(s)
        BY <1>4, <3>2
      <4> QED BY <1>4, <4>1 DEF AreDigits
    <3> QED BY <3>1, <3>2
  <2> QED BY <2>1 DEF AreDigits
<1>8. Len(r) >= 1 /\ (n = 0 => Len(r) = 1)
  BY <1>1, <1>4
<1>9. n > 0 => r[1] # "0"
  <2>1. CASE Len(s) = 0
    <3>1. r[1] = c /\ m = n
      BY <1>1, <1>4, <2>1
    <3> QED BY <1>3, <3>1
  <2>2. CASE Len(s) # 0
    <3>1. 1 \in 1 .. Len(s) /\ Len(s) >= 1
      BY <1>4, <2>2
    <3> QED BY <1>4, <3>1
  <2> QED BY <2>1, <2>2
<1> QED BY <1>5, <1>6, <1>7, <1>8, <1>9 DEF Numeral, m

LEMMA Single ==
  ASSUME NEW x
  PROVE  <<x>> = Append(<< >>, x)
<1> DEFINE S == {x}
<1>1. x \in S
  OBVIOUS
<1> HIDE DEF S
<1>2. << >> \in Seq(S) /\ <<x>> \in Seq(S) /\ Len(<<x>>) = 1 /\ Len(<< >>) = 0 /\ <<x>>[1] = x
  BY <1>1
<1>3. /\ Append(<< >>, x) \in Seq(S) /\ Len(Append(<< >>, x)) = 0 + 1
      /\ Append(<< >>, x)[0 + 1] = x
  BY <1>1, <1>2
<1> QED BY <1>2, <1>3

(* What number divides off a word are its digits.                          *)
LEMMA TmpNumeral ==
  ASSUME NEW base \in Bases, NEW small, NEW num \in 0 .. Word - 1
  PROVE  Numeral(tmp(num, base, small), num, base, Alphabet(small))
<1> DEFINE A == Alphabet(small)
           M == Word - 1
           d == CHOOSE f : f = DigitsBody(f, M, base, A)
           Ch(n) == A[(n % base) + 1]
<1>1. tmp(num, base, small) = d[num]
  <2> DEFINE C(n) == IF small THEN lower[(n % base) + 1] ELSE digits[(n % base) + 1]
             D(f) == [n \in 0 .. Word - 1 |-> IF n < base THEN <<C(n)>>
                                              ELSE Append(f[n \div base], C(n))]
             b == CHOOSE f : f = D(f)
  <2>1. tmp(num, base, small) = b[num]
    BY Zenon DEF tmp
  <2>2. \A n : C(n) = A[(n % base) + 1]
    BY DEF Alphabet
  <2>3. \A f : D(f) = DigitsBody(f, M, base, A)
    <3> HIDE DEF C
    <3> QED BY <2>2 DEF DigitsBody
  <2> HIDE DEF D
  <2>4. b = d
    BY <2>3
  <2> QED BY <2>1, <2>4
<1>a. A \in Alphabets
  BY DEF Alphabet, Alphabets
<1> HIDE DEF A
<1>2. M \in Nat
  BY PrintfAssumption
<1>3. d = DigitsBody(d, M, base, A)
  BY <1>2, DigitsExist
<1> HIDE DEF d
<1>4. ASSUME NEW n \in 0 .. M
      PROVE  d[n] = IF n < base THEN <<Ch(n)>> ELSE Append(d[n \div base], Ch(n))
  <2>1. DigitsBody(d, M, base, A)[n]
          = IF n < base THEN <<Ch(n)>> ELSE Append(d[n \div base], Ch(n))
    BY DEF DigitsBody
  <2> QED BY <1>3, <2>1
<1> HIDE DEF Ch, M
<1> DEFINE T == {n \in 0 .. M : ~Numeral(d[n], n, base, A)}
<1>5. T = {}
  <2> SUFFICES ASSUME T # {} PROVE FALSE
    OBVIOUS
  <2>1. T \in SUBSET Nat
    BY <1>2
  <2>2. PICK n \in T : \A y \in T : n <= y
    BY <2>1, LeastNatural
  <2>3. n \in 0 .. M /\ n \in Nat /\ ~Numeral(d[n], n, base, A)
    BY <1>2
  <2>4. base \in Nat /\ base > 1
    BY DivideOff
  <2>5. CASE n < base
    <3>1. d[n] = <<Ch(n)>> /\ <<Ch(n)>> = Append(<< >>, Ch(n))
      BY <1>4, <2>3, <2>5, Single
    <3>2. DigitRun(<< >>) /\ Value(<< >>, base) = 0 /\ Len(<< >>) = 0
      BY <2>4, EmptyValue
    <3>3. n \div base = 0
      <4>1. CASE base = 8
        BY <2>3, <2>5, <4>1
      <4>2. CASE base = 10
        BY <2>3, <2>5, <4>2
      <4>3. CASE base = 16
        BY <2>3, <2>5, <4>3
      <4> QED BY <4>1, <4>2, <4>3 DEF Bases
    <3>4. AreDigits(<< >>, base, A)
      BY <3>2 DEF AreDigits
    <3>5. Quotient(<< >>, n, base, A)
      BY <2>5, <3>2, <3>3, <3>4 DEF Quotient
    <3>6. Numeral(Append(<< >>, Ch(n)), n, base, A)
      BY <1>a, <2>3, <3>5, NumeralAppend DEF Ch
    <3> QED BY <2>3, <3>1, <3>6
  <2>6. CASE ~(n < base)
    <3> DEFINE q == n \div base
    <3>1. d[n] = Append(d[q], Ch(n))
      BY <1>4, <2>3, <2>6
    <3>2. q \in Nat /\ q < n /\ q > 0
      BY <2>3, <2>4, <2>6, DivideOff
    <3> HIDE DEF q
    <3>3. q \in 0 .. M /\ ~(n <= q)
      BY <1>2, <2>3, <3>2
    <3>4. Numeral(d[q], q, base, A)
      BY <2>2, <3>3
    <3>5. /\ DigitRun(d[q]) /\ AreDigits(d[q], base, A)
          /\ Value(d[q], base) = n \div base /\ Len(d[q]) >= 1 /\ d[q][1] # "0"
      BY <3>2, <3>4 DEF Numeral, q
    <3>6. Len(d[q]) # 0
      BY <3>5 DEF DigitRun
    <3>7. Quotient(d[q], n, base, A)
      BY <2>6, <3>5, <3>6 DEF Quotient
    <3>8. Numeral(Append(d[q], Ch(n)), n, base, A)
      BY <1>a, <2>3, <3>7, NumeralAppend DEF Ch
    <3> QED BY <2>3, <3>1, <3>8
  <2> QED BY <2>5, <2>6
<1>6. num \in 0 .. M
  BY DEF M
<1> QED BY <1>1, <1>5, <1>6 DEF A
-----------------------------------------------------------------------------
(* A numeral with leading zeros.                                           *)
Stands(s, n, base, A) ==
  DigitRun(s) /\ AreDigits(s, base, A) /\ Value(s, base) = n

ZeroFilled(s, t, z, n, base, A) ==
  /\ Stands(s, n, base, A)
  /\ Len(t) \in Nat /\ Len(s) = Len(t) + (IF z > 0 THEN z ELSE 0)
  /\ z <= 0 => s = t

LEMMA LeadingZeros ==
  ASSUME NEW base \in Bases, NEW A \in Alphabets, NEW t, NEW n, NEW z \in Int,
         Stands(t, n, base, A)
  PROVE  ZeroFilled(Fill("0", z) \o t, t, z, n, base, A)
<1> DEFINE F == Fill("0", z)
<1>1. /\ F \in Seq(Chars) /\ Len(F) = (IF z > 0 THEN z ELSE 0)
      /\ \A k \in 1 .. Len(F) : F[k] = "0"
  BY FillIs, ZeroDigit
<1>2. t \in Seq(Chars) /\ base \in Nat /\ 1 \in 1 .. base /\ A[1] = "0"
  BY ZeroDigit DEF Stands, DigitRun, Bases, Alphabets
<1>3. DigitRun(F \o t) /\ Value(F \o t, base) = n
  <2>1. DigitRun(t) /\ Value(t, base) = n
    BY DEF Stands
  <2>2. DigitRun(F \o t) /\ Value(F \o t, base) = Value(t, base)
    BY <1>2, <2>1, ValueZeros
  <2> QED BY <2>1, <2>2
<1> HIDE DEF F
<1>4. /\ Len(F) \in Nat /\ Len(t) \in Nat /\ Len(F \o t) = Len(F) + Len(t)
      /\ \A k \in 1 .. Len(F) : (F \o t)[k] = F[k]
      /\ \A k \in 1 .. Len(t) : (F \o t)[Len(F) + k] = t[k]
  <2>1. F \in Seq(Chars) /\ t \in Seq(Chars)
    BY <1>1, <1>2
  <2> QED BY <2>1, Join
<1>5. AreDigits(F \o t, base, A)
  <2>1. ASSUME NEW k \in 1 .. Len(F \o t) PROVE \E d \in 1 .. base : (F \o t)[k] = A[d]
    <3>1. CASE k <= Len(F)
      <4>1. k \in 1 .. Len(F)
        BY <1>4, <3>1
      <4>2. (F \o t)[k] = A[1]
        BY <1>1, <1>2, <1>4, <4>1
      <4> QED BY <1>2, <4>2
    <3>2. CASE ~(k <= Len(F))
      <4>1. k - Len(F) \in 1 .. Len(t) /\ Len(F) + (k - Len(F)) = k
        BY <1>4, <3>2
      <4>2. (F \o t)[k] = t[k - Len(F)]
        BY <1>4, <4>1
      <4> QED BY <4>1, <4>2 DEF Stands, AreDigits
    <3> QED BY <3>1, <3>2
  <2> QED BY <2>1 DEF AreDigits
<1>6. z <= 0 => F \o t = t
  <2>1. z <= 0 => Len(F) = 0
    BY <1>1
  <2>2. Len(F) = 0 => F = << >>
    BY <1>1
  <2>3. << >> \o t = t
    BY <1>2
  <2> QED BY <2>1, <2>2, <2>3
<1>7. Len(F \o t) = Len(t) + (IF z > 0 THEN z ELSE 0)
  BY <1>1, <1>4
<1> QED BY <1>3, <1>4, <1>5, <1>6, <1>7 DEF ZeroFilled, Stands, F

(* How a field is laid out: spaces, the sign and the prefix, digits,       *)
(* spaces.                                                                 *)
Blank(s) == s \in Seq(Chars) /\ Spaces(s)

Laid(f, L, m, D, R) ==
  /\ Blank(L) /\ Blank(R) /\ m \in Seq(Chars) /\ D \in Seq(Chars)
  /\ f = (L \o (m \o D)) \o R

Room(used, size) == IF size > used THEN size - used ELSE 0

Shown(f, L, m, D, R, n, base, size, prec, type, A) ==
  /\ Laid(f, L, m, D, R)
  /\ Stands(D, n, base, A)
  /\ Len(D) >= 1 /\ Len(D) >= prec
  /\ \/ Len(D) = 1 \/ Len(D) = prec \/ D[1] # "0"
     \/ "LEFT" \notin type /\ "ZEROPAD" \in type /\ Len(m) + Len(D) = size
  /\ Len(L) > 0 => "LEFT" \notin type
  /\ Len(R) > 0 => "LEFT" \in type
  /\ Len(L) + Len(R) = Room(Len(m) + Len(D), size)

LEMMA BlankFill ==
  ASSUME NEW n \in Int
  PROVE  Blank(Fill(" ", n)) /\ Len(Fill(" ", n)) = IF n > 0 THEN n ELSE 0
BY FillIs DEF Blank, Spaces, Chars

LEMMA BlankEmpty == Blank(<< >>) /\ Len(<< >>) = 0
BY DEF Blank, Spaces

LEMMA EmptyEnds ==
  ASSUME NEW S, NEW s \in Seq(S)
  PROVE  << >> \o s = s /\ s \o << >> = s
OBVIOUS

Magnitude(num, type) == IF "SIGN" \in type /\ Signed(num) < 0 THEN Word - num ELSE num

LEMMA MagnitudeInRange ==
  ASSUME NEW num \in 0 .. Word - 1, NEW type
  PROVE  Magnitude(num, type) \in 0 .. Word - 1
BY PrintfAssumption DEF Magnitude, Signed

LEMMA MarkChars ==
  ASSUME NEW num, NEW base, NEW type
  PROVE  Sign(num, type) \in Seq(Chars) /\ Prefix(base, type) \in Seq(Chars)
<1>1. /\ << >> \in Seq(Chars) /\ <<"-">> \in Seq(Chars) /\ <<"+">> \in Seq(Chars)
      /\ <<" ">> \in Seq(Chars) /\ <<"0">> \in Seq(Chars)
      /\ <<"0", "x">> \in Seq(Chars) /\ <<"0", "X">> \in Seq(Chars)
  BY DEF Chars
<1> QED BY <1>1 DEF Sign, Prefix
(* The digits before the field is filled.                                  *)
Body(D, n, base, prec, A) ==
  /\ Stands(D, n, base, A)
  /\ Len(D) >= 1 /\ Len(D) >= prec
  /\ Len(D) = 1 \/ Len(D) = prec \/ D[1] # "0"

LEMMA Regroup ==
  ASSUME NEW S, NEW a \in Seq(S), NEW b \in Seq(S), NEW c \in Seq(S)
  PROVE  (a \o b) \o c = a \o (b \o c) /\ a \o b \in Seq(S)
OBVIOUS

LEMMA PadRoom ==
  ASSUME NEW used \in Nat, NEW size \in Int
  PROVE  /\ (IF size - used > 0 THEN size - used ELSE 0) = Room(used, size)
         /\ Room(used, size) \in Nat
         /\ Room(used, size) + used = size \/ (Room(used, size) = 0 /\ size <= used)
         /\ Room(used + Room(used, size), size) = 0
BY DEF Room

LEMMA JoinThree ==
  ASSUME NEW a \in Seq(Chars), NEW b \in Seq(Chars), NEW c \in Seq(Chars)
  PROVE  /\ (a \o b) \o c = a \o (b \o c)
         /\ b \o c \in Seq(Chars) /\ a \o (b \o c) \in Seq(Chars)
<1>1. (a \o b) \o c = a \o (b \o c)
  BY Regroup
<1>2. b \o c \in Seq(Chars)
  BY Join
<1>3. a \o (b \o c) \in Seq(Chars)
  BY <1>2, Join
<1> QED BY <1>1, <1>2, <1>3

LEMMA JustifyShown ==
  ASSUME NEW m \in Seq(Chars), NEW D, NEW n, NEW base \in Bases, NEW size \in Int,
         NEW prec \in Int, NEW type, NEW A \in Alphabets,
         Body(D, n, base, prec, A)
  PROVE  \E L, E, R : Shown(Justify(m, D, size - (Len(m) + Len(D)), type), L, m, E, R,
                            n, base, size, prec, type, A)
<1> DEFINE used == Len(m) + Len(D)
           pad  == size - used
           room == Room(used, size)
           f    == Justify(m, D, pad, type)
           e    == << >>
<1>1. D \in Seq(Chars) /\ Len(D) \in Nat /\ Len(m) \in Nat /\ used \in Nat /\ pad \in Int
  BY DEF Body, Stands, DigitRun
<1>2. /\ (IF pad > 0 THEN pad ELSE 0) = room /\ room \in Nat
      /\ room + used = size \/ (room = 0 /\ size <= used)
      /\ Room(used + room, size) = 0
  BY <1>1, PadRoom
<1> HIDE DEF pad, room
<1>3. /\ Stands(D, n, base, A) /\ Len(D) >= 1 /\ Len(D) >= prec
      /\ Len(D) = 1 \/ Len(D) = prec \/ D[1] # "0"
  BY DEF Body
<1>4. Blank(Fill(" ", pad)) /\ Len(Fill(" ", pad)) = room /\ Fill(" ", pad) \in Seq(Chars)
  BY <1>1, <1>2, BlankFill DEF Blank
<1>5. /\ Blank(e) /\ Len(e) = 0 /\ e \in Seq(Chars)
      /\ \A s \in Seq(Chars) : e \o s = s /\ s \o e = s
  BY BlankEmpty, EmptyEnds DEF Blank
<1> HIDE DEF e
<1>6. m \o D \in Seq(Chars)
  BY <1>1, Join
<1>7. CASE "LEFT" \in type
  <2> DEFINE R == Fill(" ", pad)
  <2>1. f = (m \o D) \o R
    BY <1>7 DEF Justify
  <2>2. f = (e \o (m \o D)) \o R
    BY <1>5, <1>6, <2>1
  <2>3. Laid(f, e, m, D, R)
    BY <1>1, <1>4, <1>5, <2>2 DEF Laid
  <2> HIDE DEF f, R
  <2>4. Len(e) + Len(R) = room
    <3>1. Len(e) = 0 /\ Len(R) = room
      BY <1>4, <1>5 DEF R
    <3> QED BY <1>2, <3>1
  <2>5. Shown(f, e, m, D, R, n, base, size, prec, type, A)
    BY <1>3, <1>5, <1>7, <2>3, <2>4 DEF Shown, room
  <2> QED BY <2>5 DEF f, pad
<1>8. CASE "LEFT" \notin type /\ "ZEROPAD" \notin type
  <2> DEFINE L == Fill(" ", pad)
  <2>1. f = (L \o m) \o D
    BY <1>8 DEF Justify
  <2>2. (L \o m) \o D = L \o (m \o D) /\ L \o (m \o D) \in Seq(Chars)
    <3>1. L \in Seq(Chars) /\ D \in Seq(Chars)
      BY <1>1, <1>4
    <3> QED BY <3>1, JoinThree
  <2>3. f = (L \o (m \o D)) \o e
    BY <1>5, <2>1, <2>2
  <2>4. Laid(f, L, m, D, e)
    BY <1>1, <1>4, <1>5, <2>3 DEF Laid
  <2> HIDE DEF f, L
  <2>5. Len(L) + Len(e) = room
    <3>1. Len(e) = 0 /\ Len(L) = room
      BY <1>4, <1>5 DEF L
    <3> QED BY <1>2, <3>1
  <2>6. Shown(f, L, m, D, e, n, base, size, prec, type, A)
    BY <1>3, <1>5, <1>8, <2>4, <2>5 DEF Shown, room
  <2> QED BY <2>6 DEF f, pad
<1>9. CASE "LEFT" \notin type /\ "ZEROPAD" \in type
  <2> DEFINE Z == Fill("0", pad)
             E == Z \o D
  <2>1. f = (m \o Z) \o D
    BY <1>9 DEF Justify
  <2>2. Z \in Seq(Chars)
    BY <1>1, FillIs, ZeroDigit
  <2>3. /\ Stands(E, n, base, A)
        /\ Len(E) = Len(D) + room /\ (pad <= 0 => E = D)
    <3>1. pad \in Int
      BY <1>1
    <3>2. ZeroFilled(E, D, pad, n, base, A)
      BY <1>3, <3>1, LeadingZeros
    <3> QED BY <1>2, <3>2 DEF ZeroFilled
  <2>4. (m \o Z) \o D = m \o E /\ m \o E \in Seq(Chars) /\ E \in Seq(Chars)
    <3>1. E \in Seq(Chars)
      BY <1>1, <2>2, Join
    <3>2. D \in Seq(Chars)
      BY <1>1
    <3> QED BY <2>2, <3>1, <3>2, JoinThree
  <2>5. f = (e \o (m \o E)) \o e
    BY <1>5, <2>1, <2>4
  <2>6. Laid(f, e, m, E, e)
    BY <1>5, <2>4, <2>5 DEF Laid
  <2> HIDE DEF f, E
  <2>7. Len(E) >= 1 /\ Len(E) >= prec
    BY <1>1, <1>2, <1>3, <2>3
  <2>8. Len(m) + Len(E) = used + room
    BY <1>1, <1>2, <2>3
  <2>9. \/ Len(E) = 1 \/ Len(E) = prec \/ E[1] # "0"
        \/ Len(m) + Len(E) = size
    <3>1. CASE pad <= 0
      BY <1>3, <2>3, <3>1
    <3>2. CASE ~(pad <= 0)
      <4>1. room + used = size
        BY <1>1, <1>2, <3>2 DEF pad
      <4> QED BY <1>1, <1>2, <2>8, <4>1
    <3> QED BY <3>1, <3>2
  <2>10. Len(e) + Len(e) = Room(Len(m) + Len(E), size)
    BY <1>2, <1>5, <2>8
  <2>11. Shown(f, e, m, E, e, n, base, size, prec, type, A)
    BY <1>5, <1>9, <2>3, <2>6, <2>7, <2>9, <2>10 DEF Shown
  <2> QED BY <2>11 DEF f, pad
<1> QED BY <1>7, <1>8, <1>9
LEMMA BodyIs ==
  ASSUME NEW base \in Bases, NEW A \in Alphabets, NEW t, NEW n \in Nat, NEW prec \in Int,
         Numeral(t, n, base, A)
  PROVE  Body(Fill("0", prec - Len(t)) \o t, n, base, prec, A)
<1> DEFINE z == prec - Len(t)
           s == Fill("0", z) \o t
<1>1. /\ Stands(t, n, base, A) /\ Len(t) >= 1
      /\ Len(t) = 1 \/ t[1] # "0"
  BY DEF Numeral, Stands
<1>2. Len(t) \in Nat /\ z \in Int
  BY <1>1 DEF Stands, DigitRun
<1> HIDE DEF z
<1>3. ZeroFilled(s, t, z, n, base, A)
  BY <1>1, <1>2, LeadingZeros
<1> HIDE DEF s
<1>4. Stands(s, n, base, A) /\ Len(s) = Len(t) + (IF z > 0 THEN z ELSE 0) /\ (z <= 0 => s = t)
  BY <1>3 DEF ZeroFilled
<1>5. CASE z > 0
  <2>1. Len(s) = prec /\ prec >= 1
    BY <1>1, <1>2, <1>4, <1>5 DEF z
  <2> QED BY <1>4, <2>1 DEF Body, s, z
<1>6. CASE ~(z > 0)
  <2>1. s = t /\ Len(t) >= prec
    BY <1>2, <1>4, <1>6 DEF z
  <2> QED BY <1>1, <1>4, <2>1 DEF Body, s, z
<1> QED BY <1>5, <1>6

(* The field number writes, for every word, base, width, precision and     *)
(* set of flags.                                                           *)
Mark(num, base, type) == Sign(num, type) \o Prefix(base, type)

LEMMA NumberShown ==
  ASSUME NEW base \in Bases, NEW num \in 0 .. Word - 1, NEW size \in Int, NEW prec \in Int,
         NEW type
  PROVE  \E L, D, R :
           Shown(number(num, base, size, prec, type), L, Mark(num, base, type), D, R,
                 Magnitude(num, type), base, size, prec, type, Alphabet("SMALL" \in type))
<1> DEFINE A == Alphabet("SMALL" \in type)
           n == Magnitude(num, type)
           sign == Sign(num, type)
           prefix == Prefix(base, type)
           m == sign \o prefix
           t == tmp(n, base, "SMALL" \in type)
           zeros == Fill("0", prec - Len(t))
           D == zeros \o t
<1>1. A \in Alphabets
  BY DEF Alphabet, Alphabets
<1>2. n \in 0 .. Word - 1 /\ n \in Nat
  BY MagnitudeInRange, PrintfAssumption
<1>3. Numeral(t, n, base, A)
  BY <1>2, TmpNumeral
<1>4. sign \in Seq(Chars) /\ prefix \in Seq(Chars)
  BY MarkChars
<1>5. number(num, base, size, prec, type)
        = Justify(m, D, size - Len(sign) - Len(prefix) - Len(zeros) - Len(t), type)
  BY DEF number, Magnitude
<1> HIDE DEF A, n, sign, prefix, t
<1>6. m \in Seq(Chars) /\ Len(m) = Len(sign) + Len(prefix) /\ Len(sign) \in Nat
      /\ Len(prefix) \in Nat
  BY <1>4, Join
<1>7. Body(D, n, base, prec, A)
  BY <1>1, <1>2, <1>3, BodyIs
<1>8. t \in Seq(Chars) /\ zeros \in Seq(Chars)
  <2>1. t \in Seq(Chars)
    BY <1>3 DEF Numeral, DigitRun
  <2>2. prec - Len(t) \in Int
    BY <2>1
  <2> QED BY <2>1, <2>2, FillIs, ZeroDigit
<1> HIDE DEF zeros, m
<1>9. Len(D) = Len(zeros) + Len(t) /\ Len(zeros) \in Nat /\ Len(t) \in Nat
  BY <1>8, Join
<1> HIDE DEF D
<1>10. size - Len(sign) - Len(prefix) - Len(zeros) - Len(t) = size - (Len(m) + Len(D))
  BY <1>6, <1>9
<1>11. \E L, E, R : Shown(Justify(m, D, size - (Len(m) + Len(D)), type), L, m, E, R,
                          n, base, size, prec, type, A)
  BY <1>1, <1>6, <1>7, JustifyShown
<1>12. m = Mark(num, base, type)
  BY DEF m, sign, prefix, Mark
<1> QED BY <1>5, <1>10, <1>11, <1>12 DEF A, n
-----------------------------------------------------------------------------
(* The parts of a field are found again in it.                             *)
LEMMA Parts ==
  ASSUME NEW S, NEW a \in Seq(S), NEW b \in Seq(S), NEW c \in Seq(S)
  PROVE  LET f == (a \o b) \o c
         IN  /\ f \in Seq(S) /\ Len(f) = Len(a) + Len(b) + Len(c)
             /\ Len(a) \in Nat /\ Len(b) \in Nat /\ Len(c) \in Nat
             /\ SubSeq(f, 1, Len(a)) = a
             /\ SubSeq(f, Len(a) + 1, Len(a) + Len(b)) = b
             /\ SubSeq(f, Len(a) + Len(b) + 1, Len(f)) = c
<1>1. SubSeq((a \o b) \o c, 1, Len(a)) = a
  OBVIOUS
<1>2. SubSeq((a \o b) \o c, Len(a) + 1, Len(a) + Len(b)) = b
  OBVIOUS
<1>3. SubSeq((a \o b) \o c, Len(a) + Len(b) + 1, Len((a \o b) \o c)) = c
  OBVIOUS
<1>4. (a \o b) \o c \in Seq(S) /\ Len((a \o b) \o c) = Len(a) + Len(b) + Len(c)
  OBVIOUS
<1>5. Len(a) \in Nat /\ Len(b) \in Nat /\ Len(c) \in Nat
  OBVIOUS
<1> QED BY <1>1, <1>2, <1>3, <1>4, <1>5

(* A text between spaces fills the width from one side.                    *)
Sided(L, R) == (Len(L) > 0 => "LEFT" \notin flags) /\ (Len(R) > 0 => "LEFT" \in flags)

LEMMA SpacedText ==
  ASSUME NEW L, NEW R, NEW x \in Seq(Chars), NEW width \in Int, Blank(L), Blank(R),
         Sided(L, R), Len(L) + Len(R) = Room(Len(x), width)
  PROVE  PaddedTo((L \o x) \o R, width, x)
<1> DEFINE f == (L \o x) \o R
           l == Len(L)
           r == Len(R)
           n == Len(x)
<1>1. L \in Seq(Chars) /\ R \in Seq(Chars) /\ Spaces(L) /\ Spaces(R)
  BY DEF Blank
<1>2. /\ Len(f) = l + n + r /\ l \in Nat /\ n \in Nat /\ r \in Nat
      /\ SubSeq(f, 1, l) = L
      /\ SubSeq(f, l + 1, l + n) = x
      /\ SubSeq(f, l + n + 1, Len(f)) = R
  BY <1>1, Parts
<1> HIDE DEF f
<1>3. Sided(L, R) /\ l + r = Room(n, width)
  OBVIOUS
<1>4. l > 0 => "LEFT" \notin flags
  BY DEF Sided
<1>5. r > 0 => "LEFT" \in flags
  BY DEF Sided
<1> HIDE DEF l, r, n
<1>6. /\ l \in 0 .. Len(f) /\ r \in 0 .. Len(f) /\ l + r <= Len(f)
      /\ Len(f) - r = l + n /\ Len(f) - r + 1 = l + n + 1
  BY <1>2
<1>7. Len(f) = IF width > n THEN width ELSE n
  BY <1>2, <1>3 DEF Room
<1>8. Spaces(SubSeq(f, 1, l)) /\ Spaces(SubSeq(f, Len(f) - r + 1, Len(f)))
  BY <1>1, <1>2, <1>6
<1>9. SubSeq(f, l + 1, Len(f) - r) = x
  BY <1>2, <1>6
<1>10. PaddedTo(f, width, x)
  <2>1. Len(f) = IF width > Len(x) THEN width ELSE Len(x)
    BY <1>7 DEF n
  <2> QED BY <1>4, <1>5, <1>6, <1>8, <1>9, <2>1 DEF PaddedTo
<1> QED BY <1>10 DEF f

LEMMA LaidParts ==
  ASSUME NEW f, NEW L, NEW m, NEW D, NEW R, Laid(f, L, m, D, R), Len(D) >= 1
  PROVE  LET i == Len(L) + Len(m)
             n == Len(D)
         IN  /\ n \in 1 .. Len(f) /\ i \in 0 .. Len(f) - n
             /\ SubSeq(f, i + 1, i + n) = D
             /\ Len(f) = (Len(L) + Len(R)) + (Len(m) + Len(D))
<1>1. /\ L \in Seq(Chars) /\ R \in Seq(Chars) /\ m \in Seq(Chars) /\ D \in Seq(Chars)
      /\ f = (L \o (m \o D)) \o R
  BY DEF Laid, Blank
<1>2. Len(L) \in Nat /\ Len(m) \in Nat /\ Len(D) \in Nat /\ Len(R) \in Nat
  BY <1>1
<1>3. f = ((L \o m) \o D) \o R /\ L \o m \in Seq(Chars) /\ Len(L \o m) = Len(L) + Len(m)
  <2>1. L \o (m \o D) = (L \o m) \o D
    BY <1>1, JoinThree
  <2>2. L \o m \in Seq(Chars) /\ Len(L \o m) = Len(L) + Len(m)
    BY <1>1, Join
  <2> QED BY <1>1, <2>1, <2>2
<1> DEFINE a == L \o m
<1>4. Len(a) = Len(L) + Len(m) /\ a \in Seq(Chars) /\ f = (a \o D) \o R
  BY <1>3
<1> HIDE DEF a
<1>5. Len(f) = Len(a) + Len(D) + Len(R) /\ SubSeq(f, Len(a) + 1, Len(a) + Len(D)) = D
  <2>1. a \in Seq(Chars) /\ D \in Seq(Chars) /\ R \in Seq(Chars)
    BY <1>1, <1>4
  <2> DEFINE g == (a \o D) \o R
  <2>2. Len(g) = Len(a) + Len(D) + Len(R) /\ SubSeq(g, Len(a) + 1, Len(a) + Len(D)) = D
    BY <2>1, Parts
  <2>3. f = g
    BY <1>4
  <2> HIDE DEF g
  <2> QED BY <2>2, <2>3
<1> QED BY <1>2, <1>4, <1>5
-----------------------------------------------------------------------------
(* The strings.                                                            *)
LEMMA StringChars ==
  ASSUME NEW s \in Seq(STRING)
  PROVE  s \in Seq(Chars)
<1>1. STRING \subseteq Chars
  BY DEF Chars
<1>2. \A S, T : S \subseteq T => \A r \in Seq(S) : r \in Seq(T)
  OBVIOUS
<1> QED BY <1>1, <1>2

AppendsLast(o, a, c) == Append(o \o a, c) = o \o Append(a, c)

LEMMA AppendJoin ==
  ASSUME NEW S, NEW o \in Seq(S), NEW a \in Seq(S), NEW c \in S
  PROVE  AppendsLast(o, a, c)
BY DEF AppendsLast

LEMMA NextChar ==
  ASSUME NEW S, NEW o \in Seq(S), NEW x \in Seq(S), NEW i \in 1 .. Len(x)
  PROVE  /\ Append(o \o SubSeq(x, 1, i - 1), x[i]) = o \o SubSeq(x, 1, i)
         /\ o \o SubSeq(x, 1, 0) = o
<1>1. o \o SubSeq(x, 1, 0) = o
  OBVIOUS
<1>2. Append(o \o SubSeq(x, 1, i - 1), x[i]) = o \o SubSeq(x, 1, i)
  <2> DEFINE a == SubSeq(x, 1, i - 1)
             b == SubSeq(x, 1, i)
  <2>1. /\ a \in Seq(S) /\ Len(a) = i - 1 /\ b \in Seq(S) /\ Len(b) = i /\ x[i] \in S
        /\ \A k \in 1 .. i - 1 : a[k] = x[k]
        /\ \A k \in 1 .. i : b[k] = x[k]
    OBVIOUS
  <2> HIDE DEF a, b
  <2>2. b = Append(a, x[i])
    <3>1. Append(a, x[i]) \in Seq(S) /\ Len(Append(a, x[i])) = i
      BY <2>1
    <3>2. \A k \in 1 .. i : Append(a, x[i])[k] = b[k]
      BY <2>1
    <3> QED BY <2>1, <3>1, <3>2
  <2>3. Append(o \o a, x[i]) = o \o Append(a, x[i])
    <3>1. a \in Seq(S) /\ x[i] \in S
      BY <2>1
    <3>2. AppendsLast(o, a, x[i])
      BY <3>1, AppendJoin
    <3> QED BY <3>2 DEF AppendsLast
  <2> QED BY <2>2, <2>3 DEF a, b
<1> QED BY <1>1, <1>2

(* A string apart from the buffer is copied behind what was written.       *)
LEMMA CopyApart ==
  ASSUME NEW a, a.kind # "own", NEW o \in Seq(Chars), NEW s \in Seq(Chars), NEW len \in Nat,
         len <= Len(s)
  PROVE  Copied(o, s, a.kind = "own", len) = o \o SubSeq(s, 1, len)
<1> DEFINE B(f) == [i \in 0 .. len |->
                      IF i = 0 THEN o
                      ELSE Append(f[i - 1], IF a.kind = "own" THEN Buf(f[i - 1])[i] ELSE s[i])]
           C(f) == [i \in 0 .. len |-> IF i = 0 THEN o ELSE Append(f[i - 1], s[i])]
           str == CHOOSE f : f = B(f)
           g == [i \in 0 .. len |-> o \o SubSeq(s, 1, i)]
<1>1. Copied(o, s, a.kind = "own", len) = str[len]
  BY Zenon DEF Copied
<1>2. ASSUME NEW f PROVE B(f) = C(f)
  OBVIOUS
<1>3. /\ \A i \in 1 .. len : Append(o \o SubSeq(s, 1, i - 1), s[i]) = o \o SubSeq(s, 1, i)
      /\ o \o SubSeq(s, 1, 0) = o
  <2>1. \A i \in 1 .. len : i \in 1 .. Len(s)
    OBVIOUS
  <2>2. o \o SubSeq(s, 1, 0) = o
    OBVIOUS
  <2> QED BY <2>1, <2>2, NextChar
<1>4. g = C(g)
  <2>1. ASSUME NEW i \in 0 .. len PROVE g[i] = C(g)[i]
    <3>1. CASE i = 0
      BY <1>3, <3>1
    <3>2. CASE i # 0
      <4>1. i \in 1 .. len /\ i - 1 \in 0 .. len
        BY <3>2
      <4>2. g[i - 1] = o \o SubSeq(s, 1, i - 1) /\ g[i] = o \o SubSeq(s, 1, i)
        BY <4>1
      <4>3. C(g)[i] = Append(g[i - 1], s[i])
        BY <3>2
      <4> HIDE DEF g, C
      <4> QED BY <1>3, <4>1, <4>2, <4>3
    <3> QED BY <3>1, <3>2
  <2>2. g = [i \in 0 .. len |-> g[i]] /\ C(g) = [i \in 0 .. len |-> C(g)[i]]
    OBVIOUS
  <2> HIDE DEF g, C
  <2> QED BY <2>1, <2>2
<1> HIDE DEF B, C
<1>5. str = C(str)
  <2>1. g = B(g)
    BY <1>2, <1>4
  <2>2. str = B(str)
    BY <2>1
  <2> QED BY <1>2, <2>2
<1>6. ASSUME NEW f, f = C(f)
      PROVE  f[0] = o /\ \A i \in 1 .. len : f[i] = Append(f[i - 1], s[i])
  <2>1. C(f)[0] = o
    BY DEF C
  <2>2. ASSUME NEW i \in 1 .. len PROVE C(f)[i] = Append(f[i - 1], s[i])
    BY DEF C
  <2> QED BY <1>6, <2>1, <2>2
<1>7. str[0] = o /\ \A i \in 1 .. len : str[i] = Append(str[i - 1], s[i])
  BY <1>5, <1>6
<1> HIDE DEF str
<1> DEFINE T == {i \in Nat : i <= len => str[i] = o \o SubSeq(s, 1, i)}
<1>8. 0 \in T
  BY <1>3, <1>7
<1>9. ASSUME NEW i \in Nat, i \in T PROVE i + 1 \in T
  <2> SUFFICES ASSUME i + 1 <= len PROVE str[i + 1] = o \o SubSeq(s, 1, i + 1)
    OBVIOUS
  <2>1. i + 1 \in 1 .. len /\ (i + 1) - 1 = i /\ str[i] = o \o SubSeq(s, 1, i)
    BY <1>9
  <2>2. str[i + 1] = Append(str[i], s[i + 1])
    BY <1>7, <2>1
  <2>3. Append(o \o SubSeq(s, 1, i), s[i + 1]) = o \o SubSeq(s, 1, i + 1)
    BY <1>3, <2>1
  <2> QED BY <2>1, <2>2, <2>3
<1>10. Nat \subseteq T
  <2> HIDE DEF T
  <2> QED BY <1>8, <1>9, SetInduction
<1>11. str[len] = o \o SubSeq(s, 1, len)
  BY <1>10
<1> QED BY <1>1, <1>11
(* The buffer copied to its own start is read before it is overwritten.    *)
LEMMA BufNext ==
  ASSUME NEW i \in 1 .. Len(Old)
  PROVE  /\ Append(SubSeq(Old, 1, i - 1), Buf(SubSeq(Old, 1, i - 1))[i]) = SubSeq(Old, 1, i)
         /\ SubSeq(Old, 1, 0) = << >>
<1> DEFINE x == SubSeq(Old, 1, i - 1)
           y == SubSeq(Old, i, Len(Old))
<1>0. Old \in Seq(Chars)
  BY PrintfAssumption, StringChars
<1>1. /\ x \in Seq(Chars) /\ Len(x) = i - 1 /\ y \in Seq(Chars) /\ 1 \in 1 .. Len(y)
      /\ y[1] = Old[i]
  BY <1>0
<1>2. Buf(x) = x \o y
  <2>1. Len(x) + 1 = i
    BY <1>1
  <2>2. Buf(x) = x \o SubSeq(Old, Len(x) + 1, Len(Old))
    BY DEF Buf
  <2> HIDE DEF x
  <2> QED BY <2>1, <2>2
<1>e. << >> \in Seq(Chars) /\ SubSeq(Old, 1, 0) = << >>
  BY <1>0
<1>3. Append(<< >> \o x, Old[i]) = << >> \o SubSeq(Old, 1, i)
  BY <1>0, <1>e, NextChar
<1>4. x \in Seq(Chars) /\ SubSeq(Old, 1, i) \in Seq(Chars)
  BY <1>0
<1>5. << >> \o x = x /\ << >> \o SubSeq(Old, 1, i) = SubSeq(Old, 1, i)
  BY <1>4, EmptyEnds
<1>6. Append(x, Old[i]) = SubSeq(Old, 1, i)
  BY <1>3, <1>5
<1> HIDE DEF x, y
<1>7. (x \o y)[Len(x) + 1] = y[1]
  BY <1>1, Join
<1>8. Len(x) + 1 = i
  BY <1>1
<1>9. Buf(x)[i] = Old[i]
  BY <1>1, <1>2, <1>7, <1>8
<1> QED BY <1>e, <1>6, <1>9 DEF x

LEMMA CopyOwn ==
  ASSUME NEW a, a.kind = "own", NEW s
  PROVE  Copied(<< >>, s, a.kind = "own", Len(Old)) = Old
<1> DEFINE len == Len(Old)
           B(f) == [i \in 0 .. len |->
                      IF i = 0 THEN << >>
                      ELSE Append(f[i - 1], IF a.kind = "own" THEN Buf(f[i - 1])[i] ELSE s[i])]
           C(f) == [i \in 0 .. len |-> IF i = 0 THEN << >>
                                       ELSE Append(f[i - 1], Buf(f[i - 1])[i])]
           str == CHOOSE f : f = B(f)
           g == [i \in 0 .. len |-> SubSeq(Old, 1, i)]
<1>0. Old \in Seq(Chars) /\ len \in Nat /\ SubSeq(Old, 1, 0) = << >> /\ SubSeq(Old, 1, len) = Old
  <2>1. Old \in Seq(Chars)
    BY PrintfAssumption, StringChars
  <2> QED BY <2>1
<1>1. Copied(<< >>, s, a.kind = "own", len) = str[len]
  BY Zenon DEF Copied
<1>2. ASSUME NEW f PROVE B(f) = C(f)
  OBVIOUS
<1>3. \A i \in 1 .. len :
        Append(SubSeq(Old, 1, i - 1), Buf(SubSeq(Old, 1, i - 1))[i]) = SubSeq(Old, 1, i)
  BY BufNext
<1> HIDE DEF len
<1>4. g = C(g)
  <2>1. ASSUME NEW i \in 0 .. len PROVE g[i] = C(g)[i]
    <3>1. CASE i = 0
      BY <1>0, <3>1
    <3>2. CASE i # 0
      <4>1. i \in 1 .. len /\ i - 1 \in 0 .. len
        BY <1>0, <3>2
      <4>2. g[i - 1] = SubSeq(Old, 1, i - 1) /\ g[i] = SubSeq(Old, 1, i)
        BY <4>1
      <4>3. C(g)[i] = Append(g[i - 1], Buf(g[i - 1])[i])
        BY <3>2
      <4> HIDE DEF g, C
      <4> QED BY <1>3, <4>1, <4>2, <4>3
    <3> QED BY <3>1, <3>2
  <2>2. g = [i \in 0 .. len |-> g[i]] /\ C(g) = [i \in 0 .. len |-> C(g)[i]]
    OBVIOUS
  <2> HIDE DEF g, C
  <2> QED BY <2>1, <2>2
<1> HIDE DEF B, C
<1>5. str = C(str)
  <2>1. g = B(g)
    BY <1>2, <1>4
  <2>2. str = B(str)
    BY <2>1
  <2> QED BY <1>2, <2>2
<1>6. ASSUME NEW f, f = C(f)
      PROVE  f[0] = << >> /\ \A i \in 1 .. len : f[i] = Append(f[i - 1], Buf(f[i - 1])[i])
  <2>1. C(f)[0] = << >>
    BY <1>0 DEF C
  <2>2. ASSUME NEW i \in 1 .. len PROVE C(f)[i] = Append(f[i - 1], Buf(f[i - 1])[i])
    BY <1>0 DEF C
  <2> QED BY <1>6, <2>1, <2>2
<1>7. str[0] = << >> /\ \A i \in 1 .. len : str[i] = Append(str[i - 1], Buf(str[i - 1])[i])
  BY <1>5, <1>6
<1> HIDE DEF str
<1> DEFINE T == {i \in Nat : i <= len => str[i] = SubSeq(Old, 1, i)}
<1>8. 0 \in T
  BY <1>0, <1>7
<1>9. ASSUME NEW i \in Nat, i \in T PROVE i + 1 \in T
  <2> SUFFICES ASSUME i + 1 <= len PROVE str[i + 1] = SubSeq(Old, 1, i + 1)
    OBVIOUS
  <2>1. i + 1 \in 1 .. len /\ (i + 1) - 1 = i /\ str[i] = SubSeq(Old, 1, i)
    BY <1>0, <1>9
  <2>2. str[i + 1] = Append(str[i], Buf(str[i])[i + 1])
    BY <1>7, <2>1
  <2>3. Append(SubSeq(Old, 1, i), Buf(SubSeq(Old, 1, i))[i + 1]) = SubSeq(Old, 1, i + 1)
    BY <1>3, <2>1
  <2> QED BY <2>1, <2>2, <2>3
<1>10. Nat \subseteq T
  <2> HIDE DEF T
  <2> QED BY <1>8, <1>9, SetInduction
<1>11. str[len] = SubSeq(Old, 1, len)
  BY <1>0, <1>10
<1> QED BY <1>0, <1>1, <1>11 DEF len
-----------------------------------------------------------------------------
(* The numbers in a format are numbers.                                    *)
LEMMA DigitValues ==
  ASSUME NEW c, isdigit(c)
  PROVE  DigitValue(c) \in Nat
<1>1. PICK k \in 1 .. 10 : Decimal[k] = c
  BY DEF isdigit
<1> DEFINE j == CHOOSE i \in 1 .. 10 : Decimal[i] = c
<1>2. j \in 1 .. 10
  BY <1>1
<1>3. DigitValue(c) = j - 1
  BY DEF DigitValue
<1> HIDE DEF j
<1> QED BY <1>2, <1>3

LEMMA SkipAtoi ==
  ASSUME FormatOK, NEW p \in Nat, p >= 1, p <= Len(fmt) + 1
  PROVE  skip_atoi(p) \in Nat
<1> DEFINE N == AfterDigits(p) - p
           V(k) == DigitValue(At(p + k - 1))
           F(f) == [k \in 0 .. N |-> IF k = 0 THEN 0 ELSE f[k - 1] * 10 + V(k)]
           val == CHOOSE f : f = F(f)
           step == [q \in Nat \X Nat |-> IF q[1] \in 1 .. N THEN q[2] * 10 + V(q[1]) ELSE 0]
<1>1. skip_atoi(p) = val[N]
  BY Zenon DEF skip_atoi
<1>2. N \in Nat /\ \A k \in 1 .. N : V(k) \in Nat
  <2>1. /\ AfterDigits(p) \in p .. Len(fmt) + 1
        /\ \A k \in p .. AfterDigits(p) - 1 : isdigit(At(k))
    BY DigitsEnd
  <2>2. Len(fmt) \in Nat
    BY DEF FormatOK
  <2>3. N \in Nat /\ \A k \in 1 .. N : p + k - 1 \in p .. AfterDigits(p) - 1
    BY <2>1, <2>2
  <2> HIDE DEF N
  <2> QED BY <2>1, <2>3, DigitValues
<1> HIDE DEF N, V
<1>3. step \in [Nat \X Nat -> Nat] /\ 0 \in Nat
  BY <1>2
<1>4. \E g \in [0 .. N -> Nat] : Recursive(g, N, 0, step)
  <2> HIDE DEF step
  <2> QED BY <1>2, <1>3, RecursiveFunction
<1>5. PICK g \in [0 .. N -> Nat] : Recursive(g, N, 0, step)
  BY <1>4
<1>6. g[0] = 0
  BY <1>5 DEF Recursive
<1>7. ASSUME NEW k \in 1 .. N PROVE g[k] = g[k - 1] * 10 + V(k)
  <2>1. k \in Nat /\ k - 1 \in 0 .. N
    BY <1>2
  <2>2. g[k - 1] \in Nat /\ g[k] = step[<<k, g[k - 1]>>]
    BY <1>5, <2>1 DEF Recursive
  <2> QED BY <2>1, <2>2
<1>8. g = F(g)
  <2>1. ASSUME NEW k \in 0 .. N PROVE g[k] = F(g)[k]
    <3>1. CASE k = 0
      BY <1>6, <3>1
    <3>2. CASE k # 0
      <4>1. k \in 1 .. N
        BY <1>2, <3>2
      <4> QED BY <1>7, <3>2, <4>1
    <3> QED BY <3>1, <3>2
  <2> QED BY <2>1
<1>9. val = F(val)
  <2> HIDE DEF F
  <2> QED BY <1>8
<1> HIDE DEF val
<1>10. ASSUME NEW f, f = F(f)
       PROVE  f[0] = 0 /\ \A k \in 1 .. N : f[k] = f[k - 1] * 10 + V(k)
  <2>1. \A k \in 1 .. N : k \in 0 .. N /\ k # 0
    BY <1>2
  <2>2. 0 \in 0 .. N
    BY <1>2
  <2> QED BY <1>10, <2>1, <2>2
<1>11. val[0] = 0 /\ \A k \in 1 .. N : val[k] = val[k - 1] * 10 + V(k)
  <2> HIDE DEF F
  <2> QED BY <1>9, <1>10
<1> DEFINE T == {k \in Nat : k <= N => val[k] \in Nat}
<1>12. 0 \in T
  BY <1>11
<1>13. ASSUME NEW k \in Nat, k \in T PROVE k + 1 \in T
  <2> SUFFICES ASSUME k + 1 <= N PROVE val[k + 1] \in Nat
    OBVIOUS
  <2>1. k + 1 \in 1 .. N /\ (k + 1) - 1 = k /\ val[k] \in Nat
    BY <1>2, <1>13
  <2>2. val[k + 1] = val[k] * 10 + V(k + 1) /\ V(k + 1) \in Nat
    BY <1>2, <1>11, <2>1
  <2> QED BY <2>1, <2>2
<1>14. Nat \subseteq T
  <2> HIDE DEF T
  <2> QED BY <1>12, <1>13, SetInduction
<1> QED BY <1>1, <1>2, <1>14

(* The argument a step takes is there, and of the kind it takes.           *)
LEMMA ArgTyped ==
  ASSUME FormatOK, ap \in Nat, ap + 1 <= Len(args)
  PROVE  Arg \in Argument /\ Arg.int \in 0 .. Word - 1 /\ Arg.str \in Seq(STRING)
<1>1. ap + 1 \in 1 .. Len(args)
  BY DEF FormatOK
<1>2. Arg \in Argument
  BY <1>1 DEF Arg, FormatOK
<1> QED BY <1>2 DEF Argument

(* The directive vsprintf is in.                                           *)
Current(d, e) ==
  d \in Piece /\ e \in Piece /\ IsDirective(fmt, args, d, e) /\ InDirective(d)

LEMMA InSome ==
  ASSUME ParseInv, pc \in {"flags", "precision", "qualifier", "convert"}
  PROVE  \E d, e : Current(d, e)
<1>1. PICK P : IsParse(fmt, args, P) /\ InPiece(P)
  BY DEF ParseInv
<1>2. PICK j \in 1 .. Len(P) - 1 : IsDirective(fmt, args, P[j], P[j + 1]) /\ InDirective(P[j])
  BY <1>1 DEF InPiece
<1>3. P[j] \in Piece /\ P[j + 1] \in Piece
  BY <1>1 DEF IsParse
<1> QED BY <1>2, <1>3 DEF Current

LEMMA ConvertArg ==
  ASSUME FormatOK, NEW d, NEW e, Current(d, e), pc = "convert", At(pos) \in Taking
  PROVE  /\ Arg \in Argument /\ Arg.int \in 0 .. Word - 1 /\ Arg.str \in Seq(STRING)
         /\ Arg = args[e.need] /\ pos = d.c
<1>1. d \in Piece /\ e \in Piece /\ IsDirective(fmt, args, d, e) /\ InDirective(d)
  BY DEF Current
<1>2. pos = d.c /\ ap = d.need + Stars(fmt, d)
  BY <1>1 DEF InDirective
<1>3. /\ d.need \in Nat /\ Stars(fmt, d) \in Nat
      /\ e.need = d.need + Taken(fmt, d) /\ e.need <= Len(args)
  BY <1>1, PieceFields DEF IsDirective, Stars, One
<1>4. Taken(fmt, d) = Stars(fmt, d) + 1
  BY <1>2, CharAt DEF Taken, One
<1>5. ap \in Nat /\ ap + 1 = e.need
  BY <1>2, <1>3, <1>4
<1> QED BY <1>2, <1>3, <1>5, ArgTyped DEF Arg
(* The types of what vsprintf has read and written.                        *)
FlagNames == {"LEFT", "PLUS", "SPACE", "SPECIAL", "ZEROPAD"}

TextOK ==
  /\ ap \in Nat
  /\ out \in Seq(Chars)
  /\ flags \subseteq FlagNames
  /\ field_width \in Int /\ precision \in Int

LEMMA FieldIs ==
  ASSUME NEW F \in Seq(Chars), out \in Seq(Chars), out' = out \o F
  PROVE  Field = F
<1> DEFINE o == out
           g == o \o F
<1>1. o \in Seq(Chars) /\ out' = g
  OBVIOUS
<1>2. SubSeq(g, Len(o) + 1, Len(g)) = F
  <2> HIDE DEF o
  <2> QED BY <1>1
<1>3. Field = SubSeq(out', Len(o) + 1, Len(out'))
  BY DEF Field
<1> HIDE DEF g
<1> QED BY <1>1, <1>2, <1>3

(* A text x of n characters with spaces on one side.                       *)
OneSide(left, right, len) ==
  /\ left \in Nat /\ right \in Nat /\ left + right = Padding(len)
  /\ left > 0 => "LEFT" \notin flags
  /\ right > 0 => "LEFT" \in flags

LEMMA SpacesAround ==
  ASSUME TextOK, NEW x \in Seq(Chars), NEW left, NEW right, OneSide(left, right, Len(x))
  PROVE  LET F == (Fill(" ", left) \o x) \o Fill(" ", right)
         IN  F \in Seq(Chars) /\ PaddedTo(F, field_width, x)
<1> USE DEF OneSide
<1> DEFINE L == Fill(" ", left)
           R == Fill(" ", right)
<1>1. Blank(L) /\ Blank(R) /\ Len(L) = left /\ Len(R) = right
  <2>1. left \in Int /\ right \in Int
    OBVIOUS
  <2>2. Len(L) = (IF left > 0 THEN left ELSE 0) /\ Len(R) = (IF right > 0 THEN right ELSE 0)
        /\ Blank(L) /\ Blank(R)
    BY <2>1, BlankFill
  <2> HIDE DEF L, R
  <2> QED BY <2>2
<1> HIDE DEF L, R
<1>2. Sided(L, R)
  BY <1>1 DEF Sided
<1>3. Len(L) + Len(R) = Room(Len(x), field_width)
  BY <1>1 DEF Padding, Room
<1>4. field_width \in Int
  BY DEF TextOK
<1>5. PaddedTo((L \o x) \o R, field_width, x)
  BY <1>1, <1>2, <1>3, <1>4, SpacedText
<1>6. (L \o x) \o R \in Seq(Chars)
  <2>1. L \in Seq(Chars) /\ R \in Seq(Chars)
    BY <1>1 DEF Blank
  <2> QED BY <2>1, Parts
<1> QED BY <1>5, <1>6 DEF L, R

LEMMA PaddingNat ==
  ASSUME TextOK, NEW len \in Nat
  PROVE  Padding(len) \in Nat
BY DEF TextOK, Padding

(* What %s writes of a string apart: its beginning, up to the precision.   *)
Text(s) == IF precision \in 0 .. Len(s) THEN SubSeq(s, 1, precision) ELSE s

LEMMA CutText ==
  ASSUME TextOK, NEW s \in Seq(Chars)
  PROVE  /\ c_strnlen(s, precision) \in Nat /\ c_strnlen(s, precision) <= Len(s)
         /\ Text(s) = SubSeq(s, 1, c_strnlen(s, precision))
         /\ Text(s) \in Seq(Chars) /\ Len(Text(s)) = c_strnlen(s, precision)
<1> DEFINE len == c_strnlen(s, precision)
<1>1. precision \in Int /\ Len(s) \in Nat
  BY DEF TextOK
<1>2. len = IF precision >= 0 /\ precision < Len(s) THEN precision ELSE Len(s)
  BY DEF c_strnlen
<1> HIDE DEF len
<1>3. len \in Nat /\ len <= Len(s) /\ (precision \in 0 .. Len(s) => len = precision)
      /\ (precision \notin 0 .. Len(s) => len = Len(s))
  BY <1>1, <1>2
<1>4. SubSeq(s, 1, Len(s)) = s
  OBVIOUS
<1>5. SubSeq(s, 1, len) \in Seq(Chars) /\ Len(SubSeq(s, 1, len)) = len
  BY <1>3
<1>6. Text(s) = SubSeq(s, 1, len)
  BY <1>3, <1>4 DEF Text
<1> QED BY <1>3, <1>5, <1>6 DEF len

LEMMA ApartWritten ==
  ASSUME TextOK, ConvertString, Arg.kind # "own", Arg.str \in Seq(STRING)
  PROVE  \E F \in Seq(Chars) : out' = out \o F /\ PaddedTo(F, field_width, Text(Arg.str))
<1> DEFINE s == Arg.str
           len == c_strnlen(s, precision)
           x == Text(s)
           left == IF "LEFT" \in flags THEN 0 ELSE Padding(len)
           right == Padding(len) - left
           L == Fill(" ", left)
           R == Fill(" ", right)
<1>1. s \in Seq(Chars) /\ out \in Seq(Chars)
  BY StringChars DEF TextOK
<1>2. /\ len \in Nat /\ len <= Len(s) /\ x = SubSeq(s, 1, len)
      /\ x \in Seq(Chars) /\ Len(x) = len
  BY <1>1, CutText
<1>3. out' = Copied(out \o L, s, Arg.kind = "own", len) \o R
  BY DEF ConvertString
<1> HIDE DEF s, len, x
<1>4. Padding(len) \in Nat
  BY <1>2, PaddingNat
<1>5. /\ left \in Nat /\ right \in Nat /\ left + right = Padding(Len(x))
      /\ left > 0 => "LEFT" \notin flags
      /\ right > 0 => "LEFT" \in flags
  BY <1>2, <1>4
<1> HIDE DEF left, right
<1>6. L \in Seq(Chars) /\ R \in Seq(Chars)
  <2>1. left \in Int /\ right \in Int
    BY <1>5
  <2>2. Blank(L) /\ Blank(R)
    BY <2>1, BlankFill
  <2> QED BY <2>2 DEF Blank
<1>7. out \o L \in Seq(Chars)
  BY <1>1, <1>6, Join
<1>8. Copied(out \o L, s, Arg.kind = "own", len) = (out \o L) \o x
  BY <1>1, <1>2, <1>7, CopyApart
<1>9. (L \o x) \o R \in Seq(Chars) /\ PaddedTo((L \o x) \o R, field_width, x)
  <2>1. OneSide(left, right, Len(x))
    BY <1>5 DEF OneSide
  <2> QED BY <1>2, <2>1, SpacesAround
<1> HIDE DEF L, R
<1>10. ((out \o L) \o x) \o R = out \o ((L \o x) \o R)
  <2> DEFINE o == out
  <2>1. o \in Seq(Chars) /\ x \in Seq(Chars)
    BY <1>1, <1>2
  <2> HIDE DEF o
  <2>2. (o \o L) \o x = o \o (L \o x) /\ L \o x \in Seq(Chars)
    BY <1>6, <2>1, JoinThree
  <2>3. (o \o (L \o x)) \o R = o \o ((L \o x) \o R)
    <3> DEFINE y == L \o x
    <3>1. y \in Seq(Chars)
      BY <2>2
    <3> HIDE DEF y
    <3>2. (o \o y) \o R = o \o (y \o R)
      BY <1>6, <2>1, <3>1, JoinThree
    <3> QED BY <3>2 DEF y
  <2> QED BY <2>2, <2>3 DEF o
<1>11. out' = out \o ((L \o x) \o R)
  BY <1>3, <1>8, <1>10
<1> QED BY <1>9, <1>11 DEF x, s
LEMMA FillNone == Fill(" ", 0) = << >>
<1> DEFINE S == {" "}
           F == Fill(" ", 0)
<1>1. " " \in S /\ 0 \in Int
  OBVIOUS
<1> HIDE DEF S
<1>2. F \in Seq(S) /\ Len(F) = IF 0 > 0 THEN 0 ELSE 0
  BY <1>1, FillIs
<1>3. Len(F) = 0
  BY <1>2
<1> HIDE DEF F
<1>4. F = << >>
  BY <1>2, <1>3
<1> QED BY <1>4 DEF F

(* A plain %s of the buffer at the start of the format.                    *)
LEMMA OwnWritten ==
  ASSUME TextOK, ConvertString, Arg.kind = "own",
         out = << >>, field_width = -1, precision = -1
  PROVE  out' = out \o Old /\ Old \in Seq(Chars) /\ PaddedTo(Old, field_width, Old)
<1> DEFINE e == << >>
           n == Len(Old)
           len == c_strnlen(IF Arg.kind = "own" THEN Buf(out) ELSE Arg.str, precision)
           left == IF "LEFT" \in flags THEN 0 ELSE Padding(len)
<1>1. /\ Old \in Seq(Chars) /\ n \in Nat /\ SubSeq(Old, 1, n) = Old
  <2>1. Old \in Seq(Chars)
    BY PrintfAssumption, StringChars
  <2> QED BY <2>1
<1>2. e \o Old = Old /\ Old \o e = Old /\ e \o e = e /\ Len(e) = 0
  BY <1>1, EmptyEnds
<1>3. Buf(out) = Old
  <2>1. Len(e) + 1 = 1
    BY <1>2
  <2>2. Buf(e) = e \o SubSeq(Old, Len(e) + 1, n)
    BY DEF Buf
  <2> HIDE DEF e
  <2>3. Buf(e) = Old
    BY <1>1, <1>2, <2>1, <2>2
  <2> QED BY <2>3 DEF e
<1>4. len = n
  BY <1>1, <1>3 DEF c_strnlen
<1> HIDE DEF n
<1>5. Padding(n) = 0
  BY <1>1 DEF Padding
<1>6. left = 0 /\ Padding(len) - left = 0
  BY <1>4, <1>5
<1>7. Fill(" ", 0) = e
  BY FillNone
<1>8. out' = Copied(out \o Fill(" ", left), Arg.str, Arg.kind = "own", len)
               \o Fill(" ", Padding(len) - left)
  BY DEF ConvertString
<1>9. out' = Copied(e, Arg.str, Arg.kind = "own", n) \o e
  <2> HIDE DEF len, left, e
  <2>1. out = e
    BY DEF e
  <2> QED BY <1>2, <1>4, <1>6, <1>7, <1>8, <2>1
<1>10. Copied(e, Arg.str, Arg.kind = "own", n) = Old
  BY CopyOwn DEF n
<1>11. out' = out \o Old
  <2> HIDE DEF e
  <2>1. out = e
    BY DEF e
  <2> QED BY <1>2, <1>9, <1>10, <2>1
<1>12. PaddedTo((e \o Old) \o e, field_width, Old)
  <2>1. Blank(e) /\ Len(e) = 0
    BY BlankEmpty
  <2>2. Sided(e, e)
    BY <2>1 DEF Sided
  <2> HIDE DEF e
  <2>3. Len(e) + Len(e) = Room(n, field_width) /\ field_width \in Int
    BY <1>1, <2>1 DEF Room
  <2> QED BY <1>1, <2>1, <2>2, <2>3, SpacedText DEF n
<1> HIDE DEF e
<1> QED BY <1>1, <1>2, <1>11, <1>12

LEMMA CharWritten ==
  ASSUME TextOK, ConvertChar, Arg.str \in Seq(STRING), Len(Arg.str) = 1
  PROVE  \E F \in Seq(Chars) : out' = out \o F /\ PaddedTo(F, field_width, Arg.str)
<1> DEFINE e == << >>
           x == Arg.str
           pad == Padding(1)
           type == flags \ {"ZEROPAD"}
           S == Fill(" ", pad)
<1>1. x \in Seq(Chars) /\ Len(x) = 1
  BY StringChars
<1>2. out' = out \o Justify(e, x, pad, type)
  BY DEF ConvertChar
<1> HIDE DEF x
<1>3. pad \in Nat /\ pad = Padding(Len(x))
  BY <1>1, PaddingNat
<1> HIDE DEF pad
<1>4. Fill(" ", 0) = e
  BY FillNone
<1>5. S \in Seq(Chars)
  <2>1. pad \in Int
    BY <1>3
  <2> QED BY <2>1, BlankFill DEF Blank
<1>6. e \o x = x /\ S \o e = S /\ S \o x \in Seq(Chars)
  BY <1>1, <1>5, EmptyEnds, Join
<1>7. CASE "LEFT" \in flags
  <2>1. Justify(e, x, pad, type) = (e \o x) \o S
    BY <1>7 DEF Justify
  <2>2. OneSide(0, pad, Len(x))
    BY <1>3, <1>7 DEF OneSide
  <2>3. (Fill(" ", 0) \o x) \o S \in Seq(Chars)
        /\ PaddedTo((Fill(" ", 0) \o x) \o S, field_width, x)
    BY <1>1, <2>2, SpacesAround
  <2> HIDE DEF e, S
  <2> QED BY <1>2, <1>4, <2>1, <2>3 DEF x
<1>8. CASE "LEFT" \notin flags
  <2>1. Justify(e, x, pad, type) = (S \o e) \o x
    BY <1>8 DEF Justify
  <2>2. OneSide(pad, 0, Len(x))
    BY <1>3, <1>8 DEF OneSide
  <2>3. (S \o x) \o Fill(" ", 0) \in Seq(Chars)
        /\ PaddedTo((S \o x) \o Fill(" ", 0), field_width, x)
    BY <1>1, <2>2, SpacesAround
  <2>4. (S \o x) \o e = S \o x
    BY <1>6, EmptyEnds
  <2> HIDE DEF e, S
  <2>5. S \o x \in Seq(Chars) /\ PaddedTo(S \o x, field_width, x)
    BY <1>4, <2>3, <2>4
  <2>6. out' = out \o (S \o x)
    BY <1>2, <1>6, <2>1
  <2> QED BY <2>5, <2>6 DEF x
<1> QED BY <1>7, <1>8
(* What a %s or %c step does to the text.                                  *)
LEMMA StringWritten ==
  ASSUME FormatOK, TextOK, ParseInv, ConvertString
  PROVE  \E F \in Seq(Chars) : out' = out \o F /\ PaddedTo(F, field_width, Wanted)
<1>1. pc = "convert" /\ At(pos) = "s" /\ At(pos) \in Taking
  BY DEF ConvertString, Taking
<1>2. PICK d, e : Current(d, e)
  BY <1>1, InSome
<1>3. d \in Piece /\ e \in Piece /\ IsDirective(fmt, args, d, e) /\ InDirective(d)
  BY <1>2 DEF Current
<1>4. Arg.str \in Seq(STRING) /\ Arg = args[e.need] /\ pos = d.c
  BY <1>1, <1>2, ConvertArg
<1>5. Arg.kind # "own" \/ (Arg.kind = "own" /\ d.at = 1 /\ d.c = 2)
  <2>1. Suits(fmt, args, d, e) /\ CharOf(fmt, d.c) = "s"
    BY <1>1, <1>3, <1>4, CharAt DEF IsDirective
  <2> QED BY <1>4, <2>1 DEF Suits
<1>6. CASE Arg.kind # "own"
  <2>1. Wanted = Text(Arg.str)
    BY <1>1, <1>6 DEF Wanted, Text
  <2> QED BY <1>4, <1>6, <2>1, ApartWritten
<1>7. CASE Arg.kind = "own" /\ d.at = 1 /\ d.c = 2
  <2>1. /\ d.w \in Nat /\ d.p \in Nat /\ d.q \in Nat
        /\ d.at < d.w /\ d.w <= d.p /\ d.p <= d.q /\ d.q <= d.c
    BY <1>3, PieceFields DEF IsDirective, InOrder
  <2>2. d.p = d.w /\ d.q = d.p
    BY <1>7, <2>1
  <2>3. out = << >> /\ field_width = -1 /\ precision = -1
    BY <1>1, <1>3, <1>7, <2>2 DEF InDirective
  <2>4. Wanted = Old
    <3>1. -1 \notin 0 .. Len(Old)
      BY PrintfAssumption
    <3> QED BY <1>7, <2>3, <3>1 DEF Wanted
  <2>5. out' = out \o Old /\ Old \in Seq(Chars) /\ PaddedTo(Old, field_width, Old)
    BY <1>7, <2>3, OwnWritten
  <2> QED BY <2>4, <2>5
<1> QED BY <1>5, <1>6, <1>7

LEMMA CharacterWritten ==
  ASSUME FormatOK, TextOK, ParseInv, ConvertChar
  PROVE  \E F \in Seq(Chars) : out' = out \o F /\ PaddedTo(F, field_width, Wanted)
<1>1. pc = "convert" /\ At(pos) = "c" /\ At(pos) \in Taking
  BY DEF ConvertChar, Taking
<1>2. PICK d, e : Current(d, e)
  BY <1>1, InSome
<1>3. d \in Piece /\ e \in Piece /\ IsDirective(fmt, args, d, e)
  BY <1>2 DEF Current
<1>4. Arg.str \in Seq(STRING) /\ Arg = args[e.need] /\ pos = d.c
  BY <1>1, <1>2, ConvertArg
<1>5. Arg.kind = "str" /\ Len(Arg.str) = 1
  <2>1. Suits(fmt, args, d, e) /\ CharOf(fmt, d.c) = "c"
    BY <1>1, <1>3, <1>4, CharAt DEF IsDirective
  <2> QED BY <1>4, <2>1 DEF Suits
<1>6. Wanted = Arg.str
  BY <1>1, <1>5 DEF Wanted
<1> QED BY <1>4, <1>5, <1>6, CharWritten

(* The two action properties, as relations between the states of a step.   *)
NumbersStep ==
  pc = "convert" /\ At(pos) \in {"d", "i", "u", "x", "X", "o", "p"} => ReadsBack(Field)

StringsStep ==
  pc = "convert" /\ At(pos) \in {"s", "c"} => PaddedTo(Field, field_width, Wanted)

LEMMA StepsNamed ==
  /\ [][NumbersStep]_vars => NumbersReadBack
  /\ [][StringsStep]_vars => StringsExact
<1>1. NumbersReadBack <=> [][NumbersStep]_vars
  BY DEF NumbersReadBack, NumbersStep
<1>2. StringsExact <=> [][StringsStep]_vars
  BY DEF StringsExact, StringsStep
<1> QED BY <1>1, <1>2
(* The field number writes shows its number.                               *)
SameFlags(type, zeropad) ==
  /\ "LEFT" \in type <=> "LEFT" \in flags
  /\ "ZEROPAD" \in type => "ZEROPAD" \in zeropad

LEMMA ShownShows ==
  ASSUME TextOK, NEW f, NEW L, NEW m, NEW D, NEW R, NEW n, NEW base, NEW size \in Int,
         NEW type, NEW A, NEW zeropad,
         Shown(f, L, m, D, R, n, base, size, precision, type, A), SameFlags(type, zeropad)
  PROVE  f \in Seq(Chars) /\ ShowsNumber(f, n, base, A, size, m, zeropad)
<1>1. /\ Laid(f, L, m, D, R) /\ Stands(D, n, base, A)
      /\ Len(D) >= 1 /\ Len(D) >= precision
      /\ \/ Len(D) = 1 \/ Len(D) = precision \/ D[1] # "0"
         \/ "LEFT" \notin type /\ "ZEROPAD" \in type /\ Len(m) + Len(D) = size
      /\ Len(L) > 0 => "LEFT" \notin type
      /\ Len(R) > 0 => "LEFT" \in type
      /\ Len(L) + Len(R) = Room(Len(m) + Len(D), size)
  BY DEF Shown
<1>2. /\ Blank(L) /\ Blank(R) /\ m \in Seq(Chars) /\ D \in Seq(Chars)
      /\ f = (L \o (m \o D)) \o R
  BY <1>1 DEF Laid
<1>3. m \o D \in Seq(Chars) /\ Len(m \o D) = Len(m) + Len(D) /\ Len(m) \in Nat /\ Len(D) \in Nat
  <2>1. m \in Seq(Chars) /\ D \in Seq(Chars)
    BY <1>2
  <2> QED BY <2>1, Join
<1>4. f \in Seq(Chars)
  <2>1. L \in Seq(Chars) /\ R \in Seq(Chars)
    BY <1>2 DEF Blank
  <2> DEFINE x == m \o D
  <2>2. x \in Seq(Chars) /\ f = (L \o x) \o R
    BY <1>2, <1>3
  <2> HIDE DEF x
  <2>3. (L \o x) \o R \in Seq(Chars)
    BY <2>1, <2>2, Parts
  <2> QED BY <2>2, <2>3
<1>5. PaddedTo(f, size, m \o D)
  <2>1. Sided(L, R)
    BY <1>1 DEF Sided, SameFlags
  <2> DEFINE x == m \o D
  <2>2. x \in Seq(Chars) /\ Len(L) + Len(R) = Room(Len(x), size)
    BY <1>1, <1>3
  <2> HIDE DEF x
  <2>3. PaddedTo((L \o x) \o R, size, x)
    BY <1>2, <2>1, <2>2, SpacedText
  <2> QED BY <1>2, <2>3 DEF x
<1> DEFINE i == Len(L) + Len(m)
           k == Len(D)
<1>6. /\ k \in 1 .. Len(f) /\ i \in 0 .. Len(f) - k
      /\ SubSeq(f, i + 1, i + k) = D
      /\ Len(f) = (Len(L) + Len(R)) + (Len(m) + Len(D))
  BY <1>1, LaidParts
<1>7. Len(m) + Len(D) = size => Len(f) = size
  <2> DEFINE used == Len(m) + Len(D)
             room == Len(L) + Len(R)
  <2>1. used \in Nat /\ room = Room(used, size) /\ Len(f) = room + used
    BY <1>1, <1>3, <1>6
  <2> HIDE DEF used, room
  <2>2. used = size => Len(f) = size
    BY <2>1 DEF Room
  <2> QED BY <2>2 DEF used
<1>8. \/ k = 1 \/ k = precision \/ D[1] # "0"
      \/ "LEFT" \notin flags /\ "ZEROPAD" \in zeropad /\ Len(f) = size
  BY <1>1, <1>7 DEF SameFlags
<1>9. AreDigits(D, base, A) /\ Value(D, base) = n /\ k >= precision
  BY <1>1 DEF Stands
<1> HIDE DEF i, k
<1>10. ShowsNumber(f, n, base, A, size, m, zeropad)
  BY <1>5, <1>6, <1>8, <1>9 DEF ShowsNumber
<1> QED BY <1>4, <1>10

(* The word given to number stands for the value that is asked for.        *)
LEMMA HalfWord ==
  ASSUME NEW w \in Nat
  PROVE  /\ w % Short \in Nat /\ w % Short < Short
         /\ 2 * (Short \div 2) = Short /\ 2 * (Word \div 2) = Word
         /\ Short \div 2 \in Nat /\ Word \div 2 \in Nat
         /\ Short \div 2 < Word \div 2
<1>1. /\ Word \in Nat /\ Short \in Nat /\ Short > 0 /\ Short < Word
      /\ Word % 2 = 0 /\ Short % 2 = 0
  BY PrintfAssumption
<1>2. 2 * (Short \div 2) = Short /\ 2 * (Word \div 2) = Word
  BY <1>1
<1>3. Short \div 2 \in Nat /\ Word \div 2 \in Nat
  BY <1>1
<1>4. Short \div 2 < Word \div 2
  BY <1>1, <1>2, <1>3
<1>5. w % Short \in Nat /\ w % Short < Short
  BY <1>1
<1> QED BY <1>2, <1>3, <1>4, <1>5

LEMMA NumAsked ==
  ASSUME Arg.int \in 0 .. Word - 1, NEW c, NEW type, c # "p",
         "SIGN" \in type <=> c \in {"d", "i"}
  PROVE  /\ Num(Arg.int, c) \in 0 .. Word - 1
         /\ Asked(c) \in Int
         /\ "SIGN" \in type => Signed(Num(Arg.int, c)) = Asked(c)
         /\ "SIGN" \notin type => Asked(c) = Num(Arg.int, c)
         /\ Magnitude(Num(Arg.int, c), type) = IF Asked(c) < 0 THEN -Asked(c) ELSE Asked(c)
<1> DEFINE w == Arg.int
           r == w % Short
           hS == Short \div 2
           hW == Word \div 2
           num == Num(w, c)
           v == Asked(c)
<1>1. /\ Word \in Nat /\ Short \in Nat /\ Short > 0 /\ Short < Word /\ w \in Nat /\ w < Word
  BY PrintfAssumption
<1>2. /\ r \in Nat /\ r < Short /\ 2 * hS = Short /\ 2 * hW = Word
      /\ hS \in Nat /\ hW \in Nat /\ hS < hW
  BY <1>1, HalfWord
<1>3. num = IF qualifier # "h" THEN w
            ELSE IF c \in {"d", "i"} /\ r >= hS THEN (Word - Short) + r ELSE r
  BY DEF Num
<1>4. v = IF qualifier = "h"
          THEN IF c \in {"d", "i"} /\ r >= hS THEN r - 2 * hS ELSE r
          ELSE IF c \in {"d", "i"} /\ w >= hW THEN w - 2 * hW ELSE w
  BY DEF Asked
<1>5. Signed(num) = IF num >= hW THEN num - Word ELSE num
  BY DEF Signed
<1>6. Magnitude(num, type) = IF "SIGN" \in type /\ Signed(num) < 0 THEN Word - num ELSE num
  BY DEF Magnitude
<1> HIDE DEF w, r, hS, hW, num, v
<1>7. num \in 0 .. Word - 1 /\ v \in Int
  BY <1>1, <1>2, <1>3, <1>4
<1>8. CASE c \in {"d", "i"}
  <2>1. Signed(num) = v
    BY <1>1, <1>2, <1>3, <1>4, <1>5, <1>8
  <2>2. Magnitude(num, type) = IF v < 0 THEN -v ELSE v
    BY <1>1, <1>2, <1>5, <1>6, <1>7, <1>8, <2>1
  <2> QED BY <1>7, <1>8, <2>1, <2>2 DEF num, v, w
<1>9. CASE c \notin {"d", "i"}
  <2>1. v = num /\ v >= 0
    BY <1>1, <1>2, <1>3, <1>4, <1>9
  <2>2. Magnitude(num, type) = v
    BY <1>6, <1>9, <2>1
  <2> QED BY <1>7, <1>9, <2>1, <2>2 DEF num, v, w
<1> QED BY <1>8, <1>9
(* number is called with what the directive asks for.                      *)
MarkOf(v, c) ==
  IF v < 0 THEN <<"-">>
  ELSE IF c \in {"d", "i"} /\ "PLUS" \in flags THEN <<"+">>
  ELSE IF c \in {"d", "i"} /\ "SPACE" \in flags THEN <<" ">> ELSE << >>

PrefixOf(base, c) ==
  IF "SPECIAL" \notin flags \/ base = 10 THEN << >>
  ELSE IF base = 8 THEN <<"0">>
  ELSE IF c = "x" THEN <<"0", "x">> ELSE <<"0", "X">>

BaseOf(c)  == IF c = "p" THEN 16 ELSE Base(c)
SizeOf(c)  == IF c = "p" /\ field_width = -1 THEN PtrDigits ELSE field_width
ZerosOf(c) == IF c = "p" /\ field_width = -1 THEN {"ZEROPAD"} ELSE flags
DigitsOf(c) == IF c = "x" THEN lower ELSE digits
AbsOf(v)   == IF v < 0 THEN -v ELSE v

Fits(num, c, type) ==
  /\ num \in 0 .. Word - 1
  /\ Magnitude(num, type) = AbsOf(Asked(c))
  /\ Sign(num, type) = MarkOf(Asked(c), c)
  /\ Prefix(BaseOf(c), type) = PrefixOf(BaseOf(c), c)
  /\ Alphabet("SMALL" \in type) = DigitsOf(c)
  /\ SameFlags(type, ZerosOf(c))

LEMMA ReadsBackIs ==
  ASSUME NEW f
  PROVE  ReadsBack(f) <=> ShowsNumber(f, AbsOf(Asked(At(pos))), BaseOf(At(pos)),
                            DigitsOf(At(pos)), SizeOf(At(pos)),
                            MarkOf(Asked(At(pos)), At(pos)) \o PrefixOf(BaseOf(At(pos)), At(pos)),
                            ZerosOf(At(pos)))
BY Zenon DEF ReadsBack, AbsOf, BaseOf, DigitsOf, SizeOf, MarkOf, PrefixOf, ZerosOf

LEMMA FitReadsBack ==
  ASSUME TextOK, NEW num, NEW type, Fits(num, At(pos), type)
  PROVE  LET f == number(num, BaseOf(At(pos)), SizeOf(At(pos)), precision, type)
         IN  f \in Seq(Chars) /\ ReadsBack(f)
<1> DEFINE c == At(pos)
           base == BaseOf(c)
           size == SizeOf(c)
           f == number(num, base, size, precision, type)
           A == Alphabet("SMALL" \in type)
           n == Magnitude(num, type)
           m == Mark(num, base, type)
<1>1. base \in Bases
  BY DEF BaseOf, Base, Bases
<1>2. size \in Int /\ precision \in Int
  BY PrintfAssumption DEF TextOK, SizeOf
<1>3. /\ num \in 0 .. Word - 1 /\ n = AbsOf(Asked(c)) /\ A = DigitsOf(c)
      /\ m = MarkOf(Asked(c), c) \o PrefixOf(base, c) /\ SameFlags(type, ZerosOf(c))
  BY DEF Fits, Mark
<1> HIDE DEF c, base, size
<1>4. PICK L, D, R : Shown(f, L, m, D, R, n, base, size, precision, type, A)
  BY <1>1, <1>2, <1>3, NumberShown
<1> HIDE DEF f, A, n, m
<1>5. f \in Seq(Chars) /\ ShowsNumber(f, n, base, A, size, m, ZerosOf(c))
  BY <1>2, <1>3, <1>4, ShownShows
<1>6. ShowsNumber(f, AbsOf(Asked(c)), base, DigitsOf(c), size,
                  MarkOf(Asked(c), c) \o PrefixOf(base, c), ZerosOf(c))
  BY <1>3, <1>5
<1>7. ReadsBack(f)
  BY <1>6, ReadsBackIs DEF c, base, size
<1> QED BY <1>5, <1>7 DEF f, c, base, size

LEMMA NumberFits ==
  ASSUME TextOK, Arg.int \in 0 .. Word - 1, NEW c, c \in {"d", "i", "u", "x", "X", "o"}
  PROVE  Fits(Num(Arg.int, c), c, TypeOf(c))
<1> DEFINE type == TypeOf(c)
           num == Num(Arg.int, c)
           v == Asked(c)
<1>1. /\ "SIGN" \in type <=> c \in {"d", "i"}
      /\ "SMALL" \in type <=> c = "x"
      /\ "LEFT" \in type <=> "LEFT" \in flags
      /\ "PLUS" \in type <=> "PLUS" \in flags
      /\ "SPACE" \in type <=> "SPACE" \in flags
      /\ "SPECIAL" \in type <=> "SPECIAL" \in flags
      /\ "ZEROPAD" \in type <=> "ZEROPAD" \in flags
  BY DEF TextOK, FlagNames, TypeOf
<1>2. c # "p"
  OBVIOUS
<1>3. /\ num \in 0 .. Word - 1 /\ v \in Int
      /\ "SIGN" \in type => Signed(num) = v
      /\ "SIGN" \notin type => v = num
      /\ Magnitude(num, type) = IF v < 0 THEN -v ELSE v
  BY <1>1, <1>2, NumAsked
<1> HIDE DEF type, num, v
<1>4. Magnitude(num, type) = AbsOf(v)
  BY <1>3 DEF AbsOf
<1>5. Sign(num, type) = MarkOf(v, c)
  <2>1. CASE c \in {"d", "i"}
    BY <1>1, <1>3, <2>1 DEF Sign, MarkOf
  <2>2. CASE c \notin {"d", "i"}
    <3>1. ~(v < 0)
      BY <1>1, <1>3, <2>2
    <3> QED BY <1>1, <2>2, <3>1 DEF Sign, MarkOf
  <2> QED BY <2>1, <2>2
<1>6. Prefix(BaseOf(c), type) = PrefixOf(BaseOf(c), c)
  <2>1. BaseOf(c) \in {8, 10, 16} /\ (BaseOf(c) = 16 <=> c \in {"x", "X"})
    BY DEF BaseOf, Base
  <2> QED BY <1>1, <2>1 DEF Prefix, PrefixOf
<1>7. Alphabet("SMALL" \in type) = DigitsOf(c)
  BY <1>1 DEF Alphabet, DigitsOf
<1>8. SameFlags(type, ZerosOf(c))
  BY <1>1, <1>2 DEF SameFlags, ZerosOf
<1> QED BY <1>3, <1>4, <1>5, <1>6, <1>7, <1>8 DEF Fits, type, num, v

LEMMA PointerFits ==
  ASSUME TextOK, Arg.int \in 0 .. Word - 1, NEW type,
         type = IF field_width = -1 THEN flags \cup {"ZEROPAD"} ELSE flags
  PROVE  Fits(Arg.int, "p", type)
<1>1. /\ "SIGN" \notin type /\ "SMALL" \notin type
      /\ "LEFT" \in type <=> "LEFT" \in flags
      /\ "SPECIAL" \in type <=> "SPECIAL" \in flags
      /\ field_width # -1 => type = flags
  BY DEF TextOK, FlagNames
<1>2. Asked("p") = Arg.int /\ ~(Arg.int < 0) /\ BaseOf("p") = 16
  BY PrintfAssumption DEF Asked, BaseOf
<1>3. Magnitude(Arg.int, type) = AbsOf(Asked("p"))
  BY <1>1, <1>2 DEF Magnitude, AbsOf
<1>4. Sign(Arg.int, type) = MarkOf(Asked("p"), "p")
  BY <1>1, <1>2 DEF Sign, MarkOf
<1>5. Prefix(BaseOf("p"), type) = PrefixOf(BaseOf("p"), "p")
  BY <1>1, <1>2 DEF Prefix, PrefixOf
<1>6. Alphabet("SMALL" \in type) = DigitsOf("p")
  BY <1>1 DEF Alphabet, DigitsOf
<1>7. SameFlags(type, ZerosOf("p"))
  BY <1>1 DEF SameFlags, ZerosOf
<1> QED BY <1>3, <1>4, <1>5, <1>6, <1>7 DEF Fits

LEMMA NumberWritten ==
  ASSUME FormatOK, TextOK, ParseInv, ConvertNumber \/ ConvertPointer
  PROVE  \E F \in Seq(Chars) : out' = out \o F /\ ReadsBack(F)
<1>1. pc = "convert" /\ At(pos) \in Taking
  BY DEF ConvertNumber, ConvertPointer, Taking
<1>2. PICK d, e : Current(d, e)
  BY <1>1, InSome
<1>3. Arg.int \in 0 .. Word - 1
  BY <1>1, <1>2, ConvertArg
<1> DEFINE c == At(pos)
<1>4. CASE ConvertNumber
  <2> DEFINE num  == Num(Arg.int, c)
             type == TypeOf(c)
             f    == number(num, BaseOf(c), SizeOf(c), precision, type)
  <2>1. c \in {"d", "i", "u", "x", "X", "o"}
    BY <1>4 DEF ConvertNumber
  <2>2. Fits(num, c, type)
    BY <1>3, <2>1, NumberFits
  <2>3. f \in Seq(Chars) /\ ReadsBack(f)
    BY <2>2, FitReadsBack
  <2>4. BaseOf(c) = Base(c) /\ SizeOf(c) = field_width
    BY <2>1 DEF BaseOf, SizeOf
  <2>5. out' = out \o f
    BY <1>4, <2>4 DEF ConvertNumber
  <2> HIDE DEF f
  <2> QED BY <2>3, <2>5
<1>5. CASE ConvertPointer
  <2> DEFINE type == IF field_width = -1 THEN flags \cup {"ZEROPAD"} ELSE flags
             f    == number(Arg.int, BaseOf(c), SizeOf(c), precision, type)
  <2>1. c = "p"
    BY <1>5 DEF ConvertPointer
  <2>2. Fits(Arg.int, c, type)
    <3>1. Fits(Arg.int, "p", type)
      BY <1>3, PointerFits
    <3> QED BY <2>1, <3>1
  <2>3. f \in Seq(Chars) /\ ReadsBack(f)
    BY <2>2, FitReadsBack
  <2>4. BaseOf(c) = 16 /\ SizeOf(c) = IF field_width = -1 THEN PtrDigits ELSE field_width
    BY <2>1 DEF BaseOf, SizeOf
  <2>5. out' = out \o f
    BY <1>5, <2>4 DEF ConvertPointer
  <2> HIDE DEF f
  <2> QED BY <2>3, <2>5
<1> QED BY <1>4, <1>5

-----------------------------------------------------------------------------
(* The types hold throughout.                                              *)
LEMMA TextInit == Init => TextOK
BY DEF Init, TextOK

(* A step that takes an argument takes one there is.                       *)
LEMMA StarTyped ==
  ASSUME FormatOK, TextOK, ap' = ap + 1, InsideFormat', UNCHANGED args
  PROVE  Arg.int \in Nat /\ Signed(Arg.int) \in Int
<1>1. ap \in Nat /\ ap + 1 <= Len(args)
  BY DEF TextOK, InsideFormat
<1>2. Arg.int \in 0 .. Word - 1
  BY <1>1, ArgTyped
<1> QED BY <1>2, PrintfAssumption DEF Signed

LEMMA OneChar ==
  ASSUME NEW c \in Chars
  PROVE  /\ <<c>> \in Seq(Chars)
         /\ \A o \in Seq(Chars) : Append(o, c) \in Seq(Chars)
OBVIOUS

LEMMA TextStep ==
  FormatOK /\ PointerInside /\ ParseInv /\ InsideFormat' /\ TextOK /\ [Next]_vars => TextOK'
<1> SUFFICES ASSUME FormatOK, PointerInside, ParseInv, InsideFormat', TextOK, [Next]_vars
             PROVE  TextOK'
  OBVIOUS
<1>1. args' = args /\ fmt' = fmt
  BY FormatKept
<1>2. /\ ap \in Nat /\ ap + 1 \in Nat /\ out \in Seq(Chars) /\ flags \subseteq FlagNames
      /\ field_width \in Int /\ precision \in Int
  BY DEF TextOK
<1>3. /\ pos \in Nat /\ pos >= 1 /\ pos <= Len(fmt) + 1 /\ Len(fmt) \in Nat
      /\ pos + 1 \in Nat /\ pos + 1 >= 1
  BY DEF PointerInside, FormatOK
<1>4. At(pos) \in Chars /\ "%" \in Chars
  <2>1. At(pos) \in STRING \/ At(pos) = NUL
    BY <1>3, AtInside
  <2> QED BY <2>1 DEF Chars
<1>5. CASE UNCHANGED vars \/ Terminate \/ Puts \/ ConvertCount
  <2>1. /\ ap' \in {ap, ap + 1} /\ out' = out /\ flags' = flags
        /\ field_width' = field_width /\ precision' = precision
    BY <1>2, <1>5 DEF vars, directive, Terminate, Puts, ConvertCount, Converted
  <2> QED BY <1>2, <2>1 DEF TextOK
<1>6. CASE Literal
  <2>1. out' = Append(out, At(pos)) /\ UNCHANGED <<ap, flags, field_width, precision>>
    BY <1>6 DEF Literal, directive
  <2>2. out' \in Seq(Chars)
    BY <1>2, <1>4, <2>1, OneChar
  <2> QED BY <1>2, <2>1, <2>2 DEF TextOK
<1>7. CASE Percent
  BY <1>2, <1>7 DEF Percent, TextOK
<1>8. CASE Flag
  <2>1. At(pos) \in FlagChars /\ flags' = flags \cup {FlagOf(At(pos))}
        /\ UNCHANGED <<ap, out, field_width, precision>>
    BY <1>8 DEF Flag
  <2>2. \A c \in FlagChars : FlagOf(c) \in FlagNames
    BY DEF FlagChars, FlagOf, FlagNames
  <2> QED BY <1>2, <2>1, <2>2 DEF TextOK
<1>9. CASE Width
  <2>1. UNCHANGED <<out, precision>>
    BY <1>9 DEF Width
  <2>2. CASE field_width' = skip_atoi(pos) /\ UNCHANGED <<ap, flags>>
    <3>1. field_width' \in Nat
      BY <1>3, <2>2, SkipAtoi
    <3> QED BY <1>2, <2>1, <2>2, <3>1 DEF TextOK
  <2>3. CASE /\ field_width' = IF Signed(Arg.int) < 0 THEN -Signed(Arg.int) ELSE Arg.int
             /\ flags' = flags \cup (IF Signed(Arg.int) < 0 THEN {"LEFT"} ELSE {})
             /\ ap' = ap + 1
    <3>1. Arg.int \in Nat /\ Signed(Arg.int) \in Int
      BY <1>1, <2>3, StarTyped
    <3>2. field_width' \in Int
      BY <2>3, <3>1
    <3>3. flags' \subseteq FlagNames
      BY <1>2, <2>3 DEF FlagNames
    <3> QED BY <1>2, <2>1, <2>3, <3>2, <3>3 DEF TextOK
  <2>4. CASE field_width' = -1 /\ UNCHANGED <<ap, flags>>
    BY <1>2, <2>1, <2>4 DEF TextOK
  <2> QED BY <1>9, <2>2, <2>3, <2>4 DEF Width
<1>10. CASE Precision
  <2>1. UNCHANGED <<out, flags, field_width>>
    BY <1>10 DEF Precision
  <2>2. CASE precision' \in {-1, 0} /\ UNCHANGED ap
    <3>1. precision' \in Int
      BY <2>2
    <3> QED BY <1>2, <2>1, <2>2, <3>1 DEF TextOK
  <2>3. CASE At(pos) = "." /\ precision' = skip_atoi(pos + 1) /\ UNCHANGED ap
    <3>1. pos + 1 <= Len(fmt) + 1
      BY <1>3, <2>3, AtInside, CharFacts
    <3>2. precision' \in Nat
      BY <1>3, <2>3, <3>1, SkipAtoi
    <3> QED BY <1>2, <2>1, <2>3, <3>2 DEF TextOK
  <2>4. CASE /\ precision' = IF Signed(Arg.int) < 0 THEN 0 ELSE Arg.int
             /\ ap' = ap + 1
    <3>1. Arg.int \in Nat /\ Signed(Arg.int) \in Int
      BY <1>1, <2>4, StarTyped
    <3>2. precision' \in Int
      BY <2>4, <3>1
    <3> QED BY <1>2, <2>1, <2>4, <3>2 DEF TextOK
  <2> QED BY <1>10, <2>2, <2>3, <2>4 DEF Precision
<1>11. CASE Qualifier
  BY <1>2, <1>11 DEF Qualifier, TextOK
<1>12. CASE ConvertPercent
  <2>1. out' = Append(out, "%") /\ ap' = ap + 0 /\ UNCHANGED <<flags, field_width, precision>>
    BY <1>12 DEF ConvertPercent, Converted, directive
  <2>2. out' \in Seq(Chars)
    BY <1>2, <1>4, <2>1, OneChar
  <2> QED BY <1>2, <2>1, <2>2 DEF TextOK
<1>13. CASE ConvertOther
  <2> DEFINE F == IF At(pos) = NUL THEN <<"%">> ELSE <<"%", At(pos)>>
  <2>1. out' = out \o F /\ UNCHANGED <<ap, flags, field_width, precision>>
    BY <1>13 DEF ConvertOther, directive
  <2>2. F \in Seq(Chars)
    BY <1>4
  <2> HIDE DEF F
  <2>3. out' \in Seq(Chars)
    BY <1>2, <2>1, <2>2, Join
  <2> QED BY <1>2, <2>1, <2>3 DEF TextOK
<1>14. CASE ConvertChar \/ ConvertString \/ ConvertNumber \/ ConvertPointer
  <2>1. ap' = ap + 1 /\ UNCHANGED <<flags, field_width, precision>>
    BY <1>14 DEF ConvertChar, ConvertString, ConvertNumber, ConvertPointer, Converted, directive
  <2>2. PICK F \in Seq(Chars) : out' = out \o F
    BY <1>14, CharacterWritten, StringWritten, NumberWritten
  <2>3. out' \in Seq(Chars)
    BY <1>2, <2>2, Join
  <2> QED BY <1>2, <2>1, <2>3 DEF TextOK
<1> QED BY <1>5, <1>6, <1>7, <1>8, <1>9, <1>10, <1>11, <1>12, <1>13, <1>14 DEF Next

-----------------------------------------------------------------------------
(* The two action properties: a conversion is the only step that starts    *)
(* from its character.                                                     *)
LEMMA ConversionOnly ==
  ASSUME Next, pc = "convert"
  PROVE  /\ At(pos) = "s" => ConvertString
         /\ At(pos) = "c" => ConvertChar
         /\ At(pos) = "p" => ConvertPointer
         /\ At(pos) \in {"d", "i", "u", "x", "X", "o"} => ConvertNumber
<1>1. \/ ConvertChar \/ ConvertString \/ ConvertPointer \/ ConvertCount
      \/ ConvertPercent \/ ConvertNumber \/ ConvertOther
  BY DEF Next, Literal, Percent, Flag, Width, Precision, Qualifier, Terminate, Puts
<1>2. /\ ConvertChar => At(pos) = "c"
      /\ ConvertString => At(pos) = "s"
      /\ ConvertPointer => At(pos) = "p"
      /\ ConvertCount => At(pos) = "n"
      /\ ConvertPercent => At(pos) = "%"
      /\ ConvertNumber => At(pos) \in {"d", "i", "u", "x", "X", "o"}
      /\ ConvertOther
           => At(pos) \notin {"c", "s", "p", "n", "%", "d", "i", "u", "x", "X", "o"}
  BY DEF ConvertChar, ConvertString, ConvertPointer, ConvertCount, ConvertPercent,
         ConvertNumber, ConvertOther
<1> QED BY <1>1, <1>2

LEMMA StringsHold == FormatOK /\ TextOK /\ ParseInv /\ [Next]_vars => [StringsStep]_vars
<1> SUFFICES ASSUME FormatOK, TextOK, ParseInv, Next, pc = "convert", At(pos) \in {"s", "c"}
             PROVE  PaddedTo(Field, field_width, Wanted)
  BY DEF StringsStep
<1>1. ConvertString \/ ConvertChar
  BY ConversionOnly
<1>2. PICK F \in Seq(Chars) : out' = out \o F /\ PaddedTo(F, field_width, Wanted)
  BY <1>1, StringWritten, CharacterWritten
<1>3. Field = F
  BY <1>2, FieldIs DEF TextOK
<1> QED BY <1>2, <1>3

LEMMA NumbersHold == FormatOK /\ TextOK /\ ParseInv /\ [Next]_vars => [NumbersStep]_vars
<1> SUFFICES ASSUME FormatOK, TextOK, ParseInv, Next, pc = "convert",
                    At(pos) \in {"d", "i", "u", "x", "X", "o", "p"}
             PROVE  ReadsBack(Field)
  BY DEF NumbersStep
<1>1. ConvertNumber \/ ConvertPointer
  BY ConversionOnly
<1>2. PICK F \in Seq(Chars) : out' = out \o F /\ ReadsBack(F)
  BY <1>1, NumberWritten
<1>3. Field = F
  BY <1>2, FieldIs DEF TextOK
<1> QED BY <1>2, <1>3

(* The invariant both properties rest on.                                  *)
WritingOK == FormatOK /\ PointerInside /\ ParseInv /\ InsideFormat /\ TextOK

LEMMA WritingInvariant ==
  ASSUME \A call \in Calls : WellFormed(call)
  PROVE  Spec => []WritingOK
<1>1. Init => ParseInv
  BY ParseInit
<1>2. Init => FormatOK /\ PointerInside /\ TextOK
  BY FormatInit, TextInit
<1> QED BY <1>1, <1>2, ParseStep, PointerStep, ParseInside, TextStep, PTL DEF Spec, WritingOK

(* %s and %c write exactly the argument, cut to the precision and padded   *)
(* on one side, for every string, precision and width; and the buffer that *)
(* is formatted onto itself in front, as main.c does with the command      *)
(* line, keeps what it held before the call.                               *)
THEOREM StringsWritten ==
  ASSUME \A call \in Calls : WellFormed(call)
  PROVE  Spec => StringsExact
<1>1. Spec => []WritingOK
  BY WritingInvariant
<1>2. WritingOK /\ [Next]_vars => [StringsStep]_vars
  BY StringsHold DEF WritingOK
<1>3. Spec => [][StringsStep]_vars
  BY <1>1, <1>2, PTL DEF Spec
<1> QED BY <1>3, StepsNamed

(* What number writes reads back as the argument, for every word, base,    *)
(* width, precision, size and set of flags: the least long, zero, a        *)
(* negative half word and a field narrower than its digits included.       *)
THEOREM NumbersWritten ==
  ASSUME \A call \in Calls : WellFormed(call)
  PROVE  Spec => NumbersReadBack
<1>1. Spec => []WritingOK
  BY WritingInvariant
<1>2. WritingOK /\ [Next]_vars => [NumbersStep]_vars
  BY NumbersHold DEF WritingOK
<1>3. Spec => [][NumbersStep]_vars
  BY <1>1, <1>2, PTL DEF Spec
<1> QED BY <1>3, StepsNamed
=============================================================================
