------------------------------- MODULE Printf -------------------------------
(***************************************************************************)
(* vsprintf and number (printf.c), with c_strnlen and c_puts of            *)
(* promlib.c: the formatter behind every message of the loader and behind  *)
(* the command line it hands to the kernel.                                *)
(*                                                                         *)
(* A character is a one-letter string, a format a sequence of them; the    *)
(* character behind its end is NUL.  An argument is a record: the machine  *)
(* word int or the string str; of kind "own" is the string that the        *)
(* written buffer holds.  int, long and void * are one word each, as on    *)
(* the Makefile's targets.                                                 *)
(***************************************************************************)
EXTENDS Integers, Sequences, SequencesExt

CONSTANTS
  Calls,      \* the calls: records of a format fmt and arguments args
  Old,        \* what the buffer holds before the call
  Word,       \* 2^32
  Short,      \* 2^16
  PtrDigits,  \* 2 * sizeof(void *), 8
  CrLf        \* c_puts of c1700: a carriage return goes before a line feed

NUL == "nul"
CR  == "\r"
LF  == "\n"

Argument == [kind: {"int", "str", "null", "own"}, int: 0 .. Word - 1, str: Seq(STRING)]

ASSUME PrintfAssumption ==
  /\ Word \in Nat /\ Short \in Nat /\ Short > 0 /\ Short < Word
  /\ Word % 2 = 0 /\ Short % 2 = 0
  /\ PtrDigits \in Nat /\ CrLf \in BOOLEAN
  /\ Calls \subseteq [fmt: Seq(STRING \ {NUL}), args: Seq(Argument)]
  /\ Old \in Seq(STRING)

VARIABLES
  fmt, args,
  pos,          \* the format pointer: fmt[pos] is next
  ap,           \* the arguments taken from args
  flags, field_width, precision, qualifier,
  out,          \* the characters written to buf
  counted,      \* what %n stored last
  console,      \* what c_puts sent
  pc            \* "scan", "flags", "precision", "qualifier", "convert", "puts", "done"

vars == <<fmt, args, pos, ap, flags, field_width, precision, qualifier, out,
          counted, console, pc>>
directive == <<flags, field_width, precision, qualifier>>

Init ==
  /\ \E call \in Calls : fmt = call.fmt /\ args = call.args
  /\ pos = 1 /\ ap = 0
  /\ flags = {} /\ field_width = -1 /\ precision = -1 /\ qualifier = NUL
  /\ out = << >> /\ counted = -1 /\ console = << >>
  /\ pc = "scan"

At(p) == IF p <= Len(fmt) THEN fmt[p] ELSE NUL

-----------------------------------------------------------------------------
(* The numbers in a format.                                                *)
Decimal == <<"0", "1", "2", "3", "4", "5", "6", "7", "8", "9">>

isdigit(c) == \E k \in 1 .. 10 : Decimal[k] = c

DigitValue(c) == (CHOOSE k \in 1 .. 10 : Decimal[k] = c) - 1

(* skip_atoi: where the digits from p on end, and their value.  Numbers    *)
(* that do not fit an int, in the format or negated, are left out.         *)
AfterDigits(p) ==
  CHOOSE e \in p .. Len(fmt) + 1 :
    ~isdigit(At(e)) /\ \A k \in p .. e - 1 : isdigit(At(k))

skip_atoi(p) ==
  LET i[k \in 0 .. AfterDigits(p) - p] ==
        IF k = 0 THEN 0 ELSE i[k - 1] * 10 + DigitValue(At(p + k - 1))
  IN  i[AfterDigits(p) - p]

(* A word read as int or long.                                             *)
Signed(w) == IF w >= Word \div 2 THEN w - Word ELSE w

-----------------------------------------------------------------------------
(* number(str, num, base, size, precision, type): the characters it        *)
(* writes.  Digits are divided off an unsigned word, so that the least     *)
(* long, which is its own negative, has its digits too.                    *)
Fill(c, n) == [k \in 1 .. (IF n > 0 THEN n ELSE 0) |-> c]

digits == Decimal \o <<"A", "B", "C", "D", "E", "F">>
lower  == Decimal \o <<"a", "b", "c", "d", "e", "f">>

tmp(num, base, small) ==
  LET d[n \in 0 .. Word - 1] ==
        LET c == IF small THEN lower[(n % base) + 1] ELSE digits[(n % base) + 1]
        IN  IF n < base THEN <<c>> ELSE Append(d[n \div base], c)
  IN  d[num]

Sign(num, type) ==
  IF "SIGN" \notin type THEN << >>
  ELSE IF Signed(num) < 0 THEN <<"-">>
  ELSE IF "PLUS" \in type THEN <<"+">>
  ELSE IF "SPACE" \in type THEN <<" ">> ELSE << >>

Prefix(base, type) ==
  IF "SPECIAL" \notin type THEN << >>
  ELSE IF base = 8 THEN <<"0">>
  ELSE IF base = 16 THEN <<"0", IF "SMALL" \in type THEN "x" ELSE "X">> ELSE << >>

(* Spaces go in front of the sign or behind the digits, zeros in between.  *)
(* The mutant lets zeros in on the left of the sign.                       *)
JustifyZeroFirst(sign, body, pad, type) ==
  IF "LEFT" \in type THEN sign \o body \o Fill(" ", pad)
  ELSE Fill(IF "ZEROPAD" \in type THEN "0" ELSE " ", pad) \o sign \o body

Justify(sign, body, pad, type) ==
  IF "LEFT" \in type THEN sign \o body \o Fill(" ", pad)
  ELSE IF "ZEROPAD" \in type THEN sign \o Fill("0", pad) \o body
  ELSE Fill(" ", pad) \o sign \o body

number(num, base, size, prec, type) ==
  LET sign   == Sign(num, type)
      prefix == Prefix(base, type)
      t      == tmp(IF "SIGN" \in type /\ Signed(num) < 0 THEN Word - num ELSE num,
                    base, "SMALL" \in type)
      zeros  == Fill("0", prec - Len(t))
  IN  Justify(sign \o prefix, zeros \o t,
              size - Len(sign) - Len(prefix) - Len(zeros) - Len(t), type)

-----------------------------------------------------------------------------
(* c_strnlen(s, maxlen) of a string with a terminator; -1 is no limit, a   *)
(* null pointer has length 0.  The mutant counts one more.                 *)
c_strnlenLate(s, maxlen) == IF maxlen >= 0 /\ maxlen < Len(s) THEN maxlen + 1 ELSE Len(s)

c_strnlen(s, maxlen) == IF maxlen >= 0 /\ maxlen < Len(s) THEN maxlen ELSE Len(s)

(* What buf holds when o has been written to it.                           *)
Buf(o) == o \o SubSeq(Old, Len(o) + 1, Len(Old))

(* *str++ = *s++, len times, from a string apart or from buf itself.       *)
Copied(o, s, own, len) ==
  LET str[i \in 0 .. len] ==
        IF i = 0 THEN o
        ELSE Append(str[i - 1], IF own THEN Buf(str[i - 1])[i] ELSE s[i])
  IN  str[len]

Arg == args[ap + 1]

-----------------------------------------------------------------------------
(* A character outside a directive.                                        *)
Literal ==
  /\ pc = "scan" /\ At(pos) \notin {"%", NUL}
  /\ out' = Append(out, At(pos))
  /\ pos' = pos + 1
  /\ UNCHANGED <<fmt, args, ap, directive, counted, console, pc>>

Percent ==
  /\ pc = "scan" /\ At(pos) = "%"
  /\ flags' = {} /\ pos' = pos + 1
  /\ pc' = "flags"
  /\ UNCHANGED <<fmt, args, ap, field_width, precision, qualifier, out, counted, console>>

FlagChars == {"-", "+", " ", "#", "0"}
FlagOf(c) == CASE c = "-" -> "LEFT" [] c = "+" -> "PLUS" [] c = " " -> "SPACE"
               [] c = "#" -> "SPECIAL" [] c = "0" -> "ZEROPAD"

Flag ==
  /\ pc = "flags" /\ At(pos) \in FlagChars
  /\ flags' = flags \cup {FlagOf(At(pos))}
  /\ pos' = pos + 1
  /\ UNCHANGED <<fmt, args, ap, field_width, precision, qualifier, out, counted, console, pc>>

(* The field width: digits, an argument (a negative one means "-"), none.  *)
Width ==
  /\ pc = "flags" /\ At(pos) \notin FlagChars
  /\ \/ /\ isdigit(At(pos))
        /\ field_width' = skip_atoi(pos) /\ pos' = AfterDigits(pos)
        /\ UNCHANGED <<ap, flags>>
     \/ /\ At(pos) = "*"
        /\ field_width' = IF Signed(Arg.int) < 0 THEN -Signed(Arg.int) ELSE Arg.int
        /\ flags' = flags \cup (IF Signed(Arg.int) < 0 THEN {"LEFT"} ELSE {})
        /\ ap' = ap + 1 /\ pos' = pos + 1
     \/ /\ ~isdigit(At(pos)) /\ At(pos) # "*"
        /\ field_width' = -1
        /\ UNCHANGED <<ap, flags, pos>>
  /\ pc' = "precision"
  /\ UNCHANGED <<fmt, args, precision, qualifier, out, counted, console>>

(* The precision: a point alone and a negative argument mean 0.            *)
Precision ==
  /\ pc = "precision"
  /\ \/ /\ At(pos) # "." /\ precision' = -1
        /\ UNCHANGED <<ap, pos>>
     \/ /\ At(pos) = "." /\ isdigit(At(pos + 1))
        /\ precision' = skip_atoi(pos + 1) /\ pos' = AfterDigits(pos + 1)
        /\ UNCHANGED ap
     \/ /\ At(pos) = "." /\ At(pos + 1) = "*"
        /\ precision' = IF Signed(Arg.int) < 0 THEN 0 ELSE Arg.int
        /\ ap' = ap + 1 /\ pos' = pos + 2
     \/ /\ At(pos) = "." /\ ~isdigit(At(pos + 1)) /\ At(pos + 1) # "*"
        /\ precision' = 0 /\ pos' = pos + 1
        /\ UNCHANGED ap
  /\ pc' = "qualifier"
  /\ UNCHANGED <<fmt, args, flags, field_width, qualifier, out, counted, console>>

Qualifier ==
  /\ pc = "qualifier"
  /\ LET q == At(pos) \in {"h", "l", "L"}
     IN  /\ qualifier' = IF q THEN At(pos) ELSE NUL
         /\ pos' = IF q THEN pos + 1 ELSE pos
  /\ pc' = "convert"
  /\ UNCHANGED <<fmt, args, ap, flags, field_width, precision, out, counted, console>>

-----------------------------------------------------------------------------
(* A conversion is over: on with the character behind it.                  *)
Converted(taken) ==
  /\ ap' = ap + taken /\ pos' = pos + 1
  /\ pc' = "scan"
  /\ UNCHANGED <<fmt, args, directive, console>>

(* A field of a given text, with spaces up to the field width.             *)
Padding(len) == IF field_width > len THEN field_width - len ELSE 0

ConvertChar ==
  /\ pc = "convert" /\ At(pos) = "c"
  /\ out' = out \o Justify(<< >>, Arg.str, Padding(1), flags \ {"ZEROPAD"})
  /\ Converted(1)
  /\ UNCHANGED counted

ConvertString ==
  /\ pc = "convert" /\ At(pos) = "s"
  /\ LET own   == Arg.kind = "own"
         len   == c_strnlen(IF own THEN Buf(out) ELSE Arg.str, precision)
         left  == IF "LEFT" \in flags THEN 0 ELSE Padding(len)
     IN  out' = Copied(out \o Fill(" ", left), Arg.str, own, len)
                  \o Fill(" ", Padding(len) - left)
  /\ Converted(1)
  /\ UNCHANGED counted

ConvertPointer ==
  /\ pc = "convert" /\ At(pos) = "p"
  /\ out' = out \o (IF field_width = -1
                    THEN number(Arg.int, 16, PtrDigits, precision, flags \cup {"ZEROPAD"})
                    ELSE number(Arg.int, 16, field_width, precision, flags))
  /\ Converted(1)
  /\ UNCHANGED counted

ConvertCount ==
  /\ pc = "convert" /\ At(pos) = "n"
  /\ counted' = Len(out)
  /\ Converted(1)
  /\ UNCHANGED out

ConvertPercent ==
  /\ pc = "convert" /\ At(pos) = "%"
  /\ out' = Append(out, "%")
  /\ Converted(0)
  /\ UNCHANGED counted

Base(c) == IF c = "o" THEN 8 ELSE IF c \in {"x", "X"} THEN 16 ELSE 10

TypeOf(c) == flags \cup (IF c = "x" THEN {"SMALL"} ELSE {})
                   \cup (IF c \in {"d", "i"} THEN {"SIGN"} ELSE {})

(* The word given to number: h keeps the low half, sign-extended for d and *)
(* i.                                                                      *)
Num(w, c) ==
  IF qualifier # "h" THEN w
  ELSE IF c \in {"d", "i"} /\ w % Short >= Short \div 2 THEN (Word - Short) + (w % Short)
  ELSE w % Short

ConvertNumber ==
  /\ pc = "convert" /\ At(pos) \in {"d", "i", "u", "x", "X", "o"}
  /\ out' = out \o number(Num(Arg.int, At(pos)), Base(At(pos)), field_width, precision,
                          TypeOf(At(pos)))
  /\ Converted(1)
  /\ UNCHANGED counted

(* Any other character is shown; at the end of the format the pointer goes *)
(* back one, so that the loop's increment meets the terminator.  The       *)
(* mutant does not step back.                                              *)
AfterOtherLost(p) == p + 1

AfterOther(p) == IF At(p) = NUL THEN p ELSE p + 1

ConvertOther ==
  /\ pc = "convert"
  /\ At(pos) \notin {"c", "s", "p", "n", "%", "d", "i", "u", "x", "X", "o"}
  /\ out' = out \o (IF At(pos) = NUL THEN <<"%">> ELSE <<"%", At(pos)>>)
  /\ pos' = AfterOther(pos)
  /\ pc' = "scan"
  /\ UNCHANGED <<fmt, args, ap, directive, counted, console>>

(* The end of the format.                                                  *)
Terminate ==
  /\ pc = "scan" /\ At(pos) = NUL
  /\ pc' = "puts"
  /\ UNCHANGED <<fmt, args, pos, ap, directive, out, counted, console>>

(* c_puts: c1700 sends a carriage return behind each character that is     *)
(* followed by a line feed.                                                *)
c_puts(s) ==
  FlattenSeq([k \in 1 .. Len(s) |->
    IF CrLf /\ k < Len(s) /\ s[k + 1] = LF THEN <<s[k], CR>> ELSE <<s[k]>>])

Puts ==
  /\ pc = "puts"
  /\ console' = c_puts(out)
  /\ pc' = "done"
  /\ UNCHANGED <<fmt, args, pos, ap, directive, out, counted>>

Next ==
  \/ Literal \/ Percent \/ Flag \/ Width \/ Precision \/ Qualifier
  \/ ConvertChar \/ ConvertString \/ ConvertPointer \/ ConvertCount
  \/ ConvertPercent \/ ConvertNumber \/ ConvertOther
  \/ Terminate \/ Puts

Spec == Init /\ [][Next]_vars

-----------------------------------------------------------------------------
(* The field a step adds to the text.                                      *)
Field == SubSeq(out', Len(out) + 1, Len(out'))

Spaces(s) == \A k \in 1 .. Len(s) : s[k] = " "

(* The number a run of digits stands for, and its digits' alphabet.        *)
HexValue(c) == (CHOOSE k \in 1 .. 16 : c \in {digits[k], lower[k]}) - 1

Value(s, base) ==
  LET v[k \in 0 .. Len(s)] == IF k = 0 THEN 0 ELSE v[k - 1] * base + HexValue(s[k])
  IN  v[Len(s)]

AreDigits(s, base, set) == \A k \in 1 .. Len(s) : \E d \in 1 .. base : s[k] = set[d]

(* The value an integer directive is asked to show; a pointer has no size. *)
Asked(c) ==
  LET h    == qualifier = "h" /\ c # "p"
      w    == IF h THEN Arg.int % Short ELSE Arg.int
      half == IF h THEN Short \div 2 ELSE Word \div 2
  IN  IF c \in {"d", "i"} /\ w >= half THEN w - 2 * half ELSE w

(* text stands in the field, spaces fill it to the width on the side that  *)
(* the flags name, and nothing fills a field that is wide enough.          *)
PaddedTo(field, width, text) ==
  \E l, r \in 0 .. Len(field) :
    /\ l + r <= Len(field)
    /\ Spaces(SubSeq(field, 1, l)) /\ Spaces(SubSeq(field, Len(field) - r + 1, Len(field)))
    /\ SubSeq(field, l + 1, Len(field) - r) = text
    /\ l > 0 => "LEFT" \notin flags
    /\ r > 0 => "LEFT" \in flags
    /\ Len(field) = IF width > Len(text) THEN width ELSE Len(text)

(* The field shows v: the mark, then digits of the base with the value v,  *)
(* at least as many as the precision, with leading zeros only up to the    *)
(* precision or, where the flags say so, to fill the width.                *)
ShowsNumber(field, v, base, set, width, mark, zeropad) ==
  \E n \in 1 .. Len(field) : \E i \in 0 .. Len(field) - n :
    LET ds == SubSeq(field, i + 1, i + n)
    IN  /\ AreDigits(ds, base, set) /\ Value(ds, base) = v
        /\ n >= precision
        /\ \/ n = 1 \/ n = precision \/ ds[1] # "0"
           \/ "LEFT" \notin flags /\ "ZEROPAD" \in zeropad /\ Len(field) = width
        /\ PaddedTo(field, width, mark \o ds)

ReadsBack(field) ==
  LET c      == At(pos)
      base   == IF c = "p" THEN 16 ELSE Base(c)
      signed == c \in {"d", "i"}
      bare   == c = "p" /\ field_width = -1
      v      == Asked(c)
      mark   == IF v < 0 THEN <<"-">>
                ELSE IF signed /\ "PLUS" \in flags THEN <<"+">>
                ELSE IF signed /\ "SPACE" \in flags THEN <<" ">> ELSE << >>
      prefix == IF "SPECIAL" \notin flags \/ base = 10 THEN << >>
                ELSE IF base = 8 THEN <<"0">>
                ELSE IF c = "x" THEN <<"0", "x">> ELSE <<"0", "X">>
  IN  ShowsNumber(field, IF v < 0 THEN -v ELSE v, base, IF c = "x" THEN lower ELSE digits,
                  IF bare THEN PtrDigits ELSE field_width, mark \o prefix,
                  IF bare THEN {"ZEROPAD"} ELSE flags)

(* What number (printf.c) writes reads back as the argument: for every     *)
(* mix of flags, width, precision and size, a sign exactly when asked for, *)
(* the base's prefix, digits of the base whose value is the argument's, at *)
(* least as many as the precision, with leading zeros only up to the       *)
(* precision or to fill the width, and spaces on one side.                 *)
NumbersReadBack ==
  [][pc = "convert" /\ At(pos) \in {"d", "i", "u", "x", "X", "o", "p"}
       => ReadsBack(Field)]_vars

(* The text a %s or %c directive is asked to show.                         *)
Wanted ==
  LET s == IF Arg.kind = "own" THEN Old ELSE Arg.str
  IN  IF At(pos) = "s" /\ precision \in 0 .. Len(s) THEN SubSeq(s, 1, precision) ELSE s

(* %s and %c write the argument, a string cut to the precision, padded on  *)
(* one side; and a string that is the buffer itself, as in main.c's        *)
(* sprintf(cmd_line, "%s console=ttyS0,%d", cmd_line, baud), is still what *)
(* it was before the call.                                                 *)
StringsExact ==
  [][pc = "convert" /\ At(pos) \in {"s", "c"}
       => PaddedTo(Field, field_width, Wanted)]_vars

(* The format is read up to its terminator and no further, a directive cut *)
(* short by the end of the format included, and every directive takes its  *)
(* own arguments: all of them are used when the format is done.            *)
InsideFormat ==
  /\ pos <= Len(fmt) + 1
  /\ ap <= Len(args)
  /\ pc = "done" => ap = Len(args)
=============================================================================
