------------------------------ MODULE MCPrintf ------------------------------
(***************************************************************************)
(* Printf on words of one byte: every integer directive with up to two     *)
(* flags, a width and a precision that are absent, written or taken from   *)
(* the arguments, and the values at the ends of the word and of the half   *)
(* word; strings, characters and pointers in the same fields; the formats  *)
(* of the loader; formats that end inside a directive.                     *)
(***************************************************************************)
EXTENDS FormatParse

IntArg(n) == [kind |-> "int", int |-> n, str |-> << >>]
StrArg(s)  == [kind |-> "str", int |-> 0, str |-> s]
Null    == [kind |-> "null", int |-> 0, str |-> << >>]
Own     == [kind |-> "own", int |-> 0, str |-> << >>]

Call(f, a) == [fmt |-> f, args |-> a]

FlagStrings == {<< >>} \cup {<<f>> : f \in FlagChars}
                 \cup {<<"-", "0">>, <<"0", "+">>, <<"#", "0">>, <<"+", " ">>, <<"#", "-">>}
IntValues   == {0, 1, 9, 8, 127, 128, 255}

(* A width or a precision with the argument it takes.                      *)
Widths     == {[f |-> << >>, a |-> << >>], [f |-> <<"6">>, a |-> << >>],
               [f |-> <<"*">>, a |-> <<IntArg(251)>>]}
Precisions == {[f |-> << >>, a |-> << >>], [f |-> <<".">>, a |-> << >>],
               [f |-> <<".", "3">>, a |-> << >>], [f |-> <<".", "*">>, a |-> <<IntArg(2)>>]}

Directive(fl, w, p, q, c, arg) ==
  Call(<<"%">> \o fl \o w.f \o p.f \o q \o <<c>>, w.a \o p.a \o <<arg>>)

IntCalls ==
  {Directive(fl, w, p, q, c, IntArg(n)) :
     fl \in FlagStrings, w \in Widths, p \in Precisions, q \in {<< >>, <<"h">>},
     c \in {"d", "u", "x", "X", "o"}, n \in IntValues}

OtherCalls ==
  {Directive(fl, w, p, << >>, "s", s) :
     fl \in {<< >>, <<"-">>, <<"0">>}, w \in Widths, p \in Precisions,
     s \in {Null, StrArg(<<"k">>), StrArg(<<"k", "x", "x", "x">>)}}
  \cup {Directive(fl, w, [f |-> << >>, a |-> << >>], << >>, "c", StrArg(<<"k">>)) :
          fl \in {<< >>, <<"-">>}, w \in Widths}
  \cup {Directive(fl, w, p, << >>, "p", IntArg(n)) :
          fl \in {<< >>, <<"-">>, <<"#">>}, w \in Widths, p \in Precisions, n \in {0, 10, 255}}

(* sprintf of the command line, flash_directory's line, a line break, and  *)
(* formats that stop inside a directive or hold an unknown one.            *)
WholeCalls ==
  { Call(<<"%", "s", " ", "c", "=", "%", "d">>, <<Own, IntArg(96)>>),
    Call(<<"%", "1", "2", "s", "%", "5", "d", "%", "n", LF>>,
         <<StrArg(<<"k", "x">>), IntArg(200), IntArg(0)>>),
    Call(<<LF, "a", LF, LF>>, << >>),
    Call(<<"%", "%", "%", "l", "i", "q">>, <<IntArg(255)>>),
    Call(<<"a", "%">>, << >>), Call(<<"%", "-", "3">>, << >>),
    Call(<<"%", ".">>, << >>), Call(<<"%", "L">>, << >>),
    Call(<<"%", "q", "%", ".", "*", "y">>, <<IntArg(255)>>) }

MCCalls == IntCalls \cup OtherCalls \cup WholeCalls
MCOld   == <<"a", "b">>

-----------------------------------------------------------------------------
(* Each of these calls is well formed: the pieces of f from position at    *)
(* on, when need arguments have been taken, are a parse of it.             *)
RECURSIVE Over(_, _, _)
Over(f, k, S) == IF CharOf(f, k) \in S THEN Over(f, k + 1, S) ELSE k

Digits == {Decimal[k] : k \in 1 .. 10}

RECURSIVE Parse(_, _, _)
Parse(f, at, need) ==
  LET literal == [at |-> at, w |-> 0, p |-> 0, q |-> 0, c |-> 0, need |-> need]
      w == Over(f, at + 1, FlagChars)
      p == IF CharOf(f, w) = "*" THEN w + 1 ELSE Over(f, w, Digits)
      q == IF CharOf(f, p) # "." THEN p
           ELSE IF CharOf(f, p + 1) = "*" THEN p + 2 ELSE Over(f, p + 1, Digits)
      c == IF CharOf(f, q) \in {"h", "l", "L"} THEN q + 1 ELSE q
      d == [at |-> at, w |-> w, p |-> p, q |-> q, c |-> c, need |-> need]
  IN  IF at > Len(f) THEN <<literal>>
      ELSE IF f[at] # "%" THEN <<literal>> \o Parse(f, at + 1, need)
      ELSE <<d>> \o Parse(f, IF c <= Len(f) THEN c + 1 ELSE c, need + Taken(f, d))

ASSUME \A call \in MCCalls : IsParse(call.fmt, call.args, Parse(call.fmt, 1, 0))
=============================================================================
