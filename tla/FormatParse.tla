---------------------------- MODULE FormatParse -----------------------------
(***************************************************************************)
(* Which calls of vsprintf are well formed: what C asks of the caller, and *)
(* what the theorems of PrintfProofs assume of Calls.  It is stated apart  *)
(* from the actions of Printf, on the format alone, by how the format is   *)
(* taken apart.                                                            *)
(***************************************************************************)
EXTENDS Printf

(* What a caller has to get right.  A format is taken apart into literal   *)
(* characters and directives; a directive begins at at, its width at w,    *)
(* its precision at p, its qualifier at q and its conversion at c, and     *)
(* need counts the arguments taken before it.  The last directive may be   *)
(* cut short by the end of the format.                                     *)
Piece == [at: Nat, w: Nat, p: Nat, q: Nat, c: Nat, need: Nat]

CharOf(f, k) == IF k <= Len(f) THEN f[k] ELSE NUL

AllDigits(f, a, b) == \A k \in a .. b - 1 : isdigit(CharOf(f, k))

StarWidth(f, d) == d.p = d.w + 1 /\ CharOf(f, d.w) = "*"

WidthPart(f, d) ==
  \/ d.p = d.w
  \/ StarWidth(f, d)
  \/ d.w < d.p /\ CharOf(f, d.w) # "0" /\ AllDigits(f, d.w, d.p)

StarPrecision(f, d) == d.q = d.p + 2 /\ CharOf(f, d.p) = "." /\ CharOf(f, d.p + 1) = "*"

PrecisionPart(f, d) ==
  \/ d.q = d.p
  \/ StarPrecision(f, d)
  \/ d.p < d.q /\ CharOf(f, d.p) = "." /\ AllDigits(f, d.p + 1, d.q)

QualifierPart(f, d) ==
  d.c = d.q \/ (d.c = d.q + 1 /\ CharOf(f, d.q) \in {"h", "l", "L"})

(* What may stand for the conversion: nothing that would be read as an     *)
(* earlier part.                                                           *)
Converts(c) == c \notin FlagChars /\ ~isdigit(c) /\ c \notin {"*", ".", "h", "l", "L"}

Taking == {"c", "s", "p", "n", "d", "i", "u", "x", "X", "o"}

One(b) == IF b THEN 1 ELSE 0

Stars(f, d) == One(StarWidth(f, d)) + One(StarPrecision(f, d))

Taken(f, d) == Stars(f, d) + One(CharOf(f, d.c) \in Taking)

(* The arguments are of the kind the directive takes: a character is one   *)
(* character, a width can be negated, and the buffer itself is only given  *)
(* to a plain %s at the start of the format, as in main.c.                 *)
Suits(f, a, d, e) ==
  /\ StarWidth(f, d) => Signed(a[d.need + 1].int) # -(Word \div 2)
  /\ CharOf(f, d.c) = "c" => a[e.need].kind = "str" /\ Len(a[e.need].str) = 1
  /\ CharOf(f, d.c) = "s" => \/ a[e.need].kind \in {"str", "null"}
                             \/ a[e.need].kind = "own" /\ d.at = 1 /\ d.c = 2

InOrder(f, d) ==
  /\ 1 <= d.at /\ d.at < d.w /\ d.w <= d.p /\ d.p <= d.q /\ d.q <= d.c /\ d.c <= Len(f) + 1
  /\ CharOf(f, d.at) = "%"
  /\ \A k \in d.at + 1 .. d.w - 1 : CharOf(f, k) \in FlagChars

IsDirective(f, a, d, e) ==
  /\ InOrder(f, d)
  /\ WidthPart(f, d) /\ PrecisionPart(f, d) /\ QualifierPart(f, d)
  /\ Converts(CharOf(f, d.c))
  /\ e.at = (IF d.c <= Len(f) THEN d.c + 1 ELSE d.c)
  /\ e.need = d.need + Taken(f, d) /\ e.need <= Len(a)
  /\ Suits(f, a, d, e)

IsLiteral(f, d, e) ==
  /\ CharOf(f, d.at) \notin {"%", NUL} /\ e.at = d.at + 1 /\ e.need = d.need

IsParse(f, a, P) ==
  /\ P \in Seq(Piece) /\ Len(P) >= 1
  /\ P[1].at = 1 /\ P[1].need = 0
  /\ P[Len(P)].at = Len(f) + 1 /\ P[Len(P)].need = Len(a)
  /\ \A j \in 1 .. Len(P) - 1 :
       /\ P[j].need <= Len(a)
       /\ IsLiteral(f, P[j], P[j + 1]) \/ IsDirective(f, a, P[j], P[j + 1])

WellFormed(call) == \E P : IsParse(call.fmt, call.args, P)
=============================================================================
