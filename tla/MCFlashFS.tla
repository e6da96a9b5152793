----------------------------- MODULE MCFlashFS -----------------------------
(***************************************************************************)
(* FlashFS with entries of two cells on an address space of sixteen: up to *)
(* three files, equal names, empty files, names that fill the field, and a *)
(* length that leads the walk back to its first entry.                     *)
(***************************************************************************)
EXTENDS FlashFS

MCNames == {<<"a">>, <<"b">>, <<"a", "a">>, <<"a", "b">>}

f(name, length) == [name |-> name, length |-> length]

MCFiles == {f(n, l) : n \in MCNames, l \in {0, 3}}

MCDisks ==
  {<< >>} \cup {<<x>> : x \in MCFiles} \cup {<<x, y>> : x, y \in MCFiles}
    \cup {<<f(<<"a">>, 1), x, f(<<"b">>, 2)>> : x \in MCFiles}
    \cup {<<f(<<"a">>, 14)>>}

MCAmounts == {1, 2, 13}
=============================================================================
