------------------------------- MODULE MCBoot -------------------------------
(***************************************************************************)
(* Boot with a kernel buffer of four characters, a line buffer of seven    *)
(* and three-letter needles: lines typed, corrected and filled to the end, *)
(* names alone and with arguments, shorter and longer than the ones before,*)
(* longer than kernel[], and needles complete, cut short and preceded by   *)
(* their own first letter.                                                 *)
(***************************************************************************)
EXTENDS Boot

MCLines ==
  { << >>, <<"k">>, <<"k", "x">>, <<"k", "x", "x", "x", "x">>,
    <<"x", "l", "z", "m">>, <<"l", "z">>,
    <<"k", " ", "a">>, <<"k", "x", " ", "a">>, <<" ", "k">>, <<"k", " ">>,
    <<"k", " ", "c", "o", "n">>, <<"k", " ", "c", "o">>, <<"k", " ", "c", "c", "o", "n">>,
    <<"k", "x", "x", "x", " ", "a">>, <<"k", "DEL">> }

MCFiles ==
  { <<"k">>, <<"k", "x">>, <<"k", "x", "x", "x">>, <<"x", "l", "z", "m">>, <<"l", "z">> }

MCChars   == {"k", "x", "l", "z", "m", "c", "o", "n", "a", " "}
MCPlatforms == {"c3600", "c7200"}
MCClass32 == MCFiles \ {<<"k", "x">>}
MCConsoleWord == <<"c", "o", "n">>
MCLzmaWord == <<"l", "z", "m">>
=============================================================================
