----------------------------- MODULE MCConsole -----------------------------
(***************************************************************************)
(* Console with a buffer of five cells: lines that fill it, lines shorter  *)
(* than the one before, and erasing in the middle and at the start.        *)
(***************************************************************************)
EXTENDS Console

MCChars      == {"a", " "}
AllPlatforms == {"c1700", "c3600", "c7200"}
=============================================================================
