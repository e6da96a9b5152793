---------------------------- MODULE MCLzmaDecode ----------------------------
(***************************************************************************)
(* LzmaDecode on outputs of up to eleven bytes, room for four distances    *)
(* that all differ.  Lengths 0 and 2 give copies of two and four bytes,    *)
(* within and beyond the room left; the distances are the end marker, all  *)
(* inside the window and the first outside.  The values of the bytes       *)
(* decide nothing: one is enough.                                          *)
(***************************************************************************)
EXTENDS LzmaDecode

MCOutSizes  == 0 .. 11
MCLens      == {0, 2}
MCDistances == 0 .. 12
=============================================================================
