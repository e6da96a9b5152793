---------------------------- MODULE MCLzmaLoader ----------------------------
(***************************************************************************)
(* LzmaLoader with a buffer of four bytes: files empty, shorter than the   *)
(* header, of exactly the header, too short for RC_INIT, and of one to     *)
(* seven chunks; 45 is long enough for total_read * 100 to overflow.       *)
(***************************************************************************)
EXTENDS LzmaLoader

MCFileLens == {0, 3, 11, 13, 16, 18, 21, 26, 39, 45}
=============================================================================
