------------------------------- MODULE CiloIO -------------------------------
(***************************************************************************)
(* The file layer of the loader (ciloio.c over mach/*/platio.c) and the    *)
(* byte operations under it, as operators on values.                       *)
(*                                                                         *)
(* A file handle is the part of struct file the loaders use: file_len and  *)
(* file_pos.  Data bytes are abstracted to where they come from: a memory  *)
(* cell holds the file position of the byte copied into it, ZERO when the  *)
(* loader cleared it, or UNTOUCHED.  Two cells are equal exactly when the  *)
(* program gave them the same byte of the file.                            *)
(***************************************************************************)
EXTENDS Integers

CONSTANT Word     \* the number of values of a uint32_t (2^32 in the code)

ASSUME WordAssumption == Word \in Nat /\ Word > 1

U32  == 0 .. Word - 1
Addr == U32                  \* memory is addressed by 32-bit pointers

ZERO      == -1
UNTOUCHED == -2
Cell      == Nat \cup {ZERO, UNTOUCHED}

-----------------------------------------------------------------------------
(* Unsigned 32-bit arithmetic.  Subtraction also gives the distance from   *)
(* one address forward to another, across the wrap at the top.             *)
U32Add(x, y) == IF x + y < Word THEN x + y ELSE x + y - Word
U32Sub(x, y) == IF x >= y THEN x - y ELSE x + Word - y

(* memcpy counts with a signed int: a length of 2^31 or more arrives       *)
(* negative and the copy loop does not run.                                *)
CopyLength(n) == IF 2 * n < Word THEN n ELSE 0

(* memcpy of n bytes of the file from position src to address dst; a null  *)
(* dst is refused and nothing is copied.                                   *)
memcpy(m, dst, src, n) ==
  [a \in Addr |-> IF dst # 0 /\ U32Sub(a, dst) < CopyLength(n)
                  THEN src + U32Sub(a, dst)
                  ELSE m[a]]

(* The byte loop that clears length cells from address on.                 *)
load_elf32_uninitialized_memory(m, address, length) ==
  [a \in Addr |-> IF U32Sub(a, address) < length THEN ZERO ELSE m[a]]

-----------------------------------------------------------------------------
(* cilo_seek.  SEEK_SET and SEEK_CUR stop at the end of the file.          *)
SeekSet(fp, offset) ==
  [fp EXCEPT !.file_pos = IF offset > fp.file_len THEN fp.file_len ELSE offset]

SeekCur(fp, offset) ==
  [fp EXCEPT !.file_pos = IF U32Add(offset, fp.file_pos) > fp.file_len
                          THEN fp.file_len
                          ELSE U32Add(fp.file_pos, offset)]

SeekEnd(fp) == [fp EXCEPT !.file_pos = fp.file_len]

(* platio_read moves the position by the whole request: nothing stops it   *)
(* at the end of the file.                                                 *)
Advance(fp, n) == [fp EXCEPT !.file_pos = U32Add(fp.file_pos, n)]
=============================================================================
