-------------------------------- MODULE Mzip --------------------------------
(***************************************************************************)
(* What the host tools elf2img and elf2mzip share: the MZIP header of      *)
(* elf2mzip/mzip.c with its byte order and its two CRCs, and the state of  *)
(* one conversion.  Modules Elf2Img and Elf2Mzip have the two programs.    *)
(*                                                                         *)
(* An input file is the fields the tools read and its program headers; the *)
(* content of a byte is its position in the file.  Of the description file *)
(* it is kept whether one of its bytes is a NUL.  The value of a CRC is    *)
(* what it was computed over.  libzip is external: an archive holds the    *)
(* bytes it was made of, and building it may fail.  A malloc fails where   *)
(* the code tests for it.                                                  *)
(***************************************************************************)
EXTENDS CiloIO, Sequences

CONSTANTS
  Argvs,        \* the command lines; argv[1] names the tool
  Inputs,       \* the input files
  PackedSizes   \* the sizes an archive may have

Segment == [load: BOOLEAN, offset: U32, paddr: U32, filesz: U32, memsz: U32]

Input == [len: U32, magic: BOOLEAN, class: 0 .. 2, msb: BOOLEAN,
          entry: U32, phdrs: Seq(Segment), descNul: BOOLEAN]

ASSUME MzipAssumption ==
  /\ Argvs \subseteq Seq(STRING)
  /\ \A a \in Argvs : Len(a) >= 1 /\ a[1] \in {"elf2img", "elf2mzip"}
  /\ Inputs \subseteq Input
  /\ PackedSizes \subseteq U32 \ {0}

(* The header's fields by the bytes they lie in: 4 to 0x35, 0x36 and 0x37, *)
(* 0x38 to 0x6f.                                                           *)
HeadFields == {"version", "entrypt", "flags1", "flags2", "crc_code"}
TailFields == {"header_size", "loader_addr", "flags3", "code_packed_size",
               "code_unpacked_size", "memory_image_size"}
Field      == HeadFields \cup {"crc_header"} \cup TailFields

(* A field: its value and whether its bytes have been swapped.             *)
Host(x) == [v |-> x, swapped |-> FALSE]
SWAP(f) == [f EXCEPT !.swapped = ~@]
Swapped(f, yes) == IF yes THEN SWAP(f) ELSE f

VARIABLES
  argv, input,
  i,        \* the segment counter
  img,      \* the memory image, [0 .. memsz - 1 -> Cell]
  code,     \* the code segment: the bytes packed and the packed size
  mz,       \* the MZIP header
  crcs,     \* history: what the two CRCs of mz were computed over
  out,      \* the output file
  failed,   \* history: the library call that failed, "none" if none has
  pc        \* the next step, and in the end "exit0", "exit-1", "abort" (a
            \* failed assert) or "undefined"

vars == <<argv, input, i, img, code, mz, crcs, out, failed, pc>>

NoCode == [bytes |-> << >>, size |-> 0]

mzip_initialize == [[f \in Field |-> Host(0)] EXCEPT !["version"] = Host(1)]

Init ==
  /\ argv \in Argvs
  /\ input \in Inputs
  /\ i = 0
  /\ img = << >>
  /\ code = NoCode
  /\ mz = mzip_initialize
  /\ crcs = [code |-> << >>, header |-> << >>]
  /\ out = [kind |-> "old", hdr |-> mz, crcs |-> crcs, body |-> << >>]
  /\ failed = "none"
  /\ pc = argv[1]

(* Every field of the header but hdr_loader_addr.  The mutant also forgets *)
(* the memory image size.                                                  *)
mzip_swapShort(h) ==
  [f \in Field |-> IF f \in {"loader_addr", "memory_image_size"} THEN h[f] ELSE SWAP(h[f])]

mzip_swap(h) == [f \in Field |-> IF f = "loader_addr" THEN h[f] ELSE SWAP(h[f])]

(* The bytes from 0x38 on and the code segment behind them.                *)
mzip_calculate_crc(h, c) == [fields |-> [f \in TailFields |-> h[f]], bytes |-> c.bytes]

(* The bytes up to hdr_crc_header.                                         *)
mzip_calculate_hdr_crc(h) == [fields |-> [f \in HeadFields |-> h[f]]]

(* mzip_codeseg_build on bytes that may or may not be packed.              *)
CodesegBuilt(bytes) == {[bytes |-> bytes, size |-> n] : n \in PackedSizes}

(* Both tools store the CRC of the code before the one of the header is    *)
(* computed.  The mutant computes both first.                              *)
StampCrcsTogether ==
  LET h1 == [mz EXCEPT !["crc_code"] = Swapped(Host(1), input.msb)]
      h2 == [h1 EXCEPT !["crc_header"] = Swapped(Host(1), input.msb)]
  IN  /\ mz' = h2
      /\ crcs' = [code |-> mzip_calculate_crc(mz, code),
                  header |-> mzip_calculate_hdr_crc(mz)]

StampCrcs ==
  LET h1 == [mz EXCEPT !["crc_code"] = Swapped(Host(1), input.msb)]
      h2 == [h1 EXCEPT !["crc_header"] = Swapped(Host(1), input.msb)]
  IN  /\ mz' = h2
      /\ crcs' = [code |-> mzip_calculate_crc(mz, code),
                  header |-> mzip_calculate_hdr_crc(h1)]

(* mzip_write_header and mzip_write_codeseg.                               *)
WriteMzip ==
  out' = [kind |-> "mzip", hdr |-> mz, crcs |-> crcs, body |-> code.bytes]

(* The bytes fread stores from position pos on, k at most, in a buffer.    *)
Fread(buffer, off, pos, k) ==
  [a \in DOMAIN buffer |->
     IF off <= a /\ a < off + k /\ pos + (a - off) < input.len
     THEN pos + (a - off) ELSE buffer[a]]

Loadable == {k \in 1 .. Len(input.phdrs) : input.phdrs[k].load}
=============================================================================
