------------------------------ MODULE Elf2Mzip ------------------------------
(***************************************************************************)
(* The host program elf2mzip (elf2mzip/elf2mzip.c): it packs the bytes of  *)
(* the only PT_LOAD segment of a 32-bit ELF file in an MZIP file.          *)
(***************************************************************************)
EXTENDS Mzip, FiniteSets

(* Without an input argument, or when the input cannot be opened.          *)
MzipInput ==
  /\ pc = "elf2mzip"
  /\ \/ pc' = "exit-1"
     \/ Len(argv) >= 2 /\ pc' = "unlink"
  /\ UNCHANGED <<argv, input, i, img, code, mz, crcs, out, failed>>

(* The old output is removed, or cannot be, and a new one is created.      *)
(* Without a second argument its name is the NULL at the end of argv.      *)
MzipOutput ==
  /\ pc = "unlink"
  /\ \/ Len(argv) = 2 /\ pc' = "undefined" /\ UNCHANGED out
     \/ Len(argv) > 2 /\ pc' = "exit-1" /\ out' \in {out, [out EXCEPT !.kind = "removed"]}
     \/ Len(argv) > 2 /\ pc' = "parse" /\ out' = [out EXCEPT !.kind = "empty"]
  /\ UNCHANGED <<argv, input, i, img, code, mz, crcs, failed>>

Single == Cardinality(Loadable) = 1

MzipRefuse ==
  /\ pc = "parse"
  /\ ~input.magic \/ input.class # 1 \/ ~Single
  /\ pc' = "exit-1"
  /\ UNCHANGED <<argv, input, i, img, code, mz, crcs, out, failed>>

(* The program header that was found is read again and its bytes with it.  *)
(* The values that come from the ELF file stay in the file's byte order.   *)
TheSegment == input.phdrs[CHOOSE k \in Loadable : TRUE]

FromFile(x) == [v |-> x, swapped |-> input.msb]

MzipFill ==
  /\ pc = "parse"
  /\ input.magic /\ input.class = 1 /\ Single
  /\ LET ph == TheSegment
     IN  /\ img' = Fread([a \in 0 .. ph.filesz - 1 |-> UNTOUCHED], 0, ph.offset, ph.filesz)
         /\ mz' = [mz EXCEPT !["flags1"] = Swapped(Host(1), input.msb),
                             !["flags2"] = Swapped(Host(1), input.msb),
                             !["version"] = Swapped(Host(1), input.msb),
                             !["entrypt"] = FromFile(input.entry),
                             !["header_size"] = Swapped(Host(112), input.msb),
                             !["loader_addr"] = FromFile(ph.paddr),
                             !["code_unpacked_size"] = FromFile(ph.filesz),
                             !["memory_image_size"] = FromFile(ph.memsz)]
  /\ pc' = "pack"
  /\ UNCHANGED <<argv, input, i, code, crcs, out, failed>>

MzipPack ==
  /\ pc = "pack"
  /\ code' \in CodesegBuilt(img)
  /\ mz' = [mz EXCEPT !["code_packed_size"] = Swapped(Host(code'.size), input.msb)]
  /\ pc' = "stamp"
  /\ UNCHANGED <<argv, input, i, img, crcs, out, failed>>

(* The result of mzip_codeseg_build is not looked at: with the size 0 and  *)
(* an unset pointer the assert of mzip_calculate_crc fails, or a file of a *)
(* header alone is written.                                                *)
MzipPackFails ==
  /\ pc = "pack"
  /\ failed' = "archive"
  /\ pc' \in {"abort", "stamp"}
  /\ mz' = [mz EXCEPT !["code_packed_size"] = Swapped(Host(0), input.msb)]
  /\ UNCHANGED <<argv, input, i, img, code, crcs, out>>

MzipStamp ==
  /\ pc = "stamp"
  /\ StampCrcs
  /\ pc' = "write"
  /\ UNCHANGED <<argv, input, i, img, code, out, failed>>

MzipWrite ==
  /\ pc = "write"
  /\ WriteMzip
  /\ pc' = "exit0"
  /\ UNCHANGED <<argv, input, i, img, code, mz, crcs, failed>>

Elf2MzipNext ==
  \/ MzipInput
  \/ MzipOutput
  \/ MzipRefuse
  \/ MzipFill
  \/ MzipPack
  \/ MzipPackFails
  \/ MzipStamp
  \/ MzipWrite
=============================================================================
