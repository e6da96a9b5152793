------------------------------ MODULE Elf2Img ------------------------------
(***************************************************************************)
(* The host program elf2img (elf2mzip/elf2img.c): it lays out the PT_LOAD  *)
(* segments of an ELF file in one memory image and writes the image raw or *)
(* packed in an MZIP file with a description behind it.                    *)
(***************************************************************************)
EXTENDS Mzip, FiniteSetsExt

argc    == Len(argv)
file_in == argv[argc - 2]
file_out == argv[argc - 1]
mzip    == \E k \in 2 .. argc : argv[k] = "-m"

(* The file names are taken from argv before argc is tested: with one or   *)
(* no argument argv[argc - 3] lies in front of argv.                       *)
ParseArgs ==
  /\ pc = "elf2img"
  /\ pc' \in IF argc < 3 THEN {"exit-1", "undefined"} ELSE {"open"}
  /\ UNCHANGED <<argv, input, i, img, code, mz, crcs, out, failed>>

(* The file named third from the end, with two arguments the program's own *)
(* name.  There is no file "-m".  The mutant creates the output first, as  *)
(* elf2mzip does.                                                          *)
OpenInputLate ==
  /\ pc = "open"
  /\ out' = [out EXCEPT !.kind = "empty"]
  /\ \/ pc' = "exit-1"
     \/ file_in # "-m" /\ pc' = "headers"
  /\ UNCHANGED <<argv, input, i, img, code, mz, crcs, failed>>

OpenInput ==
  /\ pc = "open"
  /\ \/ pc' = "exit-1"
     \/ file_in # "-m" /\ pc' = "headers"
  /\ UNCHANGED <<argv, input, i, img, code, mz, crcs, out, failed>>

(* The address range of the segments.  The mutants take the first segment  *)
(* for the lowest, and forget the bss.                                     *)
MinAddrFirst ==
  IF Loadable = {} THEN Word - 1 ELSE input.phdrs[Min(Loadable)].paddr

MinAddr == Min({Word - 1} \cup {input.phdrs[k].paddr : k \in Loadable})

MaxAddrFile ==
  Max({0} \cup {U32Add(input.phdrs[k].paddr, input.phdrs[k].filesz) : k \in Loadable})

MaxAddr ==
  Max({0} \cup {U32Add(input.phdrs[k].paddr, input.phdrs[k].memsz) : k \in Loadable})

memsz == U32Sub(MaxAddr, MinAddr)

(* The headers are checked, the segments measured and the image allocated. *)
(* No PT_LOAD segment makes memsz 0 - 0xffffffff = 1, which stands for 0;  *)
(* either malloc may fail.                                                 *)
RefuseInput ==
  /\ pc = "headers"
  /\ pc' = "exit-1"
  /\ UNCHANGED <<argv, input, i, img, code, mz, crcs, out, failed>>

AllocateImage ==
  /\ pc = "headers"
  /\ input.magic /\ Len(input.phdrs) # 0
  /\ memsz # 1
  /\ img' = [a \in 0 .. memsz - 1 |-> ZERO]
  /\ pc' = "segments"
  /\ UNCHANGED <<argv, input, i, code, mz, crcs, out, failed>>

SkipImageSegment ==
  /\ pc = "segments" /\ i < Len(input.phdrs)
  /\ ~input.phdrs[i + 1].load
  /\ i' = i + 1
  /\ UNCHANGED <<argv, input, img, code, mz, crcs, out, failed, pc>>

(* fread(img + buf_off, filesz, 1, fp_in); a segment that leaves the image *)
(* writes outside of the allocation.                                       *)
CopySegment ==
  /\ pc = "segments" /\ i < Len(input.phdrs)
  /\ LET ph      == input.phdrs[i + 1]
         buf_off == U32Sub(ph.paddr, MinAddr)
         inFile  == IF ph.offset < input.len THEN input.len - ph.offset ELSE 0
         n       == Min({ph.filesz, inFile})
     IN  /\ ph.load
         /\ img' = Fread(img, buf_off, ph.offset, n)
         /\ pc' = IF n > 0 /\ buf_off + n > Cardinality(DOMAIN img) THEN "undefined" ELSE pc
  /\ i' = i + 1
  /\ UNCHANGED <<argv, input, code, mz, crcs, out, failed>>

(* fopen(file_out, "wb+").                                                 *)
OpenOutput ==
  /\ pc = "segments" /\ i = Len(input.phdrs)
  /\ \/ pc' = "exit-1" /\ UNCHANGED out
     \/ pc' = "output" /\ out' = [out EXCEPT !.kind = "empty"]
  /\ UNCHANGED <<argv, input, i, img, code, mz, crcs, failed>>

WriteRaw ==
  /\ pc = "output" /\ ~mzip
  /\ out' = [out EXCEPT !.kind = "raw", !.body = img]
  /\ pc' = "exit0"
  /\ UNCHANGED <<argv, input, i, img, code, mz, crcs, failed>>

(* The header's values, in host order.                                     *)
FillHeader(h, size) ==
  [h EXCEPT !["version"] = Host(1), !["entrypt"] = Host(input.entry),
            !["flags1"] = Host(1), !["flags2"] = Host(1), !["flags3"] = Host(1),
            !["header_size"] = Host(112), !["loader_addr"] = Host(MinAddr),
            !["code_packed_size"] = Host(size), !["code_unpacked_size"] = Host(memsz),
            !["memory_image_size"] = Host(memsz)]

PackImage ==
  /\ pc = "output" /\ mzip
  /\ code' \in CodesegBuilt(img)
  /\ LET h == FillHeader(mz, code'.size)
     IN  mz' = IF input.msb THEN mzip_swap(h) ELSE h
  /\ pc' = "crcs"
  /\ UNCHANGED <<argv, input, i, img, crcs, out, failed>>

(* "Error while building MZIP code segment. Aborting.": the buffers are    *)
(* freed and the files closed, there is no return, and everything after    *)
(* uses them.                                                              *)
PackImageFails ==
  /\ pc = "output" /\ mzip
  /\ failed' = "archive"
  /\ pc' = "undefined"
  /\ UNCHANGED <<argv, input, i, img, code, mz, crcs, out>>

StampImage ==
  /\ pc = "crcs"
  /\ StampCrcs
  /\ pc' = "descr"
  /\ UNCHANGED <<argv, input, i, img, code, out, failed>>

(* Without a description "goto quit" frees an unset desc_buf.              *)
NoDescription ==
  /\ pc = "descr"
  /\ failed' = "description"
  /\ pc' = "undefined"
  /\ UNCHANGED <<argv, input, i, img, code, mz, crcs, out>>

(* Without memory for it nothing is written, and the result is 0.          *)
NoDescriptionBuffer ==
  /\ pc = "descr"
  /\ failed' = "buffer"
  /\ pc' = "exit0"
  /\ UNCHANGED <<argv, input, i, img, code, mz, crcs, out>>

(* printf("%s", desc_buf), before anything is written: desc_buf holds the  *)
(* bytes of the file and no terminator.  Unless one of them is a NUL the   *)
(* read runs on behind the allocation, where it ends at some NUL (the next *)
(* action) or does not.                                                    *)
PrintUnterminated ==
  /\ pc = "descr"
  /\ ~input.descNul
  /\ pc' = "undefined"
  /\ UNCHANGED <<argv, input, i, img, code, mz, crcs, out, failed>>

WriteImage ==
  /\ pc = "descr"
  /\ WriteMzip
  /\ pc' = "exit0"
  /\ UNCHANGED <<argv, input, i, img, code, mz, crcs, failed>>

Elf2ImgNext ==
  \/ ParseArgs
  \/ OpenInput
  \/ RefuseInput
  \/ AllocateImage
  \/ SkipImageSegment
  \/ CopySegment
  \/ OpenOutput
  \/ WriteRaw
  \/ PackImage
  \/ PackImageFails
  \/ StampImage
  \/ NoDescription
  \/ NoDescriptionBuffer
  \/ PrintUnterminated
  \/ WriteImage
=============================================================================
