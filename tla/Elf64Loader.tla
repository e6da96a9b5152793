---------------------------- MODULE Elf64Loader ----------------------------
(***************************************************************************)
(* load_elf64_file (elf_loader.c), which main.c calls for every file whose *)
(* class is not ELF_CLASS_32.  It is a copy of load_elf32_file that seeks  *)
(* to the program header table once, and neither seeks back to it after a  *)
(* segment nor jumps to the entry point.                                   *)
(*                                                                         *)
(* State, memory and images are those of module Elf32Loader.  HdrSize and  *)
(* PhdrSize are the sizes of the elf64 structs, and an image is what these *)
(* structs spell: their uint64_t is "unsigned long", 32 bits wide for the  *)
(* targets of the Makefile.                                                *)
(***************************************************************************)
EXTENDS Elf32Loader

Init64 ==
  /\ img \in {g \in Images : g.class # 1}
  /\ fp = [file_len |-> img.len, file_pos |-> 0]
  /\ mem = [a \in Addr |-> UNTOUCHED]
  /\ i = 0
  /\ mem_sz = 0
  /\ pc = "start"

(* The class check reads  !class == ELF_CLASS_64,  and no ! gives 2: every *)
(* class passes.                                                           *)
Refused64(g) ==
  \/ ~g.magic
  \/ ~g.msb
  \/ Len(g.phdrs) = 0

RefuseImage64 ==
  /\ pc = "start"
  /\ Refused64(img)
  /\ fp' = Advance(SeekSet(fp, 0), HdrSize)
  /\ pc' = "failed"
  /\ UNCHANGED <<img, mem, i, mem_sz>>

AcceptImage64 ==
  /\ pc = "start"
  /\ ~Refused64(img)
  /\ fp' = SeekSet(Advance(SeekSet(fp, 0), HdrSize), img.phoff)
  /\ pc' = "segments64"
  /\ UNCHANGED <<img, mem, i, mem_sz>>

(* Mutant of SkipSegment64: the counter is left alone.                     *)
SkipSegment64Stuck ==
  /\ pc = "segments64" /\ i < Len(img.phdrs)
  /\ \E phdr \in PhdrsAt(fp.file_pos) : ~phdr.load
  /\ fp' = Advance(fp, PhdrSize)
  /\ UNCHANGED <<img, mem, i, mem_sz, pc>>

SkipSegment64 ==
  /\ pc = "segments64" /\ i < Len(img.phdrs)
  /\ \E phdr \in PhdrsAt(fp.file_pos) : ~phdr.load
  /\ fp' = Advance(fp, PhdrSize)
  /\ i' = i + 1
  /\ UNCHANGED <<img, mem, mem_sz, pc>>

(* load_elf64_section.                                                     *)
SegmentCopied64(m, phdr, src) == memcpy(m, phdr.paddr, src, phdr.filesz)

(* load_elf64_uninitialized_memory.  The mutant clears from paddr on.      *)
SegmentCleared64Start(m, phdr) ==
  load_elf32_uninitialized_memory(m, phdr.paddr, U32Sub(phdr.memsz, phdr.filesz))

SegmentCleared64(m, phdr) ==
  load_elf32_uninitialized_memory(m, U32Add(phdr.paddr, phdr.filesz),
                                  U32Sub(phdr.memsz, phdr.filesz))

(* The position stays behind the segment's bytes in the file.              *)
LoadSegment64 ==
  /\ pc = "segments64" /\ i < Len(img.phdrs)
  /\ \E phdr \in PhdrsAt(fp.file_pos) :
       LET at == SeekSet(Advance(fp, PhdrSize), phdr.offset)
       IN  /\ phdr.load
           /\ mem' = SegmentCleared64(SegmentCopied64(mem, phdr, at.file_pos), phdr)
           /\ mem_sz' = U32Add(mem_sz, phdr.memsz)
           /\ fp' = Advance(at, phdr.filesz)
  /\ i' = i + 1
  /\ pc' = IF \E a \in LoaderCells : mem'[a] # mem[a] THEN "lost" ELSE pc
  /\ UNCHANGED img

(* The end of load_elf64_file: main.c reports a fatal error.               *)
Return64 ==
  /\ pc = "segments64" /\ i = Len(img.phdrs)
  /\ pc' = "failed"
  /\ UNCHANGED <<img, fp, mem, i, mem_sz>>

Next64 ==
  \/ RefuseImage64
  \/ AcceptImage64
  \/ SkipSegment64
  \/ LoadSegment64
  \/ Return64

(* start_bootloader gives a file to one loader or the other by its class.  *)
LoadInit == Init \/ Init64

LoadNext ==
  \/ img.class = 1 /\ Next
  \/ img.class # 1 /\ Next64

LoadFairness == WF_vars(LoadNext)

LoadSpec == LoadInit /\ [][LoadNext]_vars /\ LoadFairness

-----------------------------------------------------------------------------
(* An image whose only PT_LOAD segment is its last one is loaded: its      *)
(* bytes, its cleared tail, and nothing else.                              *)
LastSegmentLoads ==
  /\ pc = "failed" /\ img.class # 1 /\ ~Refused64(img) /\ WellFormed(img)
  /\ \A k \in 1 .. Len(img.phdrs) - 1 : ~img.phdrs[k].load
  => LoadedUpTo(Len(img.phdrs))

(* Both loaders end, at the prompt, in the kernel or over their own code,  *)
(* whatever the headers spell.                                             *)
LoadersEnd == <>(pc \in {"failed", "kernel", "lost"})

(* README: "other operating systems rely fairly heavily on being able to   *)
(* have more than one segment", "CiscoLoad works around this": when the    *)
(* loader is through, all the segments of a well-formed image are loaded.  *)
AllSegmentsLoaded ==
  pc = "failed" /\ img.class # 1 /\ ~Refused64(img) /\ WellFormed(img) =>
    LoadedUpTo(Len(img.phdrs))
=============================================================================
