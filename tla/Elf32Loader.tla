---------------------------- MODULE Elf32Loader ----------------------------
(***************************************************************************)
(* load_elf32_file (elf_loader.c): the header checks, the walk over the    *)
(* program header table, the copy of every PT_LOAD segment with its        *)
(* cleared tail, and the jump to the entry point.                          *)
(*                                                                         *)
(* An image is what the flash holds under one file name: its length, the   *)
(* header fields the loader reads and the program headers its table        *)
(* spells.  A read that does not fall on a table entry yields whatever the *)
(* bytes there spell: any member of Garbage.                               *)
(***************************************************************************)
EXTENDS CiloIO, Sequences

CONSTANTS
  HdrSize,     \* sizeof(struct elf32_header), 52
  PhdrSize,    \* sizeof(struct elf32_phdr), 32
  Phdrs,       \* the program headers that occur in images
  Garbage,     \* the program headers that arbitrary bytes may spell
  Images,      \* the ELF files that may be loaded
  LoaderCells  \* the addresses of the running loader's text and stack

Phdr == [load: BOOLEAN, offset: U32, paddr: U32, filesz: U32, memsz: U32]

Image == [len: U32, magic: BOOLEAN, class: 0 .. 2, msb: BOOLEAN,
          entry: U32, phoff: U32, phdrs: Seq(Phdrs)]

ASSUME Elf32Assumption ==
  /\ HdrSize \in U32 /\ PhdrSize \in U32 \ {0}
  /\ Phdrs \subseteq Phdr /\ Garbage \subseteq Phdr
  /\ Images \subseteq Image
  /\ \A img \in Images : PhdrSize * Len(img.phdrs) \in U32
  /\ LoaderCells \subseteq Addr

VARIABLES
  img,     \* the image being loaded
  fp,      \* its file handle
  mem,     \* memory, by address
  i,       \* the segment counter
  mem_sz,  \* the bytes loaded so far
  pc       \* "start", "segments" (in module Elf64Loader "segments64"), and
           \* the ways out: "failed" (return to the prompt), "kernel"
           \* (control is the kernel's), "lost" (the loader has overwritten
           \* itself)

vars == <<img, fp, mem, i, mem_sz, pc>>

(* main.c reads the header once to choose the loader and seeks back to 0;  *)
(* only images of class ELF_CLASS_32 reach load_elf32_file.                *)
Init ==
  /\ img \in {g \in Images : g.class = 1}
  /\ fp = [file_len |-> img.len, file_pos |-> 0]
  /\ mem = [a \in Addr |-> UNTOUCHED]
  /\ i = 0
  /\ mem_sz = 0
  /\ pc = "start"

(* The header checks.  The class check reads  !class == ELF_CLASS_32,      *)
(* which only class 0 satisfies.                                           *)
Refused(g) ==
  \/ ~g.magic
  \/ g.class = 0
  \/ ~g.msb
  \/ Len(g.phdrs) = 0

RefuseImage ==
  /\ pc = "start"
  /\ Refused(img)
  /\ fp' = Advance(fp, HdrSize)
  /\ pc' = "failed"
  /\ UNCHANGED <<img, mem, i, mem_sz>>

(* The header is good: seek to the program header table.                   *)
AcceptImage ==
  /\ pc = "start"
  /\ ~Refused(img)
  /\ fp' = SeekSet(Advance(fp, HdrSize), img.phoff)
  /\ pc' = "segments"
  /\ UNCHANGED <<img, mem, i, mem_sz>>

(* The program headers that a read at file position pos may return.        *)
PhdrsAt(pos) ==
  LET hits == {k \in 0 .. Len(img.phdrs) - 1 : pos = img.phoff + PhdrSize * k}
  IN  IF hits = {} THEN Garbage ELSE {img.phdrs[k + 1] : k \in hits}

(* Mutant of SkipSegment: the counter is left alone.                       *)
SkipSegmentStuck ==
  /\ pc = "segments" /\ i < Len(img.phdrs)
  /\ \E phdr \in PhdrsAt(fp.file_pos) : ~phdr.load
  /\ fp' = Advance(fp, PhdrSize)
  /\ UNCHANGED <<img, mem, i, mem_sz, pc>>

(* A program header that is not PT_LOAD: "continue" skips the seek, the    *)
(* read has left the position on the next entry.                           *)
SkipSegment ==
  /\ pc = "segments" /\ i < Len(img.phdrs)
  /\ \E phdr \in PhdrsAt(fp.file_pos) : ~phdr.load
  /\ fp' = Advance(fp, PhdrSize)
  /\ i' = i + 1
  /\ UNCHANGED <<img, mem, mem_sz, pc>>

(* load_elf32_section, then the cleared tail when memsz - filesz > 0.      *)
SegmentCopied(m, phdr, src) == memcpy(m, phdr.paddr, src, phdr.filesz)

(* Mutant of SegmentCleared: the whole memsz is cleared after the copied   *)
(* bytes.                                                                  *)
SegmentOvercleared(m, phdr) ==
  load_elf32_uninitialized_memory(m, U32Add(phdr.paddr, phdr.filesz), phdr.memsz)

SegmentCleared(m, phdr) ==
  load_elf32_uninitialized_memory(m, U32Add(phdr.paddr, phdr.filesz),
                                  U32Sub(phdr.memsz, phdr.filesz))

(* Where the n-th table entry is; its mutant forgets the + 1.              *)
PhdrOffsetLate(g, n) == U32Add(g.phoff, PhdrSize * (n - 1))

PhdrOffset(g, n) == U32Add(g.phoff, PhdrSize * n)

(* One PT_LOAD entry: seek to the segment, copy it, clear the rest, seek   *)
(* to the next table entry.  A write over the loader itself ends the       *)
(* execution the source describes.                                         *)
LoadSegment ==
  /\ pc = "segments" /\ i < Len(img.phdrs)
  /\ \E phdr \in PhdrsAt(fp.file_pos) :
       LET at   == SeekSet(Advance(fp, PhdrSize), phdr.offset)
           done == Advance(at, phdr.filesz)
       IN  /\ phdr.load
           /\ mem' = SegmentCleared(SegmentCopied(mem, phdr, at.file_pos), phdr)
           /\ mem_sz' = U32Add(mem_sz, phdr.memsz)
           /\ fp' = SeekSet(done, PhdrOffset(img, i + 1))
  /\ i' = i + 1
  /\ pc' = IF \E a \in LoaderCells : mem'[a] # mem[a] THEN "lost" ELSE pc
  /\ UNCHANGED img

(* "Kicking into Linux": the call of hdr.entry(c_memsz(), cmd_line).       *)
KickIntoLinux ==
  /\ pc = "segments" /\ i = Len(img.phdrs)
  /\ pc' = "kernel"
  /\ UNCHANGED <<img, fp, mem, i, mem_sz>>

Next ==
  \/ RefuseImage
  \/ AcceptImage
  \/ SkipSegment
  \/ LoadSegment
  \/ KickIntoLinux

(* The loader is sequential code without waits: it runs until it leaves.   *)
Fairness == WF_vars(Next)

Spec == Init /\ [][Next]_vars /\ Fairness

-----------------------------------------------------------------------------
TypeOK ==
  /\ img \in Images
  /\ fp \in [file_len: U32, file_pos: U32]
  /\ mem \in [Addr -> Cell]
  /\ i \in 0 .. Len(img.phdrs)
  /\ mem_sz \in U32
  /\ pc \in {"start", "segments", "segments64", "failed", "kernel", "lost"}

(* The images a linker makes: the table and every segment's bytes lie in   *)
(* the file, no segment is larger in the file than in memory, none is at   *)
(* address 0 or runs over the top of memory, and no two overlap.           *)
End(ph) == ph.paddr + ph.memsz

Covers(ph, a) == ph.load /\ ph.paddr <= a /\ a < End(ph)

SegmentOK(g, ph) ==
  ph.load => /\ ph.offset + ph.filesz <= g.len
             /\ ph.filesz <= ph.memsz
             /\ 2 * ph.filesz < Word
             /\ ph.paddr # 0
             /\ End(ph) <= Word

Disjoint(p, q) == ~(p.load /\ q.load) \/ End(p) <= q.paddr \/ End(q) <= p.paddr

WellFormed(g) ==
  /\ g.phoff + PhdrSize * Len(g.phdrs) <= g.len
  /\ \A k \in 1 .. Len(g.phdrs) : SegmentOK(g, g.phdrs[k])
  /\ \A j, k \in 1 .. Len(g.phdrs) : j # k => Disjoint(g.phdrs[j], g.phdrs[k])

(* What a cell of a segment must hold when the kernel starts.              *)
Content(ph, a) ==
  IF a < ph.paddr + ph.filesz THEN ph.offset + (a - ph.paddr) ELSE ZERO

(* The first n table entries are in memory and nothing else has changed.   *)
LoadedUpTo(n) ==
  \A a \in Addr :
    /\ \A k \in 1 .. n :
         Covers(img.phdrs[k], a) => mem[a] = Content(img.phdrs[k], a)
    /\ (\A k \in 1 .. n : ~Covers(img.phdrs[k], a)) => mem[a] = UNTOUCHED

(* In the segment loop the file position is that of the i-th table entry,  *)
(* after a loaded segment (which seeks back) and after a skipped one       *)
(* (which does not).                                                       *)
PhdrCursor ==
  pc = "segments" /\ WellFormed(img) => fp.file_pos = img.phoff + PhdrSize * i

(* When a well-formed kernel gets control, memory is exactly its load      *)
(* image: each PT_LOAD segment's bytes at paddr, its tail cleared, and     *)
(* every other cell (the command line at MEMORY_BASE too) as it was.       *)
LoadCorrect ==
  pc = "kernel" /\ WellFormed(img) => LoadedUpTo(Len(img.phdrs))

(* A well-formed 32-bit image that is not refused and leaves the loader's  *)
(* own cells alone is eventually started; the segment loop cannot get      *)
(* stuck.                                                                  *)
Bootable(g) ==
  /\ WellFormed(g) /\ g.class = 1 /\ ~Refused(g)
  /\ \A k \in 1 .. Len(g.phdrs), a \in LoaderCells : ~Covers(g.phdrs[k], a)

BootableStarts == Bootable(img) ~> pc = "kernel"
=============================================================================
