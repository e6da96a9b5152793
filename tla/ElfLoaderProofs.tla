-------------------------- MODULE ElfLoaderProofs --------------------------
(***************************************************************************)
(* Proofs about load_elf32_file and load_elf64_file, for every             *)
(* address-space size, every set of images and every size of the header    *)
(* structures.  The argument for LoadCorrect is an invariant of the        *)
(* segment loop: the first i entries are in memory and the file position   *)
(* is that of entry i, whatever mix of loaded and skipped entries came     *)
(* before.  In the 64-bit loader, which never seeks back to the table, it  *)
(* holds while only the last entry is a PT_LOAD one.                       *)
(***************************************************************************)
EXTENDS Elf64Loader, TLAPS

(* Sums and differences of 32-bit values stay 32-bit values.               *)
LEMMA WordClosed ==
  ASSUME NEW x \in U32, NEW y \in U32
  PROVE  U32Add(x, y) \in U32 /\ U32Sub(x, y) \in U32
BY WordAssumption DEF U32Add, U32Sub, U32

(* Multiplying by the entry size keeps and reflects the order of entries.  *)
LEMMA EntryOrder ==
  ASSUME NEW s \in Nat \ {0}, NEW j \in Nat, NEW k \in Nat
  PROVE  /\ s * j \in Nat
         /\ s * (j + 1) = s * j + s
         /\ j <= k => s * j <= s * k
         /\ s * j = s * k => j = k
<1>1. s * j \in Nat /\ s * (j + 1) = s * j + s
  OBVIOUS
<1>2. j <= k => s * j <= s * k
  OBVIOUS
<1>3. j < k => s * j < s * k
  OBVIOUS
<1>4. k < j => s * k < s * j
  OBVIOUS
<1> QED BY <1>1, <1>2, <1>3, <1>4

(* A seek from the start of the file never leaves the file.                *)
LEMMA SeekSetTyped ==
  ASSUME NEW f \in [file_len: U32, file_pos: U32], NEW n \in Nat
  PROVE  /\ SeekSet(f, n) \in [file_len: U32, file_pos: U32]
         /\ SeekSet(f, n).file_len = f.file_len
         /\ n <= f.file_len => SeekSet(f, n).file_pos = n
BY WordAssumption DEF SeekSet, U32

(* A read keeps the length and moves the position.                         *)
LEMMA AdvanceTyped ==
  ASSUME NEW f \in [file_len: U32, file_pos: U32], NEW n \in U32
  PROVE  /\ Advance(f, n) \in [file_len: U32, file_pos: U32]
         /\ Advance(f, n).file_len = f.file_len
         /\ Advance(f, n).file_pos = U32Add(f.file_pos, n)
BY WordClosed DEF Advance

(* memcpy and the clearing loop write only cells.                          *)
LEMMA WritesTyped ==
  ASSUME NEW m \in [Addr -> Cell], NEW d \in U32, NEW n \in U32, NEW src \in U32
  PROVE  /\ memcpy(m, d, src, n) \in [Addr -> Cell]
         /\ load_elf32_uninitialized_memory(m, d, n) \in [Addr -> Cell]
<1>1. ASSUME NEW a \in Addr PROVE src + U32Sub(a, d) \in Cell
  <2>1. U32Sub(a, d) \in U32
    BY WordClosed DEF Addr
  <2> QED BY <2>1, WordAssumption DEF Cell, U32
<1>2. ZERO \in Cell
  BY DEF Cell
<1> QED BY <1>1, <1>2 DEF memcpy, load_elf32_uninitialized_memory

(* Facts about the images and headers of the constants.                    *)
LEMMA ImageFacts ==
  ASSUME NEW g \in Images
  PROVE  /\ g.len \in U32 /\ g.phoff \in U32
         /\ Len(g.phdrs) \in Nat
         /\ \A k \in 1 .. Len(g.phdrs) : g.phdrs[k] \in Phdr
BY Elf32Assumption DEF Image

(* A header read returns a program header, whatever the position.          *)
LEMMA HeadersRead ==
  ASSUME img \in Images, NEW pos \in U32, NEW p \in PhdrsAt(pos)
  PROVE  p \in Phdr
<1>1. img.phdrs \in Seq(Phdrs)
  BY Elf32Assumption DEF Image
<1>2. \A k \in 0 .. Len(img.phdrs) - 1 : img.phdrs[k + 1] \in Phdr
  BY ImageFacts
<1> QED BY <1>2, Elf32Assumption DEF PhdrsAt

(* The types of the loader's state are kept by every step, for malformed   *)
(* images and headers read from arbitrary bytes too.                       *)
LEMMA TypeInit == Init => TypeOK
<1> SUFFICES ASSUME Init PROVE TypeOK
  OBVIOUS
<1>1. img \in Images
  BY DEF Init
<1>2. fp \in [file_len: U32, file_pos: U32]
  BY <1>1, ImageFacts, WordAssumption DEF Init, U32
<1>3. mem \in [Addr -> Cell]
  BY DEF Init, Cell
<1>4. i \in 0 .. Len(img.phdrs) /\ mem_sz \in U32
  BY <1>1, ImageFacts, WordAssumption DEF Init, U32
<1> QED BY <1>1, <1>2, <1>3, <1>4 DEF Init, TypeOK

(* What one pass of LoadSegment does to the state, for the header read.    *)
LEMMA LoadSegmentTyped ==
  ASSUME TypeOK, LoadSegment
  PROVE  TypeOK'
<1> USE DEF TypeOK
<1>1. PICK phdr \in PhdrsAt(fp.file_pos) :
        LET at   == SeekSet(Advance(fp, PhdrSize), phdr.offset)
            done == Advance(at, phdr.filesz)
        IN  /\ phdr.load
            /\ mem' = SegmentCleared(SegmentCopied(mem, phdr, at.file_pos), phdr)
            /\ mem_sz' = U32Add(mem_sz, phdr.memsz)
            /\ fp' = SeekSet(done, PhdrOffset(img, i + 1))
  BY DEF LoadSegment
<1> DEFINE at   == SeekSet(Advance(fp, PhdrSize), phdr.offset)
           done == Advance(at, phdr.filesz)
<1>2. phdr \in Phdr
  BY <1>1, HeadersRead
<1>3. /\ phdr.offset \in U32 /\ phdr.offset \in Nat
      /\ phdr.filesz \in U32 /\ phdr.memsz \in U32 /\ phdr.paddr \in U32
      /\ PhdrSize \in U32
  BY <1>2, Elf32Assumption, WordAssumption DEF Phdr, U32
<1>4. Advance(fp, PhdrSize) \in [file_len: U32, file_pos: U32]
  BY <1>3, AdvanceTyped
<1>5. at \in [file_len: U32, file_pos: U32]
  BY <1>3, <1>4, SeekSetTyped
<1>6. done \in [file_len: U32, file_pos: U32]
  BY <1>3, <1>5, AdvanceTyped
<1>7. PhdrOffset(img, i + 1) \in Nat
  <2>1. i + 1 \in Nat /\ PhdrSize \in Nat \ {0}
    BY ImageFacts, Elf32Assumption, WordAssumption DEF U32
  <2>2. PhdrSize * (i + 1) \in Nat
    BY <2>1, EntryOrder
  <2>3. img.phoff \in U32
    BY ImageFacts
  <2> HIDE DEF TypeOK
  <2> QED BY <2>2, <2>3, WordAssumption DEF PhdrOffset, U32Add, U32
<1>8. fp' \in [file_len: U32, file_pos: U32]
  BY <1>1, <1>6, <1>7, SeekSetTyped
<1>9. SegmentCopied(mem, phdr, at.file_pos) \in [Addr -> Cell]
  BY <1>3, <1>5, WritesTyped DEF SegmentCopied
<1>10. mem' \in [Addr -> Cell]
  <2>1. U32Add(phdr.paddr, phdr.filesz) \in U32 /\ U32Sub(phdr.memsz, phdr.filesz) \in U32
    BY <1>3, WordClosed
  <2> QED BY <1>1, <1>3, <1>9, <2>1, WritesTyped DEF SegmentCleared
<1>11. mem_sz' \in U32
  BY <1>1, <1>3, WordClosed
<1>12. i' \in 0 .. Len(img.phdrs) /\ img' = img
  BY ImageFacts DEF LoadSegment
<1>13. pc' \in {"start", "segments", "failed", "kernel", "lost"}
  BY DEF LoadSegment
<1> QED BY <1>8, <1>10, <1>11, <1>12, <1>13

LEMMA TypeStep == TypeOK /\ [Next]_vars => TypeOK'
<1> SUFFICES ASSUME TypeOK, [Next]_vars PROVE TypeOK'
  OBVIOUS
<1>0. HdrSize \in U32 /\ PhdrSize \in U32
  BY Elf32Assumption
<1>1. CASE RefuseImage
  BY <1>0, <1>1, AdvanceTyped DEF RefuseImage, TypeOK
<1>2. CASE AcceptImage
  <2>1. img.phoff \in Nat
    BY ImageFacts, WordAssumption DEF TypeOK, U32
  <2>2. Advance(fp, HdrSize) \in [file_len: U32, file_pos: U32]
    BY <1>0, AdvanceTyped DEF TypeOK
  <2>3. fp' \in [file_len: U32, file_pos: U32]
    BY <1>2, <2>1, <2>2, SeekSetTyped DEF AcceptImage
  <2> QED BY <1>2, <2>3 DEF AcceptImage, TypeOK
<1>3. CASE SkipSegment
  <2>1. fp' \in [file_len: U32, file_pos: U32]
    BY <1>0, <1>3, AdvanceTyped DEF SkipSegment, TypeOK
  <2>2. i' \in 0 .. Len(img.phdrs)
    BY <1>3, ImageFacts DEF SkipSegment, TypeOK
  <2> QED BY <1>3, <2>1, <2>2 DEF SkipSegment, TypeOK
<1>4. CASE LoadSegment
  BY <1>4, LoadSegmentTyped
<1>5. CASE KickIntoLinux
  BY <1>5 DEF KickIntoLinux, TypeOK
<1>6. CASE UNCHANGED vars
  BY <1>6 DEF vars, TypeOK
<1> QED BY <1>1, <1>2, <1>3, <1>4, <1>5, <1>6 DEF Next

(* The loader's counters, position and memory cells keep their types in    *)
(* every execution, whatever the image holds.                              *)
THEOREM TypeCorrect == Spec => []TypeOK
<1>1. Spec => Init /\ [][Next]_vars
  BY DEF Spec
<1> QED BY <1>1, TypeInit, TypeStep, PTL

-----------------------------------------------------------------------------
(* One PT_LOAD entry, written with memcpy and the clearing loop at 32-bit  *)
(* addresses, puts the segment's content in its cells and nothing else     *)
(* anywhere, up to and including a segment that ends at the top of memory. *)
LEMMA SegmentWritten ==
  ASSUME NEW m \in [Addr -> Cell], NEW g \in Images, NEW p \in Phdr, p.load,
         SegmentOK(g, p), NEW a \in Addr
  PROVE  LET m2 == SegmentCleared(SegmentCopied(m, p, p.offset), p)
         IN  /\ Covers(p, a) => m2[a] = Content(p, a)
             /\ ~Covers(p, a) => m2[a] = m[a]
<1> DEFINE m1 == SegmentCopied(m, p, p.offset)
           m2 == SegmentCleared(m1, p)
<1>1. /\ p.offset \in U32 /\ p.paddr \in U32 /\ p.filesz \in U32 /\ p.memsz \in U32
      /\ a \in U32 /\ Word \in Nat
  BY WordAssumption DEF Phdr, Addr
<1>2. /\ p.filesz <= p.memsz /\ 2 * p.filesz < Word /\ p.paddr # 0
      /\ p.paddr + p.memsz <= Word
  BY DEF SegmentOK, End
<1>3. m1[a] = IF U32Sub(a, p.paddr) < p.filesz
              THEN p.offset + U32Sub(a, p.paddr) ELSE m[a]
  BY <1>2 DEF SegmentCopied, memcpy, CopyLength
<1>4. m2[a] = IF U32Sub(a, U32Add(p.paddr, p.filesz)) < U32Sub(p.memsz, p.filesz)
              THEN ZERO ELSE m1[a]
  BY DEF SegmentCleared, load_elf32_uninitialized_memory
<1>5. U32Sub(a, p.paddr) < p.filesz <=> p.paddr <= a /\ a < p.paddr + p.filesz
  BY <1>1, <1>2 DEF U32Sub, U32
<1>6. U32Sub(a, U32Add(p.paddr, p.filesz)) < U32Sub(p.memsz, p.filesz)
        <=> p.paddr + p.filesz <= a /\ a < p.paddr + p.memsz
  BY <1>1, <1>2 DEF U32Sub, U32Add, U32
<1>7. p.paddr <= a => U32Sub(a, p.paddr) = a - p.paddr
  BY <1>1 DEF U32Sub, U32
<1>8. Covers(p, a) <=> p.paddr <= a /\ a < p.paddr + p.memsz
  BY DEF Covers, End
<1> HIDE DEF m1, m2
<1>9. CASE ~(p.paddr <= a /\ a < p.paddr + p.memsz)
  BY <1>1, <1>2, <1>3, <1>4, <1>5, <1>6, <1>8, <1>9 DEF U32, m1, m2
<1>10. CASE p.paddr <= a /\ a < p.paddr + p.filesz
  BY <1>1, <1>2, <1>3, <1>4, <1>5, <1>6, <1>7, <1>8, <1>10 DEF U32, m1, m2, Content
<1>11. CASE p.paddr + p.filesz <= a /\ a < p.paddr + p.memsz
  BY <1>1, <1>2, <1>3, <1>4, <1>5, <1>6, <1>8, <1>11 DEF U32, m1, m2, Content
<1> QED BY <1>1, <1>9, <1>10, <1>11 DEF U32

(* A header read at the i-th entry of a table returns that entry.          *)
LEMMA EntryRead ==
  ASSUME TypeOK, i < Len(img.phdrs), fp.file_pos = img.phoff + PhdrSize * i
  PROVE  PhdrsAt(fp.file_pos) = {img.phdrs[i + 1]}
<1>1. PhdrSize \in Nat \ {0} /\ img.phoff \in Nat /\ i \in Nat /\ Len(img.phdrs) \in Nat
  BY ImageFacts, Elf32Assumption, WordAssumption DEF TypeOK, U32
<1>2. ASSUME NEW k \in 0 .. Len(img.phdrs) - 1
      PROVE  fp.file_pos = img.phoff + PhdrSize * k <=> k = i
  <2>1. k \in Nat
    BY <1>1
  <2>2. PhdrSize * k \in Nat /\ PhdrSize * i \in Nat
    BY <1>1, <2>1, EntryOrder
  <2>3. PhdrSize * k = PhdrSize * i <=> k = i
    BY <1>1, <2>1, EntryOrder
  <2> QED BY <1>1, <2>2, <2>3
<1>3. i \in 0 .. Len(img.phdrs) - 1
  BY <1>1
<1>4. {k \in 0 .. Len(img.phdrs) - 1 : fp.file_pos = img.phoff + PhdrSize * k} = {i}
  BY <1>2, <1>3
<1> QED BY <1>4 DEF PhdrsAt

(* The next entry of a well-formed table lies inside the file.             *)
LEMMA NextEntryInside ==
  ASSUME TypeOK, WellFormed(img), i < Len(img.phdrs)
  PROVE  /\ PhdrSize \in Nat \ {0} /\ i \in Nat /\ i + 1 \in Nat
         /\ img.len \in U32 /\ img.phoff \in Nat /\ img.len \in Nat /\ img.len < Word
         /\ PhdrSize * i \in Nat
         /\ PhdrSize * (i + 1) = PhdrSize * i + PhdrSize
         /\ img.phoff + PhdrSize * (i + 1) <= img.len
         /\ PhdrOffset(img, i + 1) = img.phoff + PhdrSize * (i + 1)
<1>1. /\ PhdrSize \in Nat \ {0} /\ i \in Nat /\ i + 1 \in Nat
      /\ img.phoff \in Nat /\ img.len \in U32 /\ Len(img.phdrs) \in Nat
      /\ img.len \in Nat /\ img.len < Word
  BY ImageFacts, Elf32Assumption, WordAssumption DEF TypeOK, U32
<1>2. /\ PhdrSize * (i + 1) <= PhdrSize * Len(img.phdrs)
      /\ PhdrSize * (i + 1) = PhdrSize * i + PhdrSize
      /\ PhdrSize * i \in Nat /\ PhdrSize * (i + 1) \in Nat
      /\ PhdrSize * Len(img.phdrs) \in Nat
  BY <1>1, EntryOrder
<1>3. img.phoff + PhdrSize * Len(img.phdrs) <= img.len
  BY DEF WellFormed
<1>4. img.phoff + PhdrSize * (i + 1) <= img.len
  BY <1>1, <1>2, <1>3
<1> QED BY <1>1, <1>2, <1>4, WordAssumption DEF PhdrOffset, U32Add

LEMMA NextPlace ==
  ASSUME NEW x \in Nat, NEW y \in Nat, NEW z \in Nat, NEW l \in Nat,
         x + (y + z) <= l, l < Word
  PROVE  U32Add(x + y, z) = x + (y + z)
BY WordAssumption DEF U32Add

LEMMA CoveredOnce ==
  ASSUME NEW p \in Phdr, NEW q \in Phdr, Disjoint(p, q), NEW a \in Addr, Covers(p, a)
  PROVE  ~Covers(q, a)
<1>1. /\ p.paddr \in Int /\ p.memsz \in Int /\ a \in Int
      /\ q.paddr \in Int /\ q.memsz \in Int
  BY WordAssumption DEF Phdr, U32, Addr
<1> QED BY <1>1 DEF Disjoint, Covers, End

(* A skipped entry: memory is left alone and the read has moved to the     *)
(* next entry.                                                             *)
LEMMA EntrySkipped ==
  ASSUME TypeOK, WellFormed(img), i < Len(img.phdrs), LoadedUpTo(i),
         fp.file_pos = img.phoff + PhdrSize * i,
         \E phdr \in PhdrsAt(fp.file_pos) : ~phdr.load,
         fp' = Advance(fp, PhdrSize), i' = i + 1, mem' = mem, img' = img
  PROVE  fp'.file_pos = img.phoff + PhdrSize * (i + 1) /\ LoadedUpTo(i)'
<1>1. fp'.file_pos = U32Add(fp.file_pos, PhdrSize)
  BY Elf32Assumption, AdvanceTyped DEF TypeOK
<1>2. fp'.file_pos = img.phoff + PhdrSize * (i + 1)
  <2>1. /\ PhdrSize * (i + 1) = PhdrSize * i + PhdrSize /\ PhdrSize * i \in Nat
        /\ PhdrSize \in Nat /\ img.phoff \in Nat /\ img.len \in Nat /\ img.len < Word
        /\ img.phoff + PhdrSize * (i + 1) <= img.len
    BY NextEntryInside
  <2> DEFINE x == PhdrSize * i
  <2>2. /\ x \in Nat /\ PhdrSize \in Nat /\ img.phoff \in Nat /\ img.len \in Nat
        /\ img.phoff + (x + PhdrSize) <= img.len
        /\ fp.file_pos = img.phoff + x
    BY <2>1
  <2> HIDE DEF x
  <2>3. U32Add(img.phoff + x, PhdrSize) = img.phoff + (x + PhdrSize)
    BY <2>1, <2>2, NextPlace
  <2> QED BY <1>1, <2>1, <2>2, <2>3 DEF x
<1>3. ~img.phdrs[i + 1].load
  BY EntryRead
<1>4. \A a \in Addr : ~Covers(img.phdrs[i + 1], a)
  BY <1>3 DEF Covers
<1>5. 1 .. i + 1 = (1 .. i) \cup {i + 1}
  BY DEF TypeOK
<1>6. LoadedUpTo(i)'
  BY <1>4, <1>5 DEF LoadedUpTo
<1> QED BY <1>2, <1>6

(* A loaded entry adds its own cells; disjointness keeps the cells of the  *)
(* entries before it.                                                      *)
LEMMA EntryLoaded ==
  ASSUME TypeOK, WellFormed(img), i < Len(img.phdrs), LoadedUpTo(i),
         NEW phdr, phdr = img.phdrs[i + 1], phdr.load,
         mem' = SegmentCleared(SegmentCopied(mem, phdr, phdr.offset), phdr),
         i' = i + 1, img' = img
  PROVE  LoadedUpTo(i)'
<1>1. i \in Nat /\ Len(img.phdrs) \in Nat /\ img \in Images /\ i + 1 \in 1 .. Len(img.phdrs)
  BY ImageFacts DEF TypeOK
<1>2. phdr \in Phdr /\ SegmentOK(img, phdr)
  BY <1>1, ImageFacts DEF WellFormed
<1>3. ASSUME NEW a \in Addr
      PROVE  /\ Covers(phdr, a) => mem'[a] = Content(phdr, a)
             /\ ~Covers(phdr, a) => mem'[a] = mem[a]
  BY <1>1, <1>2, SegmentWritten DEF TypeOK
<1>4. ASSUME NEW a \in Addr, NEW k \in 1 .. i, Covers(img.phdrs[k], a)
      PROVE  ~Covers(phdr, a)
  <2>1. k \in 1 .. Len(img.phdrs) /\ k # i + 1
    BY <1>1
  <2>2. Disjoint(img.phdrs[k], phdr) /\ img.phdrs[k] \in Phdr
    BY <1>1, <2>1, ImageFacts DEF WellFormed
  <2> QED BY <1>2, <1>4, <2>2, CoveredOnce
<1>5. 1 .. i + 1 = (1 .. i) \cup {i + 1}
  BY <1>1
<1>6. ASSUME NEW a \in Addr
      PROVE  /\ \A k \in 1 .. i + 1 :
                  Covers(img.phdrs[k], a) => mem'[a] = Content(img.phdrs[k], a)
             /\ (\A k \in 1 .. i + 1 : ~Covers(img.phdrs[k], a)) => mem'[a] = UNTOUCHED
  BY <1>3, <1>4, <1>5 DEF LoadedUpTo
<1> QED BY <1>6 DEF LoadedUpTo

(* The invariant of the segment loop.                                      *)
LoopInv ==
  /\ fp.file_len = img.len
  /\ pc = "start" => i = 0 /\ mem = [a \in Addr |-> UNTOUCHED]
  /\ WellFormed(img) /\ pc = "segments" => LoadedUpTo(i)
  /\ PhdrCursor
  /\ LoadCorrect

LEMMA LoopInit == Init => LoopInv
BY DEF Init, LoopInv, PhdrCursor, LoadCorrect

(* Entering the loop: nothing is loaded and the position is entry 0's.     *)
LEMMA LoopAccept == TypeOK /\ LoopInv /\ AcceptImage => LoopInv'
<1> SUFFICES ASSUME TypeOK, LoopInv, AcceptImage PROVE LoopInv'
  OBVIOUS
<1>1. img.phoff \in Nat /\ img.len \in Nat /\ PhdrSize \in Nat \ {0} /\ Len(img.phdrs) \in Nat
  BY ImageFacts, Elf32Assumption, WordAssumption DEF TypeOK, U32
<1>2. Advance(fp, HdrSize) \in [file_len: U32, file_pos: U32]
      /\ Advance(fp, HdrSize).file_len = fp.file_len
  BY Elf32Assumption, AdvanceTyped DEF TypeOK
<1>3. /\ fp'.file_len = img.len
      /\ img.phoff <= img.len => fp'.file_pos = img.phoff
  BY <1>1, <1>2, SeekSetTyped DEF AcceptImage, LoopInv
<1>4. img' = img /\ i' = 0 /\ i = 0 /\ mem' = mem /\ mem = [a \in Addr |-> UNTOUCHED]
      /\ pc' = "segments"
  BY DEF AcceptImage, LoopInv
<1>5. LoadedUpTo(i)'
  BY <1>4 DEF LoadedUpTo
<1>6. WellFormed(img) => img.phoff <= img.len
  <2>1. PhdrSize * Len(img.phdrs) \in Nat
    BY <1>1, EntryOrder
  <2> QED BY <1>1, <2>1 DEF WellFormed
<1>7. PhdrSize * 0 = 0
  BY <1>1
<1> QED BY <1>1, <1>3, <1>4, <1>5, <1>6, <1>7 DEF LoopInv, PhdrCursor, LoadCorrect

(* A skipped entry leaves memory alone; the read has moved to the next.    *)
LEMMA LoopSkip == TypeOK /\ LoopInv /\ SkipSegment => LoopInv'
<1> SUFFICES ASSUME TypeOK, LoopInv, SkipSegment PROVE LoopInv'
  OBVIOUS
<1>1. img' = img /\ mem' = mem /\ pc = "segments" /\ pc' = "segments" /\ i' = i + 1
      /\ i < Len(img.phdrs) /\ i \in Nat
  BY DEF SkipSegment, TypeOK
<1>2. /\ fp'.file_len = fp.file_len
      /\ fp'.file_pos = U32Add(fp.file_pos, PhdrSize)
  BY Elf32Assumption, AdvanceTyped DEF TypeOK, SkipSegment
<1>3. ASSUME WellFormed(img)
      PROVE  /\ fp'.file_pos = img.phoff + PhdrSize * (i + 1)
             /\ LoadedUpTo(i)'
  <2>1. fp.file_pos = img.phoff + PhdrSize * i /\ LoadedUpTo(i)
    BY <1>1, <1>3 DEF LoopInv, PhdrCursor
  <2> QED BY <1>1, <1>3, <2>1, EntrySkipped DEF SkipSegment
<1> QED BY <1>1, <1>2, <1>3 DEF LoopInv, PhdrCursor, LoadCorrect

(* A loaded entry adds its own cells; disjointness keeps the cells of the  *)
(* entries before it, and the seek afterwards returns to the table.        *)
LEMMA LoopLoad == TypeOK /\ LoopInv /\ LoadSegment => LoopInv'
<1> SUFFICES ASSUME TypeOK, LoopInv, LoadSegment PROVE LoopInv'
  OBVIOUS
<1>1. /\ img' = img /\ pc = "segments" /\ pc' \in {"segments", "lost"} /\ i' = i + 1
      /\ i < Len(img.phdrs) /\ i \in Nat /\ img \in Images
      /\ Len(img.phdrs) \in Nat
  BY ImageFacts DEF LoadSegment, TypeOK
<1>2. PICK phdr \in PhdrsAt(fp.file_pos) :
        LET at   == SeekSet(Advance(fp, PhdrSize), phdr.offset)
            done == Advance(at, phdr.filesz)
        IN  /\ phdr.load
            /\ mem' = SegmentCleared(SegmentCopied(mem, phdr, at.file_pos), phdr)
            /\ fp' = SeekSet(done, PhdrOffset(img, i + 1))
  BY DEF LoadSegment
<1> DEFINE at   == SeekSet(Advance(fp, PhdrSize), phdr.offset)
           done == Advance(at, phdr.filesz)
<1>3. /\ phdr \in Phdr /\ phdr.offset \in Nat /\ phdr.offset \in U32
      /\ phdr.filesz \in U32 /\ phdr.filesz \in Nat /\ PhdrSize \in U32
  BY <1>2, HeadersRead, Elf32Assumption, WordAssumption DEF TypeOK, Phdr, U32
<1>4. /\ Advance(fp, PhdrSize) \in [file_len: U32, file_pos: U32]
      /\ Advance(fp, PhdrSize).file_len = img.len
  BY <1>3, AdvanceTyped DEF TypeOK, LoopInv
<1>5. /\ at \in [file_len: U32, file_pos: U32]
      /\ at.file_len = img.len
      /\ phdr.offset <= img.len => at.file_pos = phdr.offset
  BY <1>3, <1>4, SeekSetTyped
<1>6. done \in [file_len: U32, file_pos: U32] /\ done.file_len = img.len
  BY <1>3, <1>5, AdvanceTyped
<1>7. PhdrOffset(img, i + 1) \in Nat
  <2>1. i + 1 \in Nat /\ PhdrSize \in Nat \ {0}
    BY <1>1, Elf32Assumption, WordAssumption DEF U32
  <2>2. PhdrSize * (i + 1) \in Nat
    BY <2>1, EntryOrder
  <2>3. img.phoff \in U32
    BY <1>1, ImageFacts
  <2> QED BY <2>2, <2>3, WordAssumption DEF PhdrOffset, U32Add, U32
<1>8. /\ fp'.file_len = img.len
      /\ PhdrOffset(img, i + 1) <= img.len => fp'.file_pos = PhdrOffset(img, i + 1)
  BY <1>2, <1>6, <1>7, SeekSetTyped
<1>9. ASSUME WellFormed(img)
      PROVE  /\ fp'.file_pos = img.phoff + PhdrSize * (i + 1)
             /\ LoadedUpTo(i)'
  <2>1. fp'.file_pos = img.phoff + PhdrSize * (i + 1)
    BY <1>1, <1>8, <1>9, NextEntryInside
  <2>2. phdr = img.phdrs[i + 1] /\ i + 1 \in 1 .. Len(img.phdrs)
    <3>1. fp.file_pos = img.phoff + PhdrSize * i
      BY <1>1, <1>9 DEF LoopInv, PhdrCursor
    <3> QED BY <1>1, <1>2, <3>1, EntryRead
  <2>3. phdr.load /\ SegmentOK(img, phdr)
    BY <1>2, <1>9, <2>2 DEF WellFormed
  <2>4. phdr.offset <= img.len
    <3>1. img.len \in Nat
      BY <1>1, ImageFacts, WordAssumption DEF U32
    <3> QED BY <1>3, <2>3, <3>1 DEF SegmentOK
  <2>5. mem' = SegmentCleared(SegmentCopied(mem, phdr, phdr.offset), phdr)
    BY <1>2, <1>5, <2>4
  <2>6. LoadedUpTo(i)
    BY <1>1, <1>9 DEF LoopInv
  <2>7. LoadedUpTo(i)'
    BY <1>1, <1>9, <2>2, <2>3, <2>5, <2>6, EntryLoaded
  <2> QED BY <2>1, <2>7
<1> QED BY <1>1, <1>8, <1>9 DEF LoopInv, PhdrCursor, LoadCorrect

LEMMA LoopStep == TypeOK /\ LoopInv /\ [Next]_vars => LoopInv'
<1> SUFFICES ASSUME TypeOK, LoopInv, [Next]_vars PROVE LoopInv'
  OBVIOUS
<1>1. CASE RefuseImage
  <2>1. fp'.file_len = fp.file_len
    BY <1>1, Elf32Assumption, AdvanceTyped DEF TypeOK, RefuseImage
  <2> QED BY <1>1, <2>1 DEF RefuseImage, LoopInv, PhdrCursor, LoadCorrect
<1>2. CASE AcceptImage
  BY <1>2, LoopAccept
<1>3. CASE SkipSegment
  BY <1>3, LoopSkip
<1>4. CASE LoadSegment
  BY <1>4, LoopLoad
<1>5. CASE KickIntoLinux
  <2>1. WellFormed(img) => LoadedUpTo(Len(img.phdrs))
    BY <1>5 DEF KickIntoLinux, LoopInv
  <2>2. (WellFormed(img) => LoadedUpTo(Len(img.phdrs)))'
    BY <1>5, <2>1 DEF KickIntoLinux, LoadedUpTo
  <2> QED BY <1>5, <2>2 DEF KickIntoLinux, LoopInv, PhdrCursor, LoadCorrect
<1>6. CASE UNCHANGED vars
  BY <1>6 DEF vars, LoopInv, PhdrCursor, LoadCorrect, LoadedUpTo
<1> QED BY <1>1, <1>2, <1>3, <1>4, <1>5, <1>6 DEF Next

(* Every well-formed image that load_elf32_file starts has exactly its     *)
(* load image in memory: segment bytes at paddr, cleared tails, and no     *)
(* other cell changed, for every number, order and size of segments.       *)
THEOREM LoadCorrectness == Spec => []LoadCorrect
<1>1. Spec => Init /\ [][Next]_vars
  BY DEF Spec
<1>2. LoopInv => LoadCorrect
  BY DEF LoopInv
<1> QED BY <1>1, <1>2, TypeInit, TypeStep, LoopInit, LoopStep, PTL

(* In the segment loop the file position is always that of the next table  *)
(* entry, after loaded and skipped entries alike.                          *)
THEOREM CursorCorrectness == Spec => []PhdrCursor
<1>1. Spec => Init /\ [][Next]_vars
  BY DEF Spec
<1>2. LoopInv => PhdrCursor
  BY DEF LoopInv
<1> QED BY <1>1, <1>2, TypeInit, TypeStep, LoopInit, LoopStep, PTL

-----------------------------------------------------------------------------
(* load_elf64_file.  Its steps keep the types too.                         *)
LEMMA TypeInit64 == Init64 => TypeOK
<1> SUFFICES ASSUME Init64 PROVE TypeOK
  OBVIOUS
<1>1. img \in Images
  BY DEF Init64
<1>2. fp \in [file_len: U32, file_pos: U32]
  BY <1>1, ImageFacts, WordAssumption DEF Init64, U32
<1>3. mem \in [Addr -> Cell]
  BY DEF Init64, Cell
<1>4. i \in 0 .. Len(img.phdrs) /\ mem_sz \in U32
  BY <1>1, ImageFacts, WordAssumption DEF Init64, U32
<1> QED BY <1>1, <1>2, <1>3, <1>4 DEF Init64, TypeOK

(* The header read at position 0 and the seek behind it.                   *)
LEMMA HeaderRead64 ==
  ASSUME TypeOK
  PROVE  /\ Advance(SeekSet(fp, 0), HdrSize) \in [file_len: U32, file_pos: U32]
         /\ Advance(SeekSet(fp, 0), HdrSize).file_len = fp.file_len
<1>1. SeekSet(fp, 0) \in [file_len: U32, file_pos: U32] /\ SeekSet(fp, 0).file_len = fp.file_len
  BY SeekSetTyped DEF TypeOK
<1> QED BY <1>1, Elf32Assumption, AdvanceTyped

(* What one pass of LoadSegment64 does, for the header read.               *)
LEMMA LoadSegment64Facts ==
  ASSUME TypeOK, fp.file_len = img.len, LoadSegment64
  PROVE  /\ TypeOK' /\ fp'.file_len = img.len
         /\ \E phdr \in PhdrsAt(fp.file_pos) :
              /\ phdr.load
              /\ phdr.offset <= img.len =>
                   mem' = SegmentCleared(SegmentCopied(mem, phdr, phdr.offset), phdr)
<1> USE DEF TypeOK
<1>1. PICK phdr \in PhdrsAt(fp.file_pos) :
        LET at == SeekSet(Advance(fp, PhdrSize), phdr.offset)
        IN  /\ phdr.load
            /\ mem' = SegmentCleared64(SegmentCopied64(mem, phdr, at.file_pos), phdr)
            /\ mem_sz' = U32Add(mem_sz, phdr.memsz)
            /\ fp' = Advance(at, phdr.filesz)
  BY DEF LoadSegment64
<1> DEFINE at == SeekSet(Advance(fp, PhdrSize), phdr.offset)
<1>2. phdr \in Phdr
  BY <1>1, HeadersRead
<1>3. /\ phdr.offset \in U32 /\ phdr.offset \in Nat
      /\ phdr.filesz \in U32 /\ phdr.memsz \in U32 /\ phdr.paddr \in U32
      /\ PhdrSize \in U32
  BY <1>2, Elf32Assumption, WordAssumption DEF Phdr, U32
<1>4. /\ Advance(fp, PhdrSize) \in [file_len: U32, file_pos: U32]
      /\ Advance(fp, PhdrSize).file_len = img.len
  BY <1>3, AdvanceTyped
<1>5. /\ at \in [file_len: U32, file_pos: U32] /\ at.file_len = img.len
      /\ phdr.offset <= img.len => at.file_pos = phdr.offset
  BY <1>3, <1>4, SeekSetTyped
<1>6. fp' \in [file_len: U32, file_pos: U32] /\ fp'.file_len = img.len
  BY <1>1, <1>3, <1>5, AdvanceTyped
<1>7. mem' = SegmentCleared(SegmentCopied(mem, phdr, at.file_pos), phdr)
  BY <1>1 DEF SegmentCleared64, SegmentCopied64, SegmentCleared, SegmentCopied
<1>8. SegmentCopied(mem, phdr, at.file_pos) \in [Addr -> Cell]
  BY <1>3, <1>5, WritesTyped DEF SegmentCopied
<1>9. mem' \in [Addr -> Cell]
  <2>1. U32Add(phdr.paddr, phdr.filesz) \in U32 /\ U32Sub(phdr.memsz, phdr.filesz) \in U32
    BY <1>3, WordClosed
  <2> QED BY <1>3, <1>7, <1>8, <2>1, WritesTyped DEF SegmentCleared
<1>10. mem_sz' \in U32
  BY <1>1, <1>3, WordClosed
<1>11. i' \in 0 .. Len(img.phdrs) /\ img' = img
  BY ImageFacts DEF LoadSegment64
<1>12. pc' \in {"start", "segments64", "failed", "kernel", "lost"}
  BY DEF LoadSegment64
<1>13. TypeOK'
  BY <1>6, <1>9, <1>10, <1>11, <1>12
<1> QED BY <1>1, <1>5, <1>6, <1>7, <1>13

(* The invariant of the 64-bit loop.  Behind a loaded segment the position *)
(* is lost, so it speaks of images whose only PT_LOAD entry is the last.   *)
LastOnly(g) == \A k \in 1 .. Len(g.phdrs) - 1 : ~g.phdrs[k].load

Loop64Inv ==
  /\ fp.file_len = img.len
  /\ pc \in {"start", "segments64", "failed", "lost"}
  /\ pc = "start" => i = 0 /\ mem = [a \in Addr |-> UNTOUCHED]
  /\ pc = "segments64" /\ WellFormed(img) /\ LastOnly(img) =>
       /\ LoadedUpTo(i)
       /\ i < Len(img.phdrs) => fp.file_pos = img.phoff + PhdrSize * i
  /\ pc = "failed" /\ ~Refused64(img) /\ WellFormed(img) /\ LastOnly(img) =>
       LoadedUpTo(Len(img.phdrs))

LEMMA Loop64Step ==
  ASSUME TypeOK, Loop64Inv, Next64
  PROVE  TypeOK' /\ Loop64Inv'
<1>0. /\ PhdrSize \in U32 /\ HdrSize \in U32 /\ img \in Images
      /\ i \in Nat /\ i <= Len(img.phdrs) /\ Len(img.phdrs) \in Nat
  BY Elf32Assumption, ImageFacts DEF TypeOK
<1>1. CASE RefuseImage64
  <2>1. /\ fp' \in [file_len: U32, file_pos: U32] /\ fp'.file_len = img.len
    BY <1>1, HeaderRead64 DEF RefuseImage64, Loop64Inv
  <2>2. /\ Refused64(img) /\ pc' = "failed" /\ img' = img /\ mem' = mem /\ i' = i
        /\ mem_sz' = mem_sz
    BY <1>1 DEF RefuseImage64
  <2>3. TypeOK'
    BY <2>1, <2>2 DEF TypeOK
  <2> QED BY <2>1, <2>2, <2>3 DEF Loop64Inv
<1>2. CASE AcceptImage64
  <2>1. img.phoff \in Nat /\ img.len \in Nat /\ PhdrSize \in Nat \ {0}
    BY <1>0, ImageFacts, Elf32Assumption, WordAssumption DEF U32
  <2>2. /\ fp' \in [file_len: U32, file_pos: U32] /\ fp'.file_len = img.len
        /\ img.phoff <= img.len => fp'.file_pos = img.phoff
    BY <1>2, <2>1, HeaderRead64, SeekSetTyped DEF AcceptImage64, Loop64Inv
  <2>3. /\ pc' = "segments64" /\ img' = img /\ mem' = mem /\ i' = i /\ mem_sz' = mem_sz
        /\ i = 0 /\ mem = [a \in Addr |-> UNTOUCHED]
    BY <1>2 DEF AcceptImage64, Loop64Inv
  <2>4. TypeOK'
    BY <2>2, <2>3 DEF TypeOK
  <2>5. LoadedUpTo(i)'
    BY <2>3 DEF LoadedUpTo
  <2>6. WellFormed(img) => img.phoff <= img.len
    <3>1. PhdrSize * Len(img.phdrs) \in Nat
      BY <1>0, <2>1, EntryOrder
    <3> QED BY <2>1, <3>1 DEF WellFormed
  <2>7. PhdrSize * 0 = 0
    BY <2>1
  <2> QED BY <2>1, <2>2, <2>3, <2>4, <2>5, <2>6, <2>7 DEF Loop64Inv
<1>3. CASE SkipSegment64
  <2>1. /\ pc = "segments64" /\ pc' = pc /\ i < Len(img.phdrs) /\ i' = i + 1
        /\ mem' = mem /\ img' = img /\ mem_sz' = mem_sz /\ fp' = Advance(fp, PhdrSize)
        /\ \E phdr \in PhdrsAt(fp.file_pos) : ~phdr.load
    BY <1>3 DEF SkipSegment64
  <2>2. fp' \in [file_len: U32, file_pos: U32] /\ fp'.file_len = img.len
    BY <1>0, <2>1, AdvanceTyped DEF TypeOK, Loop64Inv
  <2>3. TypeOK'
    BY <1>0, <2>1, <2>2 DEF TypeOK
  <2>4. ASSUME WellFormed(img), LastOnly(img)
        PROVE  fp'.file_pos = img.phoff + PhdrSize * (i + 1) /\ LoadedUpTo(i)'
    <3>1. LoadedUpTo(i) /\ fp.file_pos = img.phoff + PhdrSize * i
      BY <2>1, <2>4 DEF Loop64Inv
    <3> QED BY <2>1, <2>4, <3>1, EntrySkipped
  <2> QED BY <2>1, <2>2, <2>3, <2>4 DEF Loop64Inv
<1>4. CASE LoadSegment64
  <2>1. TypeOK' /\ fp'.file_len = img.len
    BY <1>4, LoadSegment64Facts DEF Loop64Inv
  <2>2. PICK phdr \in PhdrsAt(fp.file_pos) :
              /\ phdr.load
              /\ phdr.offset <= img.len =>
                   mem' = SegmentCleared(SegmentCopied(mem, phdr, phdr.offset), phdr)
    BY <1>4, LoadSegment64Facts DEF Loop64Inv
  <2>3. /\ pc = "segments64" /\ pc' \in {"segments64", "lost"} /\ i < Len(img.phdrs)
        /\ i' = i + 1 /\ img' = img
    BY <1>4 DEF LoadSegment64
  <2>4. ASSUME WellFormed(img), LastOnly(img)
        PROVE  i + 1 = Len(img.phdrs) /\ LoadedUpTo(i)'
    <3>1. LoadedUpTo(i) /\ fp.file_pos = img.phoff + PhdrSize * i
      BY <2>3, <2>4 DEF Loop64Inv
    <3>2. phdr = img.phdrs[i + 1]
      BY <2>3, <3>1, EntryRead
    <3>3. i + 1 = Len(img.phdrs) /\ i + 1 \in 1 .. Len(img.phdrs)
      BY <1>0, <2>2, <2>3, <2>4, <3>2 DEF LastOnly
    <3>4. SegmentOK(img, phdr) /\ phdr \in Phdr
      BY <1>0, <2>4, <3>2, <3>3, ImageFacts DEF WellFormed
    <3>5. phdr.offset <= img.len
      <4>1. img.len \in Nat /\ phdr.offset \in Nat /\ phdr.filesz \in Nat
        BY <1>0, <3>4, ImageFacts, WordAssumption DEF Phdr, U32
      <4>2. phdr.offset + phdr.filesz <= img.len
        BY <2>2, <3>4 DEF SegmentOK
      <4> QED BY <4>1, <4>2
    <3>6. LoadedUpTo(i)'
      BY <2>2, <2>3, <2>4, <3>1, <3>2, <3>5, EntryLoaded
    <3> QED BY <3>3, <3>6
  <2>5. i' < Len(img.phdrs) => ~(WellFormed(img) /\ LastOnly(img))
    BY <1>0, <2>3, <2>4
  <2> QED BY <2>1, <2>3, <2>4, <2>5 DEF Loop64Inv
<1>5. CASE Return64
  <2>1. /\ pc = "segments64" /\ i = Len(img.phdrs) /\ pc' = "failed"
        /\ UNCHANGED <<img, fp, mem, i, mem_sz>>
    BY <1>5 DEF Return64
  <2>2. WellFormed(img) /\ LastOnly(img) => LoadedUpTo(Len(img.phdrs))
    BY <2>1 DEF Loop64Inv
  <2>3. (WellFormed(img) /\ LastOnly(img) => LoadedUpTo(Len(img.phdrs)))'
    BY <2>1, <2>2 DEF LoadedUpTo
  <2>4. TypeOK'
    BY <2>1 DEF TypeOK
  <2> QED BY <2>1, <2>3, <2>4 DEF Loop64Inv
<1> QED BY <1>1, <1>2, <1>3, <1>4, <1>5 DEF Next64

(* start_bootloader's choice: each image runs in its own loader.           *)
LoadersInv ==
  /\ TypeOK
  /\ img.class = 1 => LoopInv
  /\ img.class # 1 => Loop64Inv

LEMMA LoadersInit == LoadInit => LoadersInv
<1>1. Init => img.class = 1 /\ TypeOK /\ LoopInv
  BY TypeInit, LoopInit DEF Init
<1>2. ASSUME Init64 PROVE img.class # 1 /\ TypeOK /\ Loop64Inv
  BY <1>2, TypeInit64 DEF Init64, Loop64Inv
<1> QED BY <1>1, <1>2 DEF LoadInit, LoadersInv

LEMMA LoadersStep == LoadersInv /\ [LoadNext]_vars => LoadersInv'
<1> SUFFICES ASSUME LoadersInv, [LoadNext]_vars PROVE LoadersInv'
  OBVIOUS
<1>1. CASE img.class = 1 /\ Next
  <2>1. TypeOK' /\ LoopInv'
    BY <1>1, TypeStep, LoopStep DEF LoadersInv
  <2>2. img' = img
    BY <1>1 DEF Next, RefuseImage, AcceptImage, SkipSegment, LoadSegment, KickIntoLinux
  <2> QED BY <1>1, <2>1, <2>2 DEF LoadersInv
<1>2. CASE img.class # 1 /\ Next64
  <2>1. TypeOK' /\ Loop64Inv'
    BY <1>2, Loop64Step DEF LoadersInv
  <2>2. img' = img
    BY <1>2 DEF Next64, RefuseImage64, AcceptImage64, SkipSegment64, LoadSegment64, Return64
  <2> QED BY <1>2, <2>1, <2>2 DEF LoadersInv
<1>3. CASE UNCHANGED vars
  <2>1. TypeOK' /\ img' = img
    BY <1>3 DEF LoadersInv, vars, TypeOK
  <2>2. img.class = 1 => LoopInv'
    BY <1>3, LoopStep DEF LoadersInv
  <2>3. ASSUME img.class # 1 PROVE Loop64Inv'
    <3>1. Loop64Inv
      BY <2>3 DEF LoadersInv
    <3>2. UNCHANGED <<img, fp, mem, i, pc>>
      BY <1>3 DEF vars
    <3> QED BY <3>1, <3>2 DEF Loop64Inv, LoadedUpTo
  <2> QED BY <2>1, <2>2, <2>3 DEF LoadersInv
<1> QED BY <1>1, <1>2, <1>3 DEF LoadNext

(* load_elf64_file loads an image whose only PT_LOAD segment is the last:  *)
(* its bytes at paddr, its cleared tail, and no other cell; while          *)
(* load_elf32_file, chosen for the other class, keeps what was proved of   *)
(* it alone.                                                               *)
THEOREM LoadersCorrect ==
  LoadSpec => [](LastSegmentLoads /\ LoadCorrect /\ PhdrCursor)
<1>1. ASSUME LoadersInv PROVE LastSegmentLoads /\ LoadCorrect /\ PhdrCursor
  <2>1. CASE img.class = 1
    BY <1>1, <2>1 DEF LoadersInv, LoopInv, LastSegmentLoads
  <2>2. CASE img.class # 1
    BY <1>1, <2>2 DEF LoadersInv, Loop64Inv, LastSegmentLoads, LastOnly,
                      LoadCorrect, PhdrCursor
  <2> QED BY <2>1, <2>2
<1> QED BY <1>1, LoadersInit, LoadersStep, PTL DEF LoadSpec
=============================================================================
