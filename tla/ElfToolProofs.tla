--------------------------- MODULE ElfToolProofs ---------------------------
(***************************************************************************)
(* ELFTool for every set of files, size of a byte and content of the       *)
(* stack.                                                                  *)
(***************************************************************************)
EXTENDS ElfTool, TLAPS

(* A word of either byte order is a number.                                *)
LEMMA SwapNat ==
  ASSUME NEW w \in Nat
  PROVE  SWAP(w) \in Nat
<1> DEFINE q == w % Byte  r == w \div Byte
<1>1. Byte \in Nat /\ Byte > 0
  BY ElfToolAssumption
<1>2. q \in Nat /\ r \in Nat
  BY <1>1
<1> HIDE DEF q, r
<1>3. \A x, y \in Nat : x * y \in Nat
  OBVIOUS
<1>4. q * Byte \in Nat
  BY <1>1, <1>2, <1>3
<1>5. q * Byte + r \in Nat
  BY <1>2, <1>4
<1> QED BY <1>5 DEF SWAP, q, r

LEMMA FileWords ==
  /\ \A f \in Files : Len(f) \in Nat /\ \A k \in 1 .. Len(f) : f[k] \in Nat
  /\ \A g \in Garbage : g \in Nat
<1> DEFINE M == Byte * Byte - 1
<1>1. M \in Int
  BY ElfToolAssumption
<1>2. Files \subseteq Seq(0 .. M) /\ Garbage \subseteq 0 .. M
  BY ElfToolAssumption
<1> HIDE DEF M
<1> QED BY <1>1, <1>2

-----------------------------------------------------------------------------
(* The structs hold numbers, whatever the file lacks of them, and what is  *)
(* not reached yet is empty.                                               *)
ToolTypeOK ==
  /\ file \in Files
  /\ hdr \in [1 .. EhdrSize -> Nat]
  /\ strtab \in [1 .. ShdrSize -> Nat] /\ shdr \in [1 .. ShdrSize -> Nat]
  /\ phdr \in [1 .. PhdrSize -> Nat]
  /\ swap \in BOOLEAN /\ named \in BOOLEAN /\ i \in Nat
  /\ \E S : sections \in Seq(S)
  /\ \E S : segments \in Seq(S)

LEMMA StructRead ==
  ASSUME file \in Files, NEW n \in Nat, NEW s \in [1 .. n -> Nat], NEW at \in Nat
  PROVE  /\ Fread(s, n, at) \in [1 .. n -> Nat]
         /\ swap_elf32_section_header(Fread(s, n, at)) \in [1 .. n -> Nat]
         /\ swap_elf32_program_header(Fread(s, n, at)) \in [1 .. n -> Nat]
         /\ swap_elf32_header(Fread(s, n, at)) \in [1 .. n -> Nat]
<1>1. Len(file) \in Nat /\ \A k \in 1 .. Len(file) : file[k] \in Nat
  BY FileWords
<1>2. Fread(s, n, at) \in [1 .. n -> Nat]
  <2>1. ASSUME NEW k \in 1 .. n
        PROVE  (IF at + k <= Len(file) THEN file[at + k] ELSE s[k]) \in Nat
    BY <1>1
  <2> QED BY <2>1 DEF Fread
<1> DEFINE r == Fread(s, n, at)
<1> HIDE DEF r
<1>3. r \in [1 .. n -> Nat]
  BY <1>2 DEF r
<1>4. SwapAll(r) \in [1 .. n -> Nat]
  BY <1>3, SwapNat DEF SwapAll
<1>5. swap_elf32_header(r) \in [1 .. n -> Nat]
  BY <1>3, SwapNat DEF swap_elf32_header
<1>6. /\ swap_elf32_section_header(r) \in [1 .. n -> Nat]
      /\ swap_elf32_program_header(r) \in [1 .. n -> Nat]
  BY <1>3, <1>4 DEF swap_elf32_section_header, swap_elf32_program_header
<1> QED BY <1>3, <1>5, <1>6 DEF r

LEMMA Sizes == EhdrSize = 9 /\ ShdrSize = 4 /\ PhdrSize = 2
BY DEF EhdrSize, ShdrSize, PhdrSize

LEMMA HeaderFields ==
  ASSUME NEW h \in [1 .. EhdrSize -> Nat]
  PROVE  /\ h[Ehdr.magic] \in Nat /\ h[Ehdr.data] \in Nat /\ h[Ehdr.type] \in Nat
         /\ h[Ehdr.machine] \in Nat /\ h[Ehdr.phoff] \in Nat /\ h[Ehdr.shoff] \in Nat
         /\ h[Ehdr.phnum] \in Nat /\ h[Ehdr.shnum] \in Nat /\ h[Ehdr.shstrndx] \in Nat
BY DEF Ehdr, EhdrSize

(* The place in the file that is read next is never negative once the file *)
(* is open.                                                                *)
FilePosition ==
  pc \in {"sections", "segments"} => fp \in Nat

LEMMA PositionAfter ==
  ASSUME file \in Files, NEW n \in Nat, NEW at \in Nat
  PROVE  FposAfter(n, at) \in Nat
BY FileWords DEF FposAfter

LEMMA ToolTypeInit == Init => ToolTypeOK /\ FilePosition
<1> SUFFICES ASSUME Init PROVE ToolTypeOK /\ FilePosition
  OBVIOUS
<1>1. PICK g \in Garbage :
        /\ hdr = [k \in 1 .. EhdrSize |-> g] /\ strtab = [k \in 1 .. ShdrSize |-> g]
        /\ shdr = strtab /\ phdr = [k \in 1 .. PhdrSize |-> g]
  BY DEF Init
<1>2. g \in Nat
  BY FileWords
<1>3. /\ hdr \in [1 .. EhdrSize -> Nat] /\ strtab \in [1 .. ShdrSize -> Nat]
      /\ shdr \in [1 .. ShdrSize -> Nat] /\ phdr \in [1 .. PhdrSize -> Nat]
  BY <1>1, <1>2
<1>4. sections \in Seq({}) /\ segments \in Seq({})
  BY DEF Init
<1>5. file \in Files /\ swap = FALSE /\ named = FALSE /\ i = 0 /\ pc = "args"
  BY DEF Init
<1> QED BY <1>3, <1>4, <1>5 DEF ToolTypeOK, FilePosition

LEMMA SequenceGrows ==
  ASSUME NEW s, \E S : s \in Seq(S), NEW e
  PROVE  /\ \E S : Append(s, e) \in Seq(S)
         /\ Len(s) \in Nat /\ Len(Append(s, e)) = Len(s) + 1
         /\ \A k \in 1 .. Len(s) : Append(s, e)[k] = s[k]
         /\ Append(s, e)[Len(s) + 1] = e
<1>1. PICK S : s \in Seq(S)
  OBVIOUS
<1> DEFINE R == S \cup {e}
<1>2. s \in Seq(R) /\ e \in R
  BY <1>1
<1> HIDE DEF R
<1>3. Append(s, e) \in Seq(R)
  BY <1>2
<1>4. /\ Len(s) \in Nat /\ Len(Append(s, e)) = Len(s) + 1
      /\ \A k \in 1 .. Len(s) : Append(s, e)[k] = s[k]
      /\ Append(s, e)[Len(s) + 1] = e
  BY <1>2
<1> QED BY <1>3, <1>4

LEMMA ToolTypeStep == ToolTypeOK /\ FilePosition /\ [Next]_vars => ToolTypeOK' /\ FilePosition'
<1> SUFFICES ASSUME ToolTypeOK, FilePosition, [Next]_vars
             PROVE  ToolTypeOK' /\ FilePosition'
  OBVIOUS
<1>s. EhdrSize \in Nat /\ ShdrSize \in Nat /\ PhdrSize \in Nat /\ 0 \in Nat
  BY Sizes
<1>h. /\ hdr[Ehdr.phoff] \in Nat /\ hdr[Ehdr.shoff] \in Nat
      /\ hdr[Ehdr.shstrndx] \in Nat /\ StrtabAt \in Nat
  <2>1. hdr \in [1 .. EhdrSize -> Nat]
    BY DEF ToolTypeOK
  <2>2. hdr[Ehdr.phoff] \in Nat /\ hdr[Ehdr.shoff] \in Nat /\ hdr[Ehdr.shstrndx] \in Nat
    BY <2>1, HeaderFields
  <2>3. ShdrSize * hdr[Ehdr.shstrndx] \in Nat
    BY <2>2, Sizes
  <2> QED BY <2>2, <2>3 DEF StrtabAt
<1>t. StrtabHeader \in [1 .. ShdrSize -> Nat]
  BY <1>s, <1>h, StructRead DEF ToolTypeOK, StrtabHeader
<1>1. CASE UNCHANGED vars
  BY <1>1 DEF vars, ToolTypeOK, FilePosition
<1>2. CASE NoFile \/ OpenFile \/ NotElf \/ NoSegments \/ CloseFile
  BY <1>2 DEF NoFile, OpenFile, NotElf, NoSegments, CloseFile, ToolTypeOK, FilePosition
<1>3. CASE ReadHeader
  <2>1. PICK h : h = Fread(hdr, EhdrSize, 0)
    OBVIOUS
  <2>2. h \in [1 .. EhdrSize -> Nat] /\ swap_elf32_header(h) \in [1 .. EhdrSize -> Nat]
    BY <1>s, <2>1, StructRead DEF ToolTypeOK
  <2>3. /\ swap' = (h[Ehdr.data] = MSB) /\ hdr' = IF swap' THEN swap_elf32_header(h) ELSE h
        /\ pc' \in {"strtab", "undefined"}
        /\ UNCHANGED <<file, strtab, shdr, phdr, i, named, strtabl, sections, segments>>
    BY <1>3, <2>1 DEF ReadHeader
  <2>4. swap' \in BOOLEAN /\ hdr' \in [1 .. EhdrSize -> Nat]
    BY <2>2, <2>3
  <2> QED BY <2>3, <2>4 DEF ToolTypeOK, FilePosition
<1>4. CASE NoStringTable
  <2>1. /\ UNCHANGED <<file, hdr, shdr, phdr, swap, i, named, sections, segments>>
        /\ strtab' \in {strtab, StrtabHeader} /\ fp' = hdr[Ehdr.shoff]
    BY <1>4 DEF NoStringTable, WithoutNames, SectionsAt
  <2> QED BY <1>h, <1>t, <2>1 DEF ToolTypeOK, FilePosition
<1>5. CASE ReadStringTable
  <2>1. /\ UNCHANGED <<file, hdr, shdr, phdr, swap, i, sections, segments>>
        /\ strtab' = StrtabHeader /\ fp' = hdr[Ehdr.shoff] /\ named' = TRUE
    BY <1>5 DEF ReadStringTable, SectionsAt
  <2> QED BY <1>h, <1>t, <2>1 DEF ToolTypeOK, FilePosition
<1>6. CASE NoMemory
  <2>1. /\ UNCHANGED <<file, hdr, shdr, phdr, swap, i, named, sections, segments>>
        /\ strtab' = StrtabHeader /\ (fp' = hdr[Ehdr.shoff] \/ pc' = "undefined")
    BY <1>6 DEF NoMemory, WithoutNames, SectionsAt
  <2> QED BY <1>h, <1>t, <2>1 DEF ToolTypeOK, FilePosition
<1>7. CASE ShowSection
  <2>1. /\ UNCHANGED <<file, hdr, strtab, phdr, swap, named, segments>> /\ fp \in Nat
        /\ shdr' = swap_elf32_section_header(Fread(shdr, ShdrSize, fp))
        /\ fp' = FposAfter(ShdrSize, fp) /\ i' \in {i, i + 1}
        /\ sections' = sections \/ \E e : sections' = Append(sections, e)
    BY <1>7 DEF ShowSection, FilePosition
  <2>2. shdr' \in [1 .. ShdrSize -> Nat] /\ fp' \in Nat
    BY <1>s, <2>1, StructRead, PositionAfter DEF ToolTypeOK
  <2>3. \E S : sections' \in Seq(S)
    <3>1. \E S : sections \in Seq(S)
      BY DEF ToolTypeOK
    <3>2. ASSUME NEW e PROVE \E S : Append(sections, e) \in Seq(S)
      BY <3>1, SequenceGrows, Zenon
    <3> QED BY <2>1, <3>1, <3>2, Zenon
  <2> QED BY <2>1, <2>2, <2>3 DEF ToolTypeOK, FilePosition
<1>8. CASE GoToSegments
  BY <1>h, <1>8 DEF GoToSegments, ToolTypeOK, FilePosition
<1>9. CASE ShowSegment
  <2>1. /\ UNCHANGED <<file, hdr, strtab, shdr, swap, named, sections>> /\ fp \in Nat
        /\ phdr' = swap_elf32_program_header(Fread(phdr, PhdrSize, fp))
        /\ fp' = FposAfter(PhdrSize, fp) /\ i' = i + 1
        /\ \E e : segments' = Append(segments, e)
    BY <1>9 DEF ShowSegment, FilePosition
  <2>2. phdr' \in [1 .. PhdrSize -> Nat] /\ fp' \in Nat
    BY <1>s, <2>1, StructRead, PositionAfter DEF ToolTypeOK
  <2>3. \E S : segments' \in Seq(S)
    <3>1. \E S : segments \in Seq(S)
      BY DEF ToolTypeOK
    <3>2. ASSUME NEW e PROVE \E S : Append(segments, e) \in Seq(S)
      BY <3>1, SequenceGrows, Zenon
    <3> QED BY <2>1, <3>1, <3>2, Zenon
  <2> QED BY <2>1, <2>2, <2>3 DEF ToolTypeOK, FilePosition
<1> QED BY <1>1, <1>2, <1>3, <1>4, <1>5, <1>6, <1>7, <1>8, <1>9 DEF Next

-----------------------------------------------------------------------------
(* The tables as the file has them are the ones ELFTool walks.             *)
Walking == {"strtab", "sections", "segments", "done"}

HeaderInv ==
  pc \in Walking =>
    /\ swap = (file[Ehdr.data] = MSB)
    /\ hdr[Ehdr.phoff] = FileHead(Ehdr.phoff) /\ hdr[Ehdr.shoff] = FileHead(Ehdr.shoff)
    /\ hdr[Ehdr.phnum] = FileHead(Ehdr.phnum) /\ hdr[Ehdr.shnum] = FileHead(Ehdr.shnum)
    /\ hdr[Ehdr.shstrndx] = FileHead(Ehdr.shstrndx)

(* A name is looked up in the file's string table.                         *)
NameInv == named => HasNames /\ (NamesInFile => strtabl = StringTable)

SectionOK(s, k) ==
  /\ s.fields = Sec(k)
  /\ NamesInFile /\ named => s.name = StringAt(StringTable, Sec(k)[Shdr.name])

SectionsInv ==
  /\ pc = "sections" => fp = hdr[Ehdr.shoff] + ShdrSize * i /\ i <= hdr[Ehdr.shnum]
                        /\ Len(sections) = i
  /\ pc \in {"segments", "done"} => Len(sections) = hdr[Ehdr.shnum]
  /\ pc \in Walking => \A k \in 1 .. Len(sections) : SectionOK(sections[k], k - 1)

SegmentsInv ==
  /\ pc = "segments" => fp = hdr[Ehdr.phoff] + PhdrSize * i /\ i <= hdr[Ehdr.phnum]
                        /\ Len(segments) = i
  /\ pc = "done" => Len(segments) = hdr[Ehdr.phnum]
  /\ pc \in Walking => \A k \in 1 .. Len(segments) : segments[k].fields = Seg(k - 1)

(* What has not been reached yet.                                          *)
UnreachedInv ==
  /\ pc = "args" => fp = -1
  /\ pc \in {"args", "magic", "strtab"} => ~named /\ i = 0 /\ sections = << >>
  /\ pc \notin {"segments", "done"} => segments = << >>

TableInv == TablesInFile => HeaderInv /\ NameInv /\ SectionsInv /\ SegmentsInv

(* The file does not change, nor does what is read off it alone.           *)
LEMMA ToolFrame ==
  ASSUME [Next]_vars
  PROVE  /\ file' = file
         /\ TablesInFile' = TablesInFile /\ HasNames' = HasNames
         /\ NamesInFile' = NamesInFile /\ StringTable' = StringTable
         /\ \A k : Sec(k)' = Sec(k) /\ Seg(k)' = Seg(k) /\ FileHead(k)' = FileHead(k)
<1>1. file' = file
  BY DEF Next, vars, NoFile, OpenFile, NotElf, ReadHeader, NoStringTable, ReadStringTable,
         NoMemory, ShowSection, NoSegments, GoToSegments, ShowSegment, CloseFile
<1>2. \A k : FileHead(k)' = FileHead(k)
  BY <1>1 DEF FileHead, Host
<1>3. \A k : Sec(k)' = Sec(k) /\ Seg(k)' = Seg(k)
  BY <1>1 DEF Sec, Seg, Entry, FileHead, Host
<1>4. TablesInFile' = TablesInFile
  BY <1>1 DEF TablesInFile, FileHead, Host
<1>5. HasNames' = HasNames /\ StringTable' = StringTable
  BY <1>1 DEF HasNames, StringTable, Sec, Entry, FileHead, Host
<1>6. NamesInFile' = NamesInFile
  BY <1>1 DEF NamesInFile, HasNames, HasString, StringTable, Sec, Entry, FileHead, Host
<1> QED BY <1>1, <1>2, <1>3, <1>4, <1>5, <1>6

(* A read of an entry that lies in the file gives the entry, in host order.*)
OrderKnown == swap = (file[Ehdr.data] = MSB)

EntryAt(base, at, n, k) == base \in Nat /\ base = at + n * k /\ base + n <= Len(file)

LEMMA EntryShown ==
  ASSUME file \in Files, OrderKnown,
         NEW n \in Nat, NEW s \in [1 .. n -> Nat], NEW at \in Nat, NEW k \in Nat,
         NEW base, EntryAt(base, at, n, k)
  PROVE  /\ swap_elf32_section_header(Fread(s, n, base)) = Entry(at, n, k)
         /\ swap_elf32_program_header(Fread(s, n, base)) = Entry(at, n, k)
         /\ FposAfter(n, base) = base + n
<1>1. Len(file) \in Nat /\ base \in Nat /\ base = at + n * k /\ base + n <= Len(file)
  BY FileWords DEF EntryAt
<1>2. \A m \in 1 .. n : base + m <= Len(file)
  BY <1>1
<1>3. Fread(s, n, base) = [m \in 1 .. n |-> file[base + m]]
  BY <1>2 DEF Fread
<1>4. Entry(at, n, k) = [m \in 1 .. n |-> Host(file[base + m])]
  BY <1>1 DEF Entry
<1>5. SwapAll(Fread(s, n, base)) = [m \in 1 .. n |-> SWAP(file[base + m])]
  BY <1>3 DEF SwapAll
<1>6. FposAfter(n, base) = base + n
  BY <1>1 DEF FposAfter
<1>7. CASE file[Ehdr.data] = MSB
  <2>1. swap /\ \A w : Host(w) = SWAP(w)
    BY <1>7 DEF Host, OrderKnown
  <2>2. \A t : swap_elf32_section_header(t) = SwapAll(t) /\ swap_elf32_program_header(t) = SwapAll(t)
    BY <2>1, Zenon DEF swap_elf32_section_header, swap_elf32_program_header
  <2>3. Entry(at, n, k) = [m \in 1 .. n |-> SWAP(file[base + m])]
    BY <1>4, <2>1
  <2> QED BY <1>5, <1>6, <2>2, <2>3
<1>8. CASE file[Ehdr.data] # MSB
  <2>1. ~swap /\ \A w : Host(w) = w
    BY <1>8 DEF Host, OrderKnown
  <2>2. \A t : swap_elf32_section_header(t) = t /\ swap_elf32_program_header(t) = t
    BY <2>1, Zenon DEF swap_elf32_section_header, swap_elf32_program_header
  <2>3. Entry(at, n, k) = [m \in 1 .. n |-> file[base + m]]
    BY <1>4, <2>1
  <2> QED BY <1>3, <1>6, <2>2, <2>3
<1> QED BY <1>7, <1>8

(* The header of a file that is long enough.                               *)
LEMMA HeaderShown ==
  ASSUME ToolTypeOK, TablesInFile, ReadHeader
  PROVE  /\ swap' = (file[Ehdr.data] = MSB)
         /\ hdr'[Ehdr.phoff] = FileHead(Ehdr.phoff) /\ hdr'[Ehdr.shoff] = FileHead(Ehdr.shoff)
         /\ hdr'[Ehdr.phnum] = FileHead(Ehdr.phnum) /\ hdr'[Ehdr.shnum] = FileHead(Ehdr.shnum)
         /\ hdr'[Ehdr.shstrndx] = FileHead(Ehdr.shstrndx)
<1>1. Len(file) \in Nat /\ Len(file) >= 9
  BY FileWords DEF ToolTypeOK, TablesInFile, EhdrSize
<1>2. PICK h : h = [k \in 1 .. 9 |-> file[k]]
  OBVIOUS
<1>3. Fread(hdr, EhdrSize, 0) = h
  BY <1>1, <1>2 DEF Fread, EhdrSize
<1>4. swap' = (h[2] = MSB) /\ hdr' = IF swap' THEN swap_elf32_header(h) ELSE h
  BY <1>3 DEF ReadHeader, Ehdr
<1>5. swap' = (file[2] = MSB)
  BY <1>2, <1>4
<1>6. ASSUME NEW k \in 3 .. 9 PROVE hdr'[k] = IF file[2] = MSB THEN SWAP(file[k]) ELSE file[k]
  <2>1. CASE file[2] = MSB
    <3>1. hdr' = [m \in 1 .. 9 |-> IF m \in {1, 2} THEN h[m] ELSE SWAP(h[m])]
      BY <1>2, <1>4, <1>5, <2>1 DEF swap_elf32_header, Ehdr
    <3> QED BY <1>2, <2>1, <3>1
  <2>2. CASE file[2] # MSB
    <3>1. ~swap'
      BY <1>5, <2>2
    <3>2. hdr' = h
      BY <1>4, <3>1
    <3> QED BY <1>2, <2>2, <3>2
  <2> QED BY <2>1, <2>2
<1> QED BY <1>5, <1>6 DEF FileHead, Host, Ehdr

(* The string table's header and its bytes.                                *)
LEMMA StrtabShown ==
  ASSUME ToolTypeOK, TablesInFile, HeaderInv, pc = "strtab",
         hdr[Ehdr.shstrndx] < hdr[Ehdr.shnum]
  PROVE  StrtabHeader = Sec(FileHead(Ehdr.shstrndx))
<1> DEFINE x == FileHead(Ehdr.shstrndx)  n == FileHead(Ehdr.shnum)  at == FileHead(Ehdr.shoff)
<1>1. hdr[Ehdr.shstrndx] = x /\ hdr[Ehdr.shnum] = n /\ hdr[Ehdr.shoff] = at
  BY DEF HeaderInv, Walking
<1>2. x \in Nat /\ n \in Nat /\ at \in Nat
  BY <1>1, HeaderFields DEF ToolTypeOK
<1>3. x < n /\ at + 4 * n <= Len(file) /\ StrtabAt = at + 4 * x
  BY <1>1 DEF TablesInFile, StrtabAt, ShdrSize
<1>4. OrderKnown /\ file \in Files /\ strtab \in [1 .. 4 -> Nat]
  BY DEF HeaderInv, Walking, ToolTypeOK, ShdrSize, OrderKnown
<1> HIDE DEF x, n, at
<1>5. Len(file) \in Nat
  BY <1>4, FileWords
<1>6. StrtabAt \in Nat /\ StrtabAt + 4 <= Len(file)
  BY <1>2, <1>3, <1>5
<1>7. swap_elf32_section_header(Fread(strtab, 4, StrtabAt)) = Entry(at, 4, x)
  <2>1. PICK base \in Nat, w \in Nat : base = StrtabAt /\ w = 4
    BY <1>6
  <2>2. strtab \in [1 .. w -> Nat] /\ EntryAt(base, at, w, x)
    BY <1>3, <1>4, <1>6, <2>1 DEF EntryAt
  <2>3. swap_elf32_section_header(Fread(strtab, w, base)) = Entry(at, w, x)
    BY <1>2, <1>4, <2>2, EntryShown
  <2> QED BY <2>1, <2>3
<1> QED BY <1>7 DEF StrtabHeader, Sec, ShdrSize, at, x

LEMMA NamesRead ==
  ASSUME ToolTypeOK, TablesInFile, HeaderInv, ReadStringTable
  PROVE  HasNames /\ (NamesInFile => strtabl' = StringTable)
<1> DEFINE s == Sec(FileHead(Ehdr.shstrndx))  o == s[Shdr.offset]  z == s[Shdr.size]
<1>1. StrtabHeader = s
  BY StrtabShown DEF ReadStringTable
<1>2. HasNames
  BY <1>1 DEF HasNames, ReadStringTable, HeaderInv, Walking
<1>3. PICK g \in Garbage : strtabl' = Fread([k \in 1 .. z |-> g], z, o)
  BY <1>1 DEF ReadStringTable
<1>4. s \in [1 .. 4 -> Nat]
  <2>1. EhdrSize \in Nat /\ ShdrSize = 4 /\ 4 \in Nat
    BY Sizes
  <2>2. StrtabAt \in Nat
    <3>1. hdr[Ehdr.shoff] \in Nat /\ hdr[Ehdr.shstrndx] \in Nat
      BY HeaderFields DEF ToolTypeOK
    <3>2. ShdrSize * hdr[Ehdr.shstrndx] \in Nat
      BY <2>1, <3>1
    <3> QED BY <3>1, <3>2 DEF StrtabAt
  <2>3. StrtabHeader \in [1 .. ShdrSize -> Nat]
    BY <2>1, <2>2, StructRead DEF ToolTypeOK, StrtabHeader
  <2> QED BY <1>1, <2>1, <2>3
<1>5. o \in Nat /\ z \in Nat
  BY <1>4 DEF Shdr
<1>6. Len(file) \in Nat /\ \E S : file \in Seq(S)
  BY FileWords, ElfToolAssumption DEF ToolTypeOK
<1>7. ASSUME NamesInFile PROVE strtabl' = StringTable
  <2>1. o + z <= Len(file)
    BY <1>2, <1>7 DEF NamesInFile
  <2> HIDE DEF o, z, s
  <2>2. \A k \in 1 .. z : o + k <= Len(file)
    BY <1>5, <1>6, <2>1
  <2>3. strtabl' = [k \in 1 .. z |-> file[o + k]]
    BY <1>3, <2>2 DEF Fread
  <2>4. SubSeq(file, o + 1, o + z) = [k \in 1 .. z |-> file[o + k]]
    BY <1>5, <1>6, <2>1
  <2> QED BY <2>3, <2>4 DEF StringTable, o, z, s
<1> QED BY <1>2, <1>7

(* One entry of the section header table, and of the program header table. *)
LEMMA SectionEntry ==
  ASSUME file \in Files, OrderKnown, NEW s \in [1 .. ShdrSize -> Nat],
         NEW at \in Nat, NEW k \in Nat, NEW n \in Nat, k < n,
         at + ShdrSize * n <= Len(file), NEW base, base = at + ShdrSize * k
  PROVE  /\ swap_elf32_section_header(Fread(s, ShdrSize, base)) = Entry(at, ShdrSize, k)
         /\ FposAfter(ShdrSize, base) = at + ShdrSize * (k + 1)
<1>1. PICK w \in Nat : w = ShdrSize
  BY Sizes
<1>2. base \in Nat /\ base = at + w * k /\ base + w <= Len(file)
      /\ base + w = at + w * (k + 1)
  BY <1>1, Sizes, FileWords
<1>3. s \in [1 .. w -> Nat]
  BY <1>1
<1>4. EntryAt(base, at, w, k)
  BY <1>2 DEF EntryAt
<1>5. /\ swap_elf32_section_header(Fread(s, w, base)) = Entry(at, w, k)
      /\ FposAfter(w, base) = base + w
  BY <1>3, <1>4, EntryShown
<1> QED BY <1>1, <1>2, <1>5

LEMMA SegmentEntry ==
  ASSUME file \in Files, OrderKnown, NEW s \in [1 .. PhdrSize -> Nat],
         NEW at \in Nat, NEW k \in Nat, NEW n \in Nat, k < n,
         at + PhdrSize * n <= Len(file), NEW base, base = at + PhdrSize * k
  PROVE  /\ swap_elf32_program_header(Fread(s, PhdrSize, base)) = Entry(at, PhdrSize, k)
         /\ FposAfter(PhdrSize, base) = at + PhdrSize * (k + 1)
<1>1. PICK w \in Nat : w = PhdrSize
  BY Sizes
<1>2. base \in Nat /\ base = at + w * k /\ base + w <= Len(file)
      /\ base + w = at + w * (k + 1)
  BY <1>1, Sizes, FileWords
<1>3. s \in [1 .. w -> Nat]
  BY <1>1
<1>4. EntryAt(base, at, w, k)
  BY <1>2 DEF EntryAt
<1>5. /\ swap_elf32_program_header(Fread(s, w, base)) = Entry(at, w, k)
      /\ FposAfter(w, base) = base + w
  BY <1>3, <1>4, EntryShown
<1> QED BY <1>1, <1>2, <1>5

-----------------------------------------------------------------------------
LEMMA UnreachedInit == Init => UnreachedInv /\ TableInv
<1> SUFFICES ASSUME Init PROVE UnreachedInv /\ TableInv
  OBVIOUS
<1>1. /\ pc = "args" /\ fp = -1 /\ named = FALSE /\ i = 0 /\ sections = << >>
      /\ segments = << >>
  BY DEF Init
<1> QED BY <1>1 DEF UnreachedInv, TableInv, HeaderInv, NameInv, SectionsInv, SegmentsInv, Walking

LEMMA UnreachedStep == ToolTypeOK /\ UnreachedInv /\ [Next]_vars => UnreachedInv'
<1> SUFFICES ASSUME ToolTypeOK, UnreachedInv, [Next]_vars PROVE UnreachedInv'
  OBVIOUS
<1> USE DEF UnreachedInv
<1>1. CASE UNCHANGED vars
  BY <1>1 DEF vars
<1>2. CASE NoFile \/ OpenFile \/ NotElf \/ NoSegments \/ CloseFile \/ GoToSegments
  BY <1>2 DEF NoFile, OpenFile, NotElf, NoSegments, CloseFile, GoToSegments
<1>3. CASE ReadHeader
  <2>1. /\ pc = "magic" /\ pc' \in {"strtab", "undefined"}
        /\ UNCHANGED <<i, named, sections, segments>>
    BY <1>3 DEF ReadHeader
  <2> QED BY <2>1
<1>4. CASE NoStringTable \/ ReadStringTable \/ NoMemory
  <2>1. pc = "strtab" /\ pc' \in {"sections", "undefined"} /\ UNCHANGED <<i, sections, segments>>
    BY <1>4 DEF NoStringTable, ReadStringTable, NoMemory, WithoutNames
  <2> QED BY <2>1
<1>5. CASE ShowSection
  <2>1. pc = "sections" /\ pc' \in {"sections", "undefined"} /\ UNCHANGED segments
    BY <1>5 DEF ShowSection
  <2> QED BY <2>1
<1>6. CASE ShowSegment
  <2>1. pc = "segments" /\ pc' = "segments"
    BY <1>6 DEF ShowSegment
  <2> QED BY <2>1
<1> QED BY <1>1, <1>2, <1>3, <1>4, <1>5, <1>6 DEF Next

(* The section that is shown next is the table's.                          *)
LEMMA SectionShown ==
  ASSUME ToolTypeOK, TablesInFile, HeaderInv, NameInv, SectionsInv, ShowSection
  PROVE  /\ shdr' = Sec(i)
         /\ fp' = hdr[Ehdr.shoff] + ShdrSize * (i + 1)
         /\ pc' = "undefined" => ~NamesInFile
<1> DEFINE n == hdr[Ehdr.shnum]  at == hdr[Ehdr.shoff]
<1>1. pc = "sections" /\ i < n /\ i \in Nat
      /\ shdr' = swap_elf32_section_header(Fread(shdr, ShdrSize, fp))
      /\ fp' = FposAfter(ShdrSize, fp)
  BY DEF ShowSection, ToolTypeOK
<1>2. /\ OrderKnown /\ at = FileHead(Ehdr.shoff) /\ n = FileHead(Ehdr.shnum)
      /\ fp = at + ShdrSize * i
  BY <1>1 DEF HeaderInv, SectionsInv, Walking, OrderKnown
<1>3. n \in Nat /\ at \in Nat /\ file \in Files /\ shdr \in [1 .. ShdrSize -> Nat]
  BY HeaderFields DEF ToolTypeOK
<1>4. at + ShdrSize * n <= Len(file)
  BY <1>2 DEF TablesInFile
<1> HIDE DEF n, at
<1>5. shdr' = Entry(at, ShdrSize, i) /\ fp' = at + ShdrSize * (i + 1)
  BY <1>1, <1>2, <1>3, <1>4, SectionEntry
<1>6. shdr' = Sec(i)
  BY <1>2, <1>5 DEF Sec
<1>7. ASSUME pc' = "undefined", NamesInFile PROVE FALSE
  <2>1. named /\ ~HasString(strtabl, shdr'[Shdr.name])
    BY <1>1, <1>7 DEF ShowSection
  <2>2. HasNames /\ strtabl = StringTable
    BY <1>7, <2>1 DEF NameInv
  <2>3. i \in 0 .. FileHead(Ehdr.shnum) - 1
    BY <1>1, <1>2, <1>3
  <2>4. HasString(StringTable, Sec(i)[Shdr.name])
    BY <1>7, <2>2, <2>3 DEF NamesInFile
  <2> QED BY <1>6, <2>1, <2>2, <2>4
<1> QED BY <1>5, <1>6, <1>7 DEF at

LEMMA SegmentShown ==
  ASSUME ToolTypeOK, TablesInFile, HeaderInv, SegmentsInv, ShowSegment
  PROVE  /\ phdr' = Seg(i)
         /\ fp' = hdr[Ehdr.phoff] + PhdrSize * (i + 1)
<1> DEFINE n == hdr[Ehdr.phnum]  at == hdr[Ehdr.phoff]
<1>1. pc = "segments" /\ i < n /\ i \in Nat
      /\ phdr' = swap_elf32_program_header(Fread(phdr, PhdrSize, fp))
      /\ fp' = FposAfter(PhdrSize, fp)
  BY DEF ShowSegment, ToolTypeOK
<1>2. /\ OrderKnown /\ at = FileHead(Ehdr.phoff) /\ n = FileHead(Ehdr.phnum)
      /\ fp = at + PhdrSize * i
  BY <1>1 DEF HeaderInv, SegmentsInv, Walking, OrderKnown
<1>3. n \in Nat /\ at \in Nat /\ file \in Files /\ phdr \in [1 .. PhdrSize -> Nat]
  BY HeaderFields DEF ToolTypeOK
<1>4. at + PhdrSize * n <= Len(file)
  BY <1>2 DEF TablesInFile
<1> HIDE DEF n, at
<1>5. phdr' = Entry(at, PhdrSize, i) /\ fp' = at + PhdrSize * (i + 1)
  BY <1>1, <1>2, <1>3, <1>4, SegmentEntry
<1>6. phdr' = Seg(i)
  BY <1>2, <1>5 DEF Seg
<1> QED BY <1>5, <1>6 DEF at
(* The header and the string table are read once.                          *)
LEMMA HeaderStep ==
  ASSUME ToolTypeOK, TablesInFile, HeaderInv, [Next]_vars
  PROVE  HeaderInv'
<1>f. file' = file /\ \A k : FileHead(k)' = FileHead(k)
  BY ToolFrame
<1>1. CASE ReadHeader
  BY <1>1, <1>f, HeaderShown DEF HeaderInv
<1>2. CASE ~ReadHeader
  <2>1. UNCHANGED <<hdr, swap>> /\ (pc' \in Walking => pc \in Walking)
    <3>1. CASE UNCHANGED vars
      BY <3>1 DEF vars
    <3>2. CASE NoStringTable \/ ReadStringTable \/ NoMemory
      BY <3>2 DEF NoStringTable, ReadStringTable, NoMemory, Walking
    <3>3. CASE NoFile \/ OpenFile \/ NotElf \/ ShowSection \/ NoSegments \/ GoToSegments
               \/ ShowSegment \/ CloseFile
      BY <3>3 DEF NoFile, OpenFile, NotElf, ShowSection, NoSegments, GoToSegments, ShowSegment,
                  CloseFile, Walking
    <3> QED BY <1>2, <3>1, <3>2, <3>3 DEF Next
  <2> QED BY <1>f, <2>1 DEF HeaderInv
<1> QED BY <1>1, <1>2

LEMMA NameStep ==
  ASSUME ToolTypeOK, TablesInFile, HeaderInv, NameInv, [Next]_vars
  PROVE  NameInv'
<1>f. HasNames' = HasNames /\ NamesInFile' = NamesInFile /\ StringTable' = StringTable
  BY ToolFrame
<1>1. CASE ReadStringTable
  BY <1>1, <1>f, NamesRead DEF NameInv
<1>2. CASE ~ReadStringTable
  <2>1. UNCHANGED <<named, strtabl>>
    <3>1. CASE UNCHANGED vars
      BY <3>1 DEF vars
    <3>2. CASE NoStringTable \/ NoMemory
      BY <3>2 DEF NoStringTable, NoMemory, WithoutNames
    <3>3. CASE NoFile \/ OpenFile \/ NotElf \/ ReadHeader \/ ShowSection \/ NoSegments
               \/ GoToSegments \/ ShowSegment \/ CloseFile
      BY <3>3 DEF NoFile, OpenFile, NotElf, ReadHeader, ShowSection, NoSegments, GoToSegments,
                  ShowSegment, CloseFile
    <3> QED BY <1>2, <3>1, <3>2, <3>3 DEF Next
  <2> QED BY <1>f, <2>1 DEF NameInv
<1> QED BY <1>1, <1>2

(* A section that has been shown stays right.                              *)
LEMMA SectionKept ==
  ASSUME [Next]_vars, named' = named
  PROVE  \A s, k : SectionOK(s, k)' = SectionOK(s, k)
<1>1. NamesInFile' = NamesInFile /\ StringTable' = StringTable /\ \A k : Sec(k)' = Sec(k)
  BY ToolFrame
<1> QED BY <1>1 DEF SectionOK

(* The sections shown are the table's, from its first entry on.            *)
LEMMA SectionsStep ==
  ASSUME ToolTypeOK, TablesInFile, UnreachedInv, HeaderInv, NameInv, SectionsInv, [Next]_vars
  PROVE  SectionsInv'
<1>1. CASE UNCHANGED vars \/ NoFile \/ OpenFile \/ NotElf \/ NoSegments \/ GoToSegments
           \/ ShowSegment \/ CloseFile
  <2>1. UNCHANGED <<sections, hdr, named>>
    BY <1>1 DEF vars, NoFile, OpenFile, NotElf, NoSegments, GoToSegments, ShowSegment, CloseFile
  <2>2. \A s, k : SectionOK(s, k)' = SectionOK(s, k)
    BY <2>1, SectionKept
  <2>3. pc' = "sections" => pc = "sections" /\ UNCHANGED <<fp, i>>
    BY <1>1 DEF vars, NoFile, OpenFile, NotElf, NoSegments, GoToSegments, ShowSegment, CloseFile
  <2>4. pc' \in Walking => pc \in Walking
    BY <1>1 DEF vars, NoFile, OpenFile, NotElf, NoSegments, GoToSegments, ShowSegment, CloseFile,
                Walking
  <2>5. hdr[Ehdr.shnum] \in Nat /\ i \in Nat
    BY HeaderFields DEF ToolTypeOK
  <2>6. pc' \in {"segments", "done"} =>
          \/ pc \in {"segments", "done"}
          \/ pc = "sections" /\ i >= hdr[Ehdr.shnum]
    BY <1>1 DEF vars, NoFile, OpenFile, NotElf, NoSegments, GoToSegments, ShowSegment, CloseFile
  <2>7. pc' \in {"segments", "done"} => Len(sections) = hdr[Ehdr.shnum]
    BY <2>5, <2>6 DEF SectionsInv
  <2>8. pc' \in Walking => \A k \in 1 .. Len(sections) : SectionOK(sections[k], k - 1)
    BY <2>4 DEF SectionsInv
  <2> QED BY <2>1, <2>2, <2>3, <2>7, <2>8 DEF SectionsInv
<1>2. CASE ReadHeader
  <2>1. pc' \in {"strtab", "undefined"} /\ sections' = << >>
    BY <1>2 DEF ReadHeader, UnreachedInv
  <2> QED BY <2>1 DEF SectionsInv
<1>3. CASE NoStringTable \/ ReadStringTable \/ NoMemory
  <2>1. /\ pc' \in {"sections", "undefined"} /\ sections' = << >> /\ i' = 0 /\ hdr' = hdr
        /\ pc' = "sections" => fp' = hdr[Ehdr.shoff]
    BY <1>3 DEF NoStringTable, ReadStringTable, NoMemory, WithoutNames, SectionsAt, UnreachedInv
  <2>2. hdr[Ehdr.shoff] \in Nat /\ hdr[Ehdr.shnum] \in Nat
    BY HeaderFields DEF ToolTypeOK
  <2>3. hdr[Ehdr.shoff] = hdr[Ehdr.shoff] + ShdrSize * 0 /\ 0 <= hdr[Ehdr.shnum]
    BY <2>2, Sizes
  <2> QED BY <2>1, <2>3 DEF SectionsInv
<1>4. CASE ShowSection
  <2>1. /\ pc = "sections" /\ i < hdr[Ehdr.shnum] /\ i \in Nat /\ hdr[Ehdr.shnum] \in Nat
        /\ UNCHANGED <<hdr, named, strtabl>>
    BY <1>4, HeaderFields DEF ShowSection, ToolTypeOK
  <2>2. CASE pc' = "undefined"
    BY <2>2 DEF SectionsInv, Walking
  <2>3. CASE pc' # "undefined"
    <3>1. PICK e : e = [fields |-> shdr',
                        kind   |-> sh_type_to_string(shdr'[Shdr.type]),
                        name   |-> IF named THEN StringAt(strtabl, shdr'[Shdr.name]) ELSE Unknown]
      OBVIOUS
    <3>2. pc' = "sections" /\ i' = i + 1 /\ sections' = Append(sections, e)
      BY <1>4, <2>1, <2>3, <3>1 DEF ShowSection
    <3>3. shdr' = Sec(i) /\ fp' = hdr[Ehdr.shoff] + ShdrSize * (i + 1)
      BY <1>4, SectionShown
    <3>4. SectionOK(e, i)
      BY <3>1, <3>3 DEF SectionOK, NameInv
    <3>5. \E S : sections \in Seq(S)
      BY DEF ToolTypeOK
    <3>6. Len(sections) = i /\ \A k \in 1 .. i : SectionOK(sections[k], k - 1)
      BY <2>1 DEF SectionsInv, Walking
    <3>7. Len(sections') = i + 1 /\ sections'[i + 1] = e /\ \A k \in 1 .. i : sections'[k] = sections[k]
      BY <3>2, <3>5, <3>6, SequenceGrows
    <3>8. ASSUME NEW k \in 1 .. i + 1 PROVE SectionOK(sections'[k], k - 1)
      <4>1. CASE k = i + 1
        BY <2>1, <3>4, <3>7, <4>1
      <4>2. CASE k # i + 1
        <5>1. k \in 1 .. i
          BY <2>1, <4>2
        <5> QED BY <3>6, <3>7, <5>1
      <4> QED BY <4>1, <4>2
    <3>9. \A s, k : SectionOK(s, k)' = SectionOK(s, k)
      BY <2>1, SectionKept
    <3>10. i + 1 <= hdr[Ehdr.shnum]
      BY <2>1
    <3>11. \A k \in 1 .. Len(sections') : SectionOK(sections[k], k - 1)'
      BY <3>7, <3>8, <3>9
    <3> QED BY <2>1, <3>2, <3>3, <3>7, <3>10, <3>11 DEF SectionsInv
  <2> QED BY <2>2, <2>3
<1> QED BY <1>1, <1>2, <1>3, <1>4 DEF Next

(* ... and so are the segments.                                            *)
LEMMA SegmentsStep ==
  ASSUME ToolTypeOK, TablesInFile, UnreachedInv, HeaderInv, SegmentsInv, [Next]_vars
  PROVE  SegmentsInv'
<1>f. \A k : Seg(k)' = Seg(k)
  BY ToolFrame
<1>h. hdr[Ehdr.phoff] \in Nat /\ hdr[Ehdr.phnum] \in Nat /\ i \in Nat
  BY HeaderFields DEF ToolTypeOK
<1>1. CASE NoFile \/ OpenFile \/ NotElf \/ ReadHeader \/ NoStringTable \/ ReadStringTable
           \/ NoMemory \/ ShowSection
  <2>1. segments = << >> /\ segments' = segments
    BY <1>1 DEF NoFile, OpenFile, NotElf, ReadHeader, NoStringTable, ReadStringTable, NoMemory,
                ShowSection, UnreachedInv
  <2>2. pc' \notin {"segments", "done"}
    <3>1. CASE NoFile \/ OpenFile \/ NotElf \/ ShowSection
      BY <3>1 DEF NoFile, OpenFile, NotElf, ShowSection
    <3>2. CASE ReadHeader
      BY <3>2 DEF ReadHeader
    <3>3. CASE NoStringTable \/ ReadStringTable \/ NoMemory
      BY <3>3 DEF NoStringTable, ReadStringTable, NoMemory, WithoutNames
    <3> QED BY <1>1, <3>1, <3>2, <3>3
  <2> QED BY <2>1, <2>2 DEF SegmentsInv
<1>2. CASE UNCHANGED vars
  <2>1. UNCHANGED <<pc, fp, i, hdr, segments>>
    BY <1>2 DEF vars
  <2> QED BY <1>f, <2>1 DEF SegmentsInv
<1>3. CASE NoSegments
  <2>1. /\ segments' = << >> /\ hdr' = hdr /\ hdr[Ehdr.phnum] = 0 /\ pc' = "done"
    BY <1>3 DEF NoSegments, UnreachedInv
  <2> QED BY <2>1 DEF SegmentsInv
<1>4. CASE GoToSegments
  <2>1. /\ segments' = << >> /\ hdr' = hdr /\ fp' = hdr[Ehdr.phoff] /\ i' = 0 /\ pc' = "segments"
    BY <1>4 DEF GoToSegments, UnreachedInv
  <2>2. hdr[Ehdr.phoff] = hdr[Ehdr.phoff] + PhdrSize * 0 /\ 0 <= hdr[Ehdr.phnum]
    BY <1>h, Sizes
  <2> QED BY <2>1, <2>2 DEF SegmentsInv
<1>5. CASE ShowSegment
  <2>1. pc = "segments" /\ pc' = "segments" /\ i < hdr[Ehdr.phnum] /\ i' = i + 1 /\ hdr' = hdr
    BY <1>5 DEF ShowSegment
  <2>2. PICK e : e = [fields |-> phdr', kind |-> segment_type_to_string(phdr'[Phdr.type])]
    OBVIOUS
  <2>3. segments' = Append(segments, e)
    BY <1>5, <2>2 DEF ShowSegment
  <2>4. phdr' = Seg(i) /\ fp' = hdr[Ehdr.phoff] + PhdrSize * (i + 1)
    BY <1>5, SegmentShown
  <2>5. e.fields = Seg(i)
    BY <2>2, <2>4
  <2>6. \E S : segments \in Seq(S)
    BY DEF ToolTypeOK
  <2>7. Len(segments) = i /\ \A k \in 1 .. i : segments[k].fields = Seg(k - 1)
    BY <2>1 DEF SegmentsInv, Walking
  <2>8. Len(segments') = i + 1 /\ segments'[i + 1] = e /\ \A k \in 1 .. i : segments'[k] = segments[k]
    BY <2>3, <2>6, <2>7, SequenceGrows
  <2>9. ASSUME NEW k \in 1 .. i + 1 PROVE segments'[k].fields = Seg(k - 1)
    <3>1. CASE k = i + 1
      BY <1>h, <2>5, <2>8, <3>1
    <3>2. CASE k # i + 1
      <4>1. k \in 1 .. i
        BY <1>h, <3>2
      <4> QED BY <2>7, <2>8, <4>1
    <3> QED BY <3>1, <3>2
  <2>10. i + 1 <= hdr[Ehdr.phnum]
    BY <1>h, <2>1
  <2>11. \A k \in 1 .. Len(segments') : segments'[k].fields = Seg(k - 1)'
    BY <1>f, <2>8, <2>9
  <2> QED BY <2>1, <2>4, <2>8, <2>10, <2>11 DEF SegmentsInv
<1>6. CASE CloseFile
  <2>1. /\ pc = "segments" /\ pc' = "done" /\ i >= hdr[Ehdr.phnum] /\ UNCHANGED <<hdr, segments>>
    BY <1>6 DEF CloseFile
  <2>2. Len(segments) = hdr[Ehdr.phnum] /\ \A k \in 1 .. Len(segments) : segments[k].fields = Seg(k - 1)
    BY <1>h, <2>1 DEF SegmentsInv, Walking
  <2> QED BY <1>f, <2>1, <2>2 DEF SegmentsInv
<1> QED BY <1>1, <1>2, <1>3, <1>4, <1>5, <1>6 DEF Next

LEMMA TableStep == ToolTypeOK /\ UnreachedInv /\ TableInv /\ [Next]_vars => TableInv'
<1> SUFFICES ASSUME ToolTypeOK, UnreachedInv, TableInv, [Next]_vars, TablesInFile'
             PROVE  (HeaderInv /\ NameInv /\ SectionsInv /\ SegmentsInv)'
  BY DEF TableInv
<1>1. TablesInFile /\ HeaderInv /\ NameInv /\ SectionsInv /\ SegmentsInv
  BY ToolFrame DEF TableInv
<1> QED BY <1>1, HeaderStep, NameStep, SectionsStep, SegmentsStep

LEMMA ToolInvariants ==
  Spec => [](ToolTypeOK /\ FilePosition /\ UnreachedInv /\ TableInv)
BY ToolTypeInit, ToolTypeStep, UnreachedInit, UnreachedStep, TableStep, PTL DEF Spec

(* Every section header and every program header of a well-formed file is  *)
(* shown once, in order, in host order and under its name, for every file: *)
(* elftool.c's three seeks through one file position meet the right bytes. *)
THEOREM TablesShown == Spec => []ShowsTables
<1>1. UnreachedInv /\ TableInv => ShowsTables
  <2> SUFFICES ASSUME TableInv, pc = "done", TablesInFile, NamesInFile
               PROVE  /\ Len(sections) = FileHead(Ehdr.shnum)
                      /\ \A k \in 1 .. Len(sections) :
                           /\ sections[k].fields = Sec(k - 1)
                           /\ named => sections[k].name = StringAt(StringTable, Sec(k - 1)[Shdr.name])
                      /\ Len(segments) = FileHead(Ehdr.phnum)
                      /\ \A k \in 1 .. Len(segments) : segments[k].fields = Seg(k - 1)
    BY Zenon DEF ShowsTables
  <2>1. HeaderInv /\ SectionsInv /\ SegmentsInv /\ pc \in Walking
    BY DEF TableInv, Walking
  <2>2. /\ Len(sections) = FileHead(Ehdr.shnum) /\ Len(segments) = FileHead(Ehdr.phnum)
    BY <2>1 DEF HeaderInv, SectionsInv, SegmentsInv
  <2>3. \A k \in 1 .. Len(sections) : SectionOK(sections[k], k - 1)
    BY <2>1 DEF SectionsInv
  <2>4. \A k \in 1 .. Len(segments) : segments[k].fields = Seg(k - 1)
    BY <2>1 DEF SegmentsInv
  <2> QED BY <2>2, <2>3, <2>4, Zenon DEF SectionOK
<1> QED BY <1>1, ToolInvariants, PTL

-----------------------------------------------------------------------------
(* The names of the types and the machines: every number has one but 6.    *)
LEMMA NameTables ==
  ASSUME NEW t \in Nat
  PROVE  file_type_to_string(t) /\ (t # 6 => machine_id_to_string(t))
BY DEF file_type_to_string, machine_id_to_string, e_types, e_machines

LEMMA DefinedStep ==
  ToolTypeOK /\ ToolTypeOK' /\ UnreachedInv /\ TableInv /\ ToolStaysDefined /\ [Next]_vars
    => ToolStaysDefined'
<1> SUFFICES ASSUME ToolTypeOK, ToolTypeOK', UnreachedInv, TableInv, ToolStaysDefined, [Next]_vars
             PROVE  ToolStaysDefined'
  OBVIOUS
<1>f. TablesInFile' = TablesInFile /\ NamesInFile' = NamesInFile
  BY ToolFrame
<1>1. CASE UNCHANGED vars
  BY <1>1, <1>f DEF vars, ToolStaysDefined
<1>2. CASE NoFile \/ OpenFile \/ NotElf \/ NoSegments \/ GoToSegments \/ ShowSegment \/ CloseFile
  <2>1. pc' # "undefined" /\ (pc' \in {"done", "failed"} => fp' = -1 \/ hdr'[Ehdr.phnum] = 0)
    BY <1>2 DEF NoFile, OpenFile, NotElf, NoSegments, GoToSegments, ShowSegment, CloseFile,
                UnreachedInv
  <2> QED BY <2>1 DEF ToolStaysDefined
<1>3. CASE ReadHeader
  <2>1. /\ pc' \in {"strtab", "undefined"}
        /\ pc' = "undefined" => ~(file_type_to_string(hdr'[Ehdr.type])
                                    /\ machine_id_to_string(hdr'[Ehdr.machine]))
    BY <1>3 DEF ReadHeader
  <2>2. hdr'[Ehdr.type] \in Nat /\ hdr'[Ehdr.machine] \in Nat
    BY HeaderFields DEF ToolTypeOK
  <2>3. pc' = "undefined" => hdr'[Ehdr.machine] = 6
    BY <2>1, <2>2, NameTables
  <2> QED BY <2>1, <2>3 DEF ToolStaysDefined
<1>4. CASE NoStringTable \/ ReadStringTable
  <2>1. pc' = "sections"
    BY <1>4 DEF NoStringTable, ReadStringTable, WithoutNames
  <2> QED BY <2>1 DEF ToolStaysDefined
<1>5. CASE NoMemory
  <2>1. /\ pc' \in {"sections", "undefined"} /\ strtab' = StrtabHeader
        /\ StrtabHeader[Shdr.type] = SHT_STRTAB /\ named' = named /\ ~named
    BY <1>5 DEF NoMemory, WithoutNames, UnreachedInv
  <2> QED BY <2>1 DEF ToolStaysDefined
<1>6. CASE ShowSection
  <2>1. pc' \in {"sections", "undefined"}
    BY <1>6 DEF ShowSection
  <2>2. ASSUME pc' = "undefined", TablesInFile PROVE ~NamesInFile
    <3>1. HeaderInv /\ NameInv /\ SectionsInv
      BY <2>2 DEF TableInv
    <3> QED BY <1>6, <2>2, <3>1, SectionShown
  <2> QED BY <1>f, <2>1, <2>2 DEF ToolStaysDefined
<1> QED BY <1>1, <1>2, <1>3, <1>4, <1>5, <1>6 DEF Next

(* The four reasons are all there are: whatever the file, elftool.c leaves *)
(* its tables, the string table and the file for no other, and closes the  *)
(* file unless there are no program headers.                               *)
THEOREM ElfToolDefined == Spec => []ToolStaysDefined
<1>1. Init => ToolStaysDefined
  <2>1. Init => pc = "args"
    BY DEF Init
  <2> QED BY <2>1 DEF ToolStaysDefined
<1> QED BY <1>1, ToolInvariants, DefinedStep, PTL DEF Spec
=============================================================================
