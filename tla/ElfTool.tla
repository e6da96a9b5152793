------------------------------ MODULE ElfTool ------------------------------
(***************************************************************************)
(* ELFTool (elftool/elftool.c): shows the header, the section headers with *)
(* their names and the program headers of an ELF file of either byte       *)
(* order, on a little-endian host.                                         *)
(*                                                                         *)
(* A file is a sequence of words; a field of a struct and a character of   *)
(* the string table are one word each.  A word has two bytes, of which a   *)
(* swap changes the order.  fread stops at the end of the file and leaves  *)
(* the rest of the struct as it was, which for the first read is whatever  *)
(* the stack held.                                                         *)
(***************************************************************************)
EXTENDS Integers, Sequences

CONSTANTS
  Files,     \* the files that may be given: sequences of words
  Byte,      \* 2^8, or the values of half a word
  Garbage,   \* words that uninitialised memory may hold
  NoWord     \* shown where there is no name

ASSUME ElfToolAssumption ==
  /\ Byte \in Nat \ {0}
  /\ Garbage \subseteq 0 .. Byte * Byte - 1
  /\ Files \subseteq Seq(0 .. Byte * Byte - 1)

VARIABLES
  file,      \* the file of argv[1]
  fp,        \* the file position, -1 when no file is open
  hdr, strtab, shdr, phdr,   \* the structs on the stack
  swap, i,
  named,     \* strtabl # NULL
  strtabl,   \* the string table in memory
  sections, segments,        \* what was shown, in host order
  pc         \* "args", "magic", "header", "strtab", "sections", "segments", or
             \* "done" (0), "failed" (-1), "undefined"

vars == <<file, fp, hdr, strtab, shdr, phdr, swap, i, named, strtabl, sections, segments, pc>>

(* SWAP_16, SWAP_32.                                                       *)
SWAP(w) == (w % Byte) * Byte + (w \div Byte)

-----------------------------------------------------------------------------
(* The structs, as the words of the file they come from.  The ident bytes  *)
(* are not swapped.                                                        *)
ELF_MAGIC  == 1   \* a word that stands for the four bytes 0x7f E L F
MZIP_MAGIC == 2
MSB        == 2   \* ELF_DATA_MSB

Ehdr == [magic |-> 1, data |-> 2, type |-> 3, machine |-> 4, phoff |-> 5, shoff |-> 6,
         phnum |-> 7, shnum |-> 8, shstrndx |-> 9]
Shdr == [name |-> 1, type |-> 2, offset |-> 3, size |-> 4]
Phdr == [type |-> 1, offset |-> 2]

EhdrSize == 9
ShdrSize == 4
PhdrSize == 2

SHT_STRTAB == 3

(* fread(s, 1, n, fp) over the struct s of n words.                        *)
Fread(s, n, at) == [k \in 1 .. n |-> IF at + k <= Len(file) THEN file[at + k] ELSE s[k]]

FposAfter(n, at) ==
  IF at + n <= Len(file) THEN at + n ELSE IF at <= Len(file) THEN Len(file) ELSE at

SwapAll(s) == [k \in DOMAIN s |-> SWAP(s[k])]

swap_elf32_header(h) ==
  [k \in DOMAIN h |-> IF k \in {Ehdr.magic, Ehdr.data} THEN h[k] ELSE SWAP(h[k])]

swap_elf32_section_header(s) == IF swap THEN SwapAll(s) ELSE s

swap_elf32_program_header(s) == IF swap THEN SwapAll(s) ELSE s

-----------------------------------------------------------------------------
(* The name tables.  e_types and e_machines are arrays; 6 is an id without *)
(* an initialiser among the machines, a null pointer.  The mutant bounds   *)
(* the types with the size of the machines' table.                         *)
e_types    == 0 .. 4
e_machines == (0 .. 105) \ {6}

file_type_to_stringWide(t) == t > 105 \/ t \in e_types

file_type_to_string(t) == t > 4 \/ t \in e_types

machine_id_to_string(m) == m > 105 \/ m \in e_machines

(* The switches over section and segment types name these and call the     *)
(* rest custom; the MIPS types, from 0x70000000 on, are beyond the words.  *)
sh_type_to_string(t) == IF t \in 0 .. 11 THEN t ELSE NoWord

segment_type_to_string(t) == IF t \in 0 .. 6 THEN t ELSE NoWord

-----------------------------------------------------------------------------
Init ==
  /\ file \in Files
  /\ fp = -1
  /\ \E g \in Garbage :
       /\ hdr = [k \in 1 .. EhdrSize |-> g] /\ strtab = [k \in 1 .. ShdrSize |-> g]
       /\ shdr = strtab /\ phdr = [k \in 1 .. PhdrSize |-> g]
  /\ swap = FALSE /\ i = 0
  /\ named = FALSE /\ strtabl = << >>
  /\ sections = << >> /\ segments = << >>
  /\ pc = "args"

(* No argument, or a file that cannot be opened.                           *)
NoFile ==
  /\ pc = "args"
  /\ pc' = "failed"
  /\ UNCHANGED <<file, fp, hdr, strtab, shdr, phdr, swap, i, named, strtabl, sections, segments>>

OpenFile ==
  /\ pc = "args"
  /\ fp' = 0
  /\ pc' = "magic"
  /\ UNCHANGED <<file, hdr, strtab, shdr, phdr, swap, i, named, strtabl, sections, segments>>

(* The magic number is read into an array of its own, unset for an empty   *)
(* file.                                                                   *)
Magic(g) == IF Len(file) > 0 THEN file[1] ELSE g

NotElf ==
  /\ pc = "magic"
  /\ \E g \in Garbage : Magic(g) # ELF_MAGIC
  /\ fp' = -1
  /\ pc' = "failed"
  /\ UNCHANGED <<file, hdr, strtab, shdr, phdr, swap, i, named, strtabl, sections, segments>>

(* rewind, the header, the byte order, and the lines that show it; a null  *)
(* pointer for %s may or may not be shown.                                 *)
ReadHeader ==
  /\ pc = "magic"
  /\ \E g \in Garbage : Magic(g) = ELF_MAGIC
  /\ LET h == Fread(hdr, EhdrSize, 0)
     IN  /\ swap' = (h[Ehdr.data] = MSB)
         /\ hdr' = IF swap' THEN swap_elf32_header(h) ELSE h
         /\ \/ file_type_to_string(hdr'[Ehdr.type]) /\ pc' = "strtab"
            \/ /\ ~(file_type_to_string(hdr'[Ehdr.type])
                       /\ machine_id_to_string(hdr'[Ehdr.machine]))
               /\ pc' = "undefined"
  /\ fp' = FposAfter(EhdrSize, 0)
  /\ UNCHANGED <<file, strtab, shdr, phdr, i, named, strtabl, sections, segments>>

-----------------------------------------------------------------------------
(* fseek(fp, hdr.shoff, SEEK_SET) before the section headers.  The mutant  *)
(* goes on where the string table ended.                                   *)
SectionsAtHere(p) == p

SectionsAt(p) == hdr[Ehdr.shoff]

(* The string table is missing or is no string table: no names.            *)
WithoutNames(s, p) ==
  /\ strtab' = s
  /\ fp' = SectionsAt(p)
  /\ pc' = "sections"
  /\ UNCHANGED <<named, strtabl>>

(* Its header: shoff + sizeof(struct elf32_section_header) * shstrndx.     *)
StrtabAt == hdr[Ehdr.shoff] + ShdrSize * hdr[Ehdr.shstrndx]

StrtabHeader == swap_elf32_section_header(Fread(strtab, ShdrSize, StrtabAt))

NoStringTable ==
  /\ pc = "strtab"
  /\ \/ hdr[Ehdr.shstrndx] >= hdr[Ehdr.shnum] /\ WithoutNames(strtab, fp)
     \/ /\ hdr[Ehdr.shstrndx] < hdr[Ehdr.shnum]
        /\ StrtabHeader[Shdr.type] # SHT_STRTAB
        /\ WithoutNames(StrtabHeader, FposAfter(ShdrSize, StrtabAt))
  /\ UNCHANGED <<file, hdr, shdr, phdr, swap, i, sections, segments>>

(* The table is read into memory of its size; what the file lacks of it    *)
(* stays unset.                                                            *)
ReadStringTable ==
  /\ pc = "strtab"
  /\ hdr[Ehdr.shstrndx] < hdr[Ehdr.shnum]
  /\ LET s == StrtabHeader
     IN  /\ s[Shdr.type] = SHT_STRTAB
         /\ strtab' = s
         /\ named' = TRUE
         /\ \E g \in Garbage :
              strtabl' = Fread([k \in 1 .. s[Shdr.size] |-> g], s[Shdr.size], s[Shdr.offset])
         /\ fp' = SectionsAt(FposAfter(s[Shdr.size], s[Shdr.offset]))
         /\ pc' = "sections"
  /\ UNCHANGED <<file, hdr, shdr, phdr, swap, i, sections, segments>>

(* malloc fails and its result is not looked at.                           *)
NoMemory ==
  /\ pc = "strtab"
  /\ hdr[Ehdr.shstrndx] < hdr[Ehdr.shnum]
  /\ LET s == StrtabHeader
     IN  /\ s[Shdr.type] = SHT_STRTAB
         /\ IF s[Shdr.size] > 0 /\ s[Shdr.offset] < Len(file)
            THEN strtab' = s /\ pc' = "undefined" /\ UNCHANGED <<fp, named, strtabl>>
            ELSE WithoutNames(s, s[Shdr.offset])
  /\ UNCHANGED <<file, hdr, shdr, phdr, swap, i, sections, segments>>

-----------------------------------------------------------------------------
(* The string at an index of a table: its words up to the terminator.      *)
HasString(t, n) == \E k \in n + 1 .. Len(t) : t[k] = 0

StringAt(t, n) ==
  LET e == CHOOSE k \in n + 1 .. Len(t) : t[k] = 0 /\ \A m \in n + 1 .. k - 1 : t[m] # 0
  IN  SubSeq(t, n + 1, e - 1)

Unknown == <<NoWord>>

(* A section header, field by field, and its name.                         *)
ShowSection ==
  /\ pc = "sections" /\ i < hdr[Ehdr.shnum]
  /\ shdr' = swap_elf32_section_header(Fread(shdr, ShdrSize, fp))
  /\ fp' = FposAfter(ShdrSize, fp)
  /\ IF named /\ ~HasString(strtabl, shdr'[Shdr.name])
     THEN pc' = "undefined" /\ UNCHANGED <<i, sections>>
     ELSE /\ sections' =
               Append(sections,
                 [fields |-> shdr',
                  kind   |-> sh_type_to_string(shdr'[Shdr.type]),
                  name   |-> IF named THEN StringAt(strtabl, shdr'[Shdr.name]) ELSE Unknown])
          /\ i' = i + 1 /\ pc' = pc
  /\ UNCHANGED <<file, hdr, strtab, phdr, swap, named, strtabl, segments>>

(* "No program headers present; exit": the file is left open.              *)
NoSegments ==
  /\ pc = "sections" /\ i >= hdr[Ehdr.shnum]
  /\ hdr[Ehdr.phnum] = 0
  /\ pc' = "done"
  /\ UNCHANGED <<file, fp, hdr, strtab, shdr, phdr, swap, i, named, strtabl, sections, segments>>

GoToSegments ==
  /\ pc = "sections" /\ i >= hdr[Ehdr.shnum]
  /\ hdr[Ehdr.phnum] # 0
  /\ fp' = hdr[Ehdr.phoff] /\ i' = 0
  /\ pc' = "segments"
  /\ UNCHANGED <<file, hdr, strtab, shdr, phdr, swap, named, strtabl, sections, segments>>

ShowSegment ==
  /\ pc = "segments" /\ i < hdr[Ehdr.phnum]
  /\ phdr' = swap_elf32_program_header(Fread(phdr, PhdrSize, fp))
  /\ fp' = FposAfter(PhdrSize, fp)
  /\ segments' = Append(segments, [fields |-> phdr',
                                   kind   |-> segment_type_to_string(phdr'[Phdr.type])])
  /\ i' = i + 1
  /\ UNCHANGED <<file, hdr, strtab, shdr, swap, named, strtabl, sections, pc>>

CloseFile ==
  /\ pc = "segments" /\ i >= hdr[Ehdr.phnum]
  /\ fp' = -1
  /\ pc' = "done"
  /\ UNCHANGED <<file, hdr, strtab, shdr, phdr, swap, i, named, strtabl, sections, segments>>

Next ==
  \/ NoFile \/ OpenFile \/ NotElf \/ ReadHeader
  \/ NoStringTable \/ ReadStringTable \/ NoMemory
  \/ ShowSection \/ NoSegments \/ GoToSegments \/ ShowSegment \/ CloseFile

Spec == Init /\ [][Next]_vars

-----------------------------------------------------------------------------
(* The file read without the code: the header's fields, an entry of a      *)
(* table at an offset and the bytes of a section, in host order.           *)
Host(w) == IF file[Ehdr.data] = MSB THEN SWAP(w) ELSE w

FileHead(f) == Host(file[f])

Entry(at, size, k) == [n \in 1 .. size |-> Host(file[at + size * k + n])]

Sec(k) == Entry(FileHead(Ehdr.shoff), ShdrSize, k)
Seg(k) == Entry(FileHead(Ehdr.phoff), PhdrSize, k)

(* The tables lie in the file.                                             *)
TablesInFile ==
  /\ Len(file) >= EhdrSize
  /\ FileHead(Ehdr.shoff) + ShdrSize * FileHead(Ehdr.shnum) <= Len(file)
  /\ FileHead(Ehdr.phoff) + PhdrSize * FileHead(Ehdr.phnum) <= Len(file)

HasNames ==
  FileHead(Ehdr.shstrndx) < FileHead(Ehdr.shnum) /\ Sec(FileHead(Ehdr.shstrndx))[Shdr.type] = SHT_STRTAB

StringTable ==
  LET s == Sec(FileHead(Ehdr.shstrndx))
  IN  SubSeq(file, s[Shdr.offset] + 1, s[Shdr.offset] + s[Shdr.size])

(* ... and the string table too, with every section's name.                *)
NamesInFile ==
  HasNames =>
    /\ Sec(FileHead(Ehdr.shstrndx))[Shdr.offset] + Sec(FileHead(Ehdr.shstrndx))[Shdr.size] <= Len(file)
    /\ \A k \in 0 .. FileHead(Ehdr.shnum) - 1 : HasString(StringTable, Sec(k)[Shdr.name])

(* For a file that holds what its header promises, ELFTool shows each      *)
(* section header and each program header of the tables once, in the       *)
(* tables' order, its fields in host order whatever the file's, and under  *)
(* the section's own name: the detour to the string table, through the     *)
(* same file position and the same swap, leaves no trace.                  *)
ShowsTables ==
  pc = "done" /\ TablesInFile /\ NamesInFile =>
    /\ Len(sections) = FileHead(Ehdr.shnum)
    /\ \A k \in 1 .. Len(sections) :
         /\ sections[k].fields = Sec(k - 1)
         /\ named => sections[k].name = StringAt(StringTable, Sec(k - 1)[Shdr.name])
    /\ Len(segments) = FileHead(Ehdr.phnum)
    /\ \A k \in 1 .. Len(segments) : segments[k].fields = Seg(k - 1)

(* Nothing outside the name tables, the string table and the file is read  *)
(* but for the four reasons the code leaves open: a machine id without a   *)
(* name, a file that ends early, a name outside the string table, and      *)
(* memory that malloc refused.  Such a run aside, the program ends with    *)
(* its file closed, except when there are no program headers.              *)
ToolStaysDefined ==
  /\ pc = "undefined" =>
       \/ hdr[Ehdr.machine] = 6
       \/ ~TablesInFile \/ ~NamesInFile
       \/ (strtab[Shdr.type] = SHT_STRTAB /\ ~named)
  /\ pc \in {"done", "failed"} => fp = -1 \/ hdr[Ehdr.phnum] = 0
=============================================================================
