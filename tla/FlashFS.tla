------------------------------ MODULE FlashFS ------------------------------
(***************************************************************************)
(* The flash file system: check_flash and flash_directory (platform.c),    *)
(* find_file, the open and the read of platio.c, and cilo_open, cilo_read  *)
(* and cilo_seek (ciloio.c), as start_bootloader and the loaders use them. *)
(*                                                                         *)
(* Flash is a row of entries, each a struct fs_ent followed by its data.   *)
(* What is written there (by IOS) is external: a disk is the sequence of   *)
(* files, one directly behind the other, and no word behind the last one   *)
(* is FS_FILE_MAGIC.                                                       *)
(***************************************************************************)
EXTENDS CiloIO, Sequences

CONSTANTS
  EntSize,    \* sizeof(struct fs_ent)
  NameLen,    \* the characters of a name that strncmp compares
  TypedLen,   \* the characters of a name that can be asked for
  Names,      \* file names, sequences of characters
  Disks,      \* contents of the flash
  Amounts,    \* lengths of reads and offsets of seeks
  MaxListing  \* how many printed names are remembered

File == [name: Names, length: U32]

ASSUME FlashAssumption ==
  /\ EntSize \in U32 \ {0}
  /\ NameLen \in Nat /\ TypedLen \in 0 .. NameLen
  /\ \A s \in Names : s \in Seq({s[k] : k \in 1 .. Len(s)})
  /\ Disks \subseteq Seq(File)
  /\ \A d \in Disks : \A k \in 1 .. Len(d) : Len(d[k].name) <= NameLen
  /\ Amounts \subseteq U32
  /\ MaxListing \in Nat /\ \A d \in Disks : Len(d) <= MaxListing

VARIABLES
  disk,      \* the files on the flash
  pc,        \* "check", "list", "prompt", "find", "open", "file", "abort"
  offset,    \* the walk's position
  listing,   \* the entries printed by flash_directory
  typed,     \* the name entered at the prompt
  found,     \* the entry opened, 0 for none
  fp,        \* the open file's length and position
  lastRead   \* history: address, position and length of the last read

vars == <<disk, pc, offset, listing, typed, found, fp, lastRead>>

NoRead == [from |-> 0, pos |-> 0, n |-> 0]

Init ==
  /\ disk \in Disks
  /\ pc = "check"
  /\ offset = 0
  /\ listing = << >>
  /\ typed = << >>
  /\ found = 0
  /\ fp = [file_len |-> 0, file_pos |-> 0]
  /\ lastRead = NoRead

-----------------------------------------------------------------------------
(* Where the entries are (external).                                       *)
Span(f) == U32Add(EntSize, f.length)

Offsets(d) ==
  LET at[k \in 1 .. Len(d) + 1] ==
        IF k = 1 THEN 0 ELSE U32Add(at[k - 1], Span(d[k - 1]))
  IN  at

(* No two entries of a disk are at the same address.                       *)
ASSUME DiskAssumption ==
  \A d \in Disks : \A j, k \in 1 .. Len(d) : Offsets(d)[j] = Offsets(d)[k] => j = k

(* The entries with f->magic == FS_FILE_MAGIC at an offset: one or none.   *)
EntryAt(off) == {k \in 1 .. Len(disk) : Offsets(disk)[k] = off}

(* offset += sizeof(struct fs_ent) + f->length.  The mutant forgets the    *)
(* entry's own size.                                                       *)
NextOffsetShort(off, f) == U32Add(off, f.length)

NextOffset(off, f) == U32Add(off, U32Add(EntSize, f.length))

(* At most n characters of a name.                                         *)
Prefix(s, n) == SubSeq(s, 1, IF Len(s) < n THEN Len(s) ELSE n)

(* What is left of the entered name in kernel[].                           *)
Want == Prefix(typed, TypedLen)

(* strncmp(f->filename, filename, NameLen) = 0.  The mutants compare one   *)
(* character less, and ask for a terminator inside the field.              *)
SameNameShort(a, b) == Prefix(a, NameLen - 1) = Prefix(b, NameLen - 1)

SameNameTerminated(a, b) == a = b /\ Len(a) < NameLen

SameName(a, b) == Prefix(a, NameLen) = Prefix(b, NameLen)

-----------------------------------------------------------------------------
(* check_flash looks at the first word only.                               *)
CheckFlash ==
  /\ pc = "check"
  /\ pc' = IF EntryAt(0) = {} THEN "abort" ELSE "list"
  /\ UNCHANGED <<disk, offset, listing, typed, found, fp, lastRead>>

ListEntry ==
  /\ pc = "list"
  /\ \E k \in EntryAt(offset) :
       /\ listing' = IF Len(listing) < MaxListing THEN Append(listing, k) ELSE listing
       /\ offset' = NextOffset(offset, disk[k])
  /\ UNCHANGED <<disk, pc, typed, found, fp, lastRead>>

ListEnd ==
  /\ pc = "list" /\ EntryAt(offset) = {}
  /\ pc' = "prompt"
  /\ UNCHANGED <<disk, offset, listing, typed, found, fp, lastRead>>

(* A name is entered: cilo_open looks for it with platio_find_file.        *)
AskFile ==
  /\ pc = "prompt"
  /\ typed' \in Names
  /\ offset' = 0
  /\ pc' = "find"
  /\ UNCHANGED <<disk, listing, found, fp, lastRead>>

(* One pass of find_file's loop, in platio_find_file ("find") and again in *)
(* platio_file_open ("open").                                              *)
FindSkip ==
  /\ pc \in {"find", "open"}
  /\ \E k \in EntryAt(offset) :
       /\ ~SameName(disk[k].name, Want)
       /\ offset' = NextOffset(offset, disk[k])
  /\ UNCHANGED <<disk, pc, listing, typed, found, fp, lastRead>>

FindHit ==
  /\ pc = "find"
  /\ \E k \in EntryAt(offset) : SameName(disk[k].name, Want)
  /\ offset' = 0
  /\ pc' = "open"
  /\ UNCHANGED <<disk, listing, typed, found, fp, lastRead>>

OpenHit ==
  /\ pc = "open"
  /\ \E k \in EntryAt(offset) :
       /\ SameName(disk[k].name, Want)
       /\ found' = k
       /\ fp' = [file_len |-> disk[k].length, file_pos |-> 0]
  /\ pc' = "file"
  /\ lastRead' = NoRead
  /\ UNCHANGED <<disk, offset, listing, typed>>

(* fp.code = -1: the prompt again.                                         *)
FindEnd ==
  /\ pc = "find" /\ EntryAt(offset) = {}
  /\ pc' = "prompt"
  /\ UNCHANGED <<disk, offset, listing, typed, found, fp, lastRead>>

(* platio_file_open's own "not found" branch, which would set code 0 and   *)
(* leave the length unset.  OpensFirstMatch states that it is dead.        *)
OpenMiss == pc = "open" /\ EntryAt(offset) = {}

-----------------------------------------------------------------------------
(* platio_read: the address is entry + sizeof(struct fs_ent) + file_pos.   *)
(* The mutant reads from the entry itself.                                 *)
DataAddressBare(k, pos) == U32Add(Offsets(disk)[k], pos)

DataAddress(k, pos) == U32Add(Offsets(disk)[k], U32Add(EntSize, pos))

Read ==
  /\ pc = "file"
  /\ \E n \in Amounts :
       /\ lastRead' = [from |-> DataAddress(found, fp.file_pos), pos |-> fp.file_pos, n |-> n]
       /\ fp' = Advance(fp, n)
  /\ UNCHANGED <<disk, pc, offset, listing, typed, found>>

Seek ==
  /\ pc = "file"
  /\ \E n \in Amounts : fp' \in {SeekSet(fp, n), SeekCur(fp, n), SeekEnd(fp)}
  /\ lastRead' = NoRead
  /\ UNCHANGED <<disk, pc, offset, listing, typed, found>>

(* The loader gives up: "Fatal error while loading kernel", next prompt;   *)
(* kernel_file is dead until it is opened again.                           *)
GiveUp ==
  /\ pc = "file"
  /\ pc' = "prompt"
  /\ found' = 0
  /\ fp' = [file_len |-> 0, file_pos |-> 0]
  /\ lastRead' = NoRead
  /\ UNCHANGED <<disk, offset, listing, typed>>

Walk == CheckFlash \/ ListEntry \/ ListEnd \/ FindSkip \/ FindHit \/ OpenHit \/ FindEnd

Next ==
  \/ CheckFlash
  \/ ListEntry
  \/ ListEnd
  \/ AskFile
  \/ FindSkip
  \/ FindHit
  \/ OpenHit
  \/ FindEnd
  \/ Read
  \/ Seek
  \/ GiveUp

(* The walks run by themselves; input and the loaders' calls need not come.*)
Fairness == WF_vars(Walk)

Spec == Init /\ [][Next]_vars /\ Fairness

-----------------------------------------------------------------------------
(* A disk whose entries end below the top of the address space.            *)
End(d, k) == Offsets(d)[k] + EntSize + d[k].length

Fits(d) == \A k \in 1 .. Len(d) : End(d, k) < Word

(* flash_directory prints every file, once and in order.                   *)
ListingComplete ==
  Fits(disk) /\ pc \in {"prompt", "find", "open", "file"} =>
    listing = [k \in 1 .. Len(disk) |-> k]

(* An opened file is the first on the flash with the name asked for, with  *)
(* that entry's length; the second search of cilo_open cannot miss.        *)
OpensFirstMatch ==
  Fits(disk) =>
    /\ ~OpenMiss
    /\ pc = "file" => /\ disk[found].name = Want
                      /\ fp.file_len = disk[found].length
                      /\ \A k \in 1 .. found - 1 : disk[k].name # Want

(* A name that flash_directory has printed is never reported as missing.   *)
ListedNamesOpen ==
  [][pc = "find" /\ pc' = "prompt"
       => \A j \in 1 .. Len(listing) : disk[listing[j]].name # typed]_vars

(* A read that begins and ends inside the file returns bytes of that file: *)
(* no header and no byte of another file.                                  *)
ReadsOwnBytes ==
  Fits(disk) /\ lastRead.pos + lastRead.n <= fp.file_len /\ lastRead.n > 0 =>
    /\ lastRead.from >= Offsets(disk)[found] + EntSize
    /\ lastRead.from + lastRead.n <= End(disk, found)
    /\ \A k \in 1 .. Len(disk) : k # found =>
         \/ lastRead.from + lastRead.n <= Offsets(disk)[k]
         \/ lastRead.from >= End(disk, k)

(* Listing and search end.  (A length that takes the walk around the       *)
(* address space to an entry it has seen makes both endless.)              *)
WalkEnds ==
  Fits(disk) /\ pc \in {"check", "list", "find", "open"}
    ~> pc \in {"prompt", "file", "abort"}
=============================================================================
