# A TLA+ model of CILO

CILO (CiscoLoad) is a second-stage boot loader for Cisco 1700, 3600 and 7200
routers. ROMMON starts it; it lists the flash, prompts for a file name, and loads
an ELF or LZMA-compressed kernel. Two host programs, `elf2img` and `elf2mzip`,
make images that ROMMON accepts, and a third, ELFTool, shows ELF files. This directory holds TLA+ modules that model
these parts, TLC configurations that check them on small instances, and TLAPS
proofs of the properties that matter most for every instance.

All of CILO is sequential C without interrupts, threads, timeouts or persistent
writes. What is hard to test here is therefore not concurrency but:

* a *file position* that many calls move, and that only some of them restore;
* *buffers reused* from one prompt to the next, with terminators in the wrong place;
* *unsigned 32-bit arithmetic* on lengths and offsets taken from a file;
* *input that ends anywhere*, with half of a packet's state already changed;
* *library calls that fail* in the host tools and are only partly handled;
* loops over data from the flash that *must end*.

The hazards are listed with their lines in `PROJECT.json`; one that the properties
only exclude, by a precondition, has no property there and a note instead.

## 1. Inventory

| Component | Source | State | Operations |
|---|---|---|---|
| Boot prompt | `main.c` | `buf`, `kernel`, `cmd_line`, all kept between prompts | read a line, split it, add a console argument, open, choose a loader, come back on failure |
| String library | `string.c` | none | `strlen`, `strchr`, `strstr`, `strncpy`, `strncmp`, `memcpy` |
| File layer | `ciloio.c` | `struct file`: length and position | `cilo_open`, `cilo_read`, `cilo_seek` |
| Flash file system | `mach/*/platio.c`, `mach/*/platform.c` | a chain of `struct fs_ent` in flash | `check_flash`, `flash_directory`, `find_file`, open, read |
| ELF loaders | `elf_loader.c` | file position, memory, segment counter | `load_elf32_file`, `load_elf64_file` |
| LZMA loader | `lzma_loader.c` | file position, input buffer, progress | `load_lzma`, `read_data` (a callback of the decoder) |
| LZMA decoder | `LzmaDecode.c` | output, state, four last distances, range coder, probabilities | `LzmaDecodeProperties`, `LzmaDecode` |
| Console | `mach/*/promlib.c` | the line buffer and its index | `c_gets`, `c_puts`, `c_strnlen`; the rest is device I/O |
| printf | `printf.c` | the directive being read: flags, width, precision, qualifier; format and argument pointers | `number`, `vsprintf`, `sprintf`, `printf` |
| Host tools | `elf2mzip/` | memory image, MZIP header, output file | `elf2img`, `elf2mzip`, `mzip_*` |
| ELFTool | `elftool/` | file position, header structs, string table | shows the headers of an ELF file |
| Start code | `mach/*/start.S` | registers | sets the stack, calls `start_bootloader` |
| Storage interface | `include/storage/` | none | declarations without an implementation |

How they interact: `start_bootloader` calls `c_gets`, splits the line with the
string functions, opens the file through `cilo_open`, which searches the flash
twice (`platio_find_file`, then `platio_file_open`), and passes the handle to a
loader. Its messages, and the command line the kernel gets, go through `vsprintf`.
The loaders move the handle's position with `cilo_read` and `cilo_seek`.
`LzmaDecode` asks for input through `read_data`, which moves the position of the
same handle. The host tools only share `struct mzip` and the ELF headers.

What makes each part correct:

* ELF32 loader: the kernel starts with exactly its load image in memory, whatever
  mix and order of segments; every loadable image is started.
* ELF64 loader: the same is intended; see the findings for what holds.
* LZMA decoder: no read outside of what has been written, no write outside of the
  output, success only for a complete stream.
* LZMA loader: the decoder sees the file's bytes once and in order; a truncated
  file is not started; the loader ends.
* Range coder: one byte is enough to normalize, and the code stays in its interval.
* Flash: the listing is complete, a listed file opens, the file opened is the
  first with that name, a read inside the file returns that file's bytes.
* Console: characters and terminator are stored in the buffer; an erase key takes
  back one character.
* Prompt: what is opened is what was typed; arguments reach the kernel.
* printf: a field reads back as its argument; neither the format nor the arguments
  are left; a string that is the output buffer itself survives.
* ELFTool: each header of the tables is shown once, in host order, under its name.
* Host tools: the image is the segments in their places; the MZIP header describes
  it, in the target's byte order, with valid CRCs; exit code 0 means it was written.

## 2. Modules

| Module | Models |
|---|---|
| `CiloIO` | 32-bit arithmetic, `memcpy`, `cilo_seek`, the effect of `platio_read` on the position, as operators |
| `Elf32Loader` | `load_elf32_file`, one action per loop pass |
| `Elf64Loader` | `load_elf64_file`, and the choice between the two by the class byte (extends `Elf32Loader`) |
| `ElfLoaderProofs` | theorems about `Elf32Loader` and `Elf64Loader` |
| `LzmaConstants` | the `#define`s of `LzmaDecode.c` that the decoder and its tables share |
| `LzmaDecode` | the packet loop of `LzmaDecode` |
| `LzmaLoader` | `load_lzma` and `read_data` composed with `LzmaDecode` |
| `LzmaProofs` | theorems about `LzmaDecode`, `LzmaLoader`, `RangeDecoder` and `LzmaTables` |
| `RangeDecoder` | the range coder: `Range`, `Code`, the probabilities |
| `LzmaTables` | `LzmaDecodeProperties`, the probability table's layout, the distance slots, with the code's constants |
| `FlashFS` | flash walk, listing, open, read, seek |
| `Console` | `c_gets` of the three ports, key by key |
| `LineEditor` | abstract specification of `c_gets` |
| `CString` | the string functions the prompt uses |
| `Boot` | `start_bootloader`, composed with `Console`: its keys are the console's actions |
| `Printf` | `vsprintf`, `number`, `printf`, with `c_strnlen` and `c_puts` |
| `FormatParse` | which calls of `vsprintf` are well formed, the hypothesis of the theorems about it |
| `ElfTool` | ELFTool from its argument to the exit code |
| `Mzip`, `Elf2Img`, `Elf2Mzip`, `HostTools` | the MZIP header and CRCs, the two host programs, both side by side |
| `BootProofs` | theorems about `Console` and `Boot` |
| `FlashFSProofs` | theorems about `FlashFS` |
| `HostToolsProofs` | theorems about the host tools |
| `ElfToolProofs` | theorems about `ElfTool` |
| `PrintfProofs` | theorems about `Printf` |
| `Induction` | least and greatest element, induction and recursion over the naturals, for the proofs |
| `MC*` | constants for TLC |

Conventions. Definitions keep the names of the C code where there is one. `pc`
(or `dpc`, `lpc`, `ppc`, `rpc`, `gets`) is the place in the code. An outcome the source no longer
describes, such as a loader that has overwritten itself, a trap, or a use of freed
memory, is a final value of `pc` ("lost", "corrupt", "trap", "undefined"). A
definition whose comment calls it a mutant is a plausible slip in the definition
after it; it is used only to show that the property can fail.

Abstractions, each chosen so that the properties still tell apart what matters:

* The content of a byte is the file position it came from (`CiloIO`). Two cells
  are equal exactly when the program gave them the same byte of the file.
* `Word` stands for 2^32. Sums and differences wrap at it. `memcpy`'s length is a
  signed `int`, so lengths from `Word / 2` on copy nothing, and a null destination
  is refused, as in the code.
* A program header read from a place that is not a table entry is any member of
  `Garbage`.
* The ELF64 structs are modelled with 32-bit fields: `uint64_t` is
  `unsigned long`, 32 bits wide on the targets of the Makefile.
* The range coder's bits are `\E`: what a stream spells is up to the file. So the
  decoder's properties hold for every stream, valid or not. `RangeDecoder` models
  the arithmetic behind those bits by itself, with the input bytes and the choice
  of a probability left open.
* In `LzmaLoader` the number of input bytes a packet takes is left open.
* In `Boot` the loaders are abstract: they return or the kernel runs.
* In `Printf` a character is a one-letter string, `int`, `long` and pointers are one
  word of `Word` values, as on the targets, and the buffer is unbounded.
* In `ElfTool` a struct field is one word of two bytes, a string table's character
  one word; the fields that are only shown and the texts of names are left out.
  What the stack held before a read that falls short is any word of `Garbage`.
* In the host tools a CRC is what it was computed over, and an archive is the
  bytes that went into it; libzip is external and may fail.
  Of the description file only whether it holds a NUL is kept (`descNul`).

## 3. Runs

Every run takes less than a minute. CHECK_DEADLOCK is off where the program
really stops: a kernel runs, a tool exits, a stream ends, the flash is invalid.

| Run | Module / cfg | What it shows |
|---|---|---|
| `elf_load` | `MCElfLoader` | `PhdrCursor`, `LoadCorrect`, `BootableStarts` for 32-bit images; `LastSegmentLoads` for the others; `LoadersEnd` for both |
| `elf64_segments` | `MCElfLoader` / `MCElf64Segments` | finding: `AllSegmentsLoaded` fails |
| `lzma_decode` | `MCLzmaDecode` | `WindowReads`, `OutputBounds`, `WrittenPrefix`, `OkMeansComplete`, `RepsMoveToFront` |
| `lzma_load` | `MCLzmaLoader` | `NeverPastEnd`, `StreamContiguous`, `ProgressGrows`, `StartedFromWholeFile`, `LoadEnds` |
| `lzma_coder` | `MCLzmaCoder` | `OneByteNormalizes`, `CodeInRange`, the action property `CodeCrossings` on every stream; `ProbIndexesInBounds` for every first byte of a file, `DistancesTile` |
| `flash` | `MCFlashFS` | `ListingComplete`, `OpensFirstMatch`, `ReadsOwnBytes`, `ListedNamesOpen`, `WalkEnds` |
| `console_erase_empty` | `MCConsole` / `MCConsoleErase` | finding: `InBuffer` fails |
| `boot_prompt` | `MCBoot` | `InBuffer`, the refinement `EditsLines`, `BareNameExact`, `NameAtMostOneStray`, `ArgumentsKept` |
| `boot_kernel_name` | `MCBoot` / `MCBootKernelName` | finding: `KernelNameExtracted` fails |
| `printf` | `MCPrintf` | `InsideFormat`, `NumbersReadBack`, `StringsExact` |
| `host_tools` | `MCHostTools` | `ImageLaidOut`, `HeaderDescribes`, `CrcsValid`, `ExitHonest`, `StaysDefined` |
| `elftool` | `MCElfTool` | `ShowsTables`, `ToolStaysDefined` |

Bounds, and why they are enough:

* `elf_load`: 12 addresses, tables of up to three entries over nine program
  headers: text, data with bss, bss alone, one that is not loaded, an overlap, one
  over the loader, `memsz < filesz`, a length beyond a signed `int`, address 0.
  Three entries give a skipped one before, between and after loaded ones. What
  happens from one entry to the next depends on two entries only, and the proofs
  remove the bound.
* `lzma_decode`: outputs of up to eleven bytes, copies of two and four, distances
  up to the first outside of the window, one byte value (nothing depends on it). A
  match can fit, overlap itself, and exceed the room left, and four matches with
  different distances fit, so every shuffle of the distances shows; the proofs
  remove the bound.
* `lzma_load`: a buffer of four bytes, files from empty over shorter than the
  13-byte header to several refills, and one for which `total_read * 100` wraps.
* `flash`: up to three files, equal names, names that fill their field, empty files,
  and a length that leads the walk back to its first entry.
* `lzma_coder`: words of four two-bit bytes, probabilities of three bits that move
  by quarters, five initial bytes, two probabilities. As with the code's constants
  a probability stops three from either end, and the bound there is just enough
  for one byte. The tables are checked with the code's own constants, for all 225
  accepted bytes; slots from 61 on exceed TLC's integers.
* `boot_prompt`: a line buffer of 7 cells, a kernel buffer of 5, needles of 3
  letters; c3600 (c1700 has the same keys) and c7200. The lines are typed key by key with
  erasures, and are longer and shorter than the previous one, fill the buffer, hold
  names longer than the kernel buffer, needles complete, cut short, and behind their
  own first letter.
* `printf`: words of one byte and half words of one half; each integer directive with
  up to two flags, three kinds of width, four of precision, with and without `h`,
  on the values around zero, the sign and the end of the word; the loader's own
  formats; formats cut short in each part of a directive.
* `elftool`: both byte orders, up to three sections and two segments, the string table
  in each place or in none, ids at the ends of the name tables, and each file cut
  short in the last table.
* `host_tools`: up to three segments, with gaps, overlaps, wrap at the top and a
  truncated file; every command-line form of the usage texts, whole or cut off at any argument;
  descriptions with and without a NUL; every library failure the code tests for.

Preconditions. `LoadCorrect`, `BootableStarts`, `ImageLaidOut` and the like are
about images a linker makes (`WellFormed`, `Linked`): segments inside the file,
disjoint, no larger in the file than in memory. The runs contain the others too,
and the models follow the code on them. `BootableStarts` also excludes images
that lie over the loader itself. `ShowsTables` is about files that hold what their
header promises. `CodeInRange` is about streams whose code starts inside the interval
and whose direct bits each leave it in one half (an encoder's do; the decoder tests
neither). Corrupt streams need not: `CodeCrossings` has no precondition and says at
which steps they leave the interval. `boot_prompt` assumes a user who does not erase an
empty line on c1700 and c3600 (`Careful`); `console_erase_empty` drops that.
`flash` has `TypedLen = NameLen` (c1700, c3600, 48 characters); on c7200 a name of
more than 48 characters can be listed but not asked for.

Fairness. The ELF and LZMA loaders are sequential code that waits for nothing, so
weak fairness of the whole next-state relation is what the processor gives. In
`FlashFS` only the walks (`Walk`) are fair: keys and the loaders' calls need not
come. The other modules state no fairness.

## 4. Proofs

Every safety invariant and safety action property that a passing run checks is also
proved, for every value of the constants.
The refinement `EditsLines` is proved too. Each proof has the
same shape: a type invariant, an inductive invariant stronger than the property, one
step per action, and a last step by temporal logic.

### ELF loaders (`ElfLoaderProofs`)

For every word size, header size and set of images (`WordAssumption`,
`Elf32Assumption`):

* `TypeCorrect`: `Spec => []TypeOK`.
* `LoadCorrectness`: `Spec => []LoadCorrect`, and `CursorCorrectness`:
  `Spec => []PhdrCursor`. Neither is inductive. `LoopInv` says that for a
  well-formed image, in the segment loop, the first `i` entries are in memory, all
  else is untouched, and the file position is that of entry `i`. The cursor is
  needed to know *which* header the next pass reads, and the memory part to know
  that a later segment, being disjoint, leaves the earlier ones alone.
  `SegmentWritten` says what copy and clear do to each cell; `EntryRead` that a read
  at the cursor gives the table entry; `NextEntryInside` that the seek back is not
  cut by the end of the file and does not wrap.
* `LoadersCorrect`: `LoadSpec => [](LastSegmentLoads /\ LoadCorrect /\ PhdrCursor)` for
  the two loaders side by side. `Loop64Inv` follows the 64-bit loop up to its first
  PT_LOAD entry; behind it the position is lost, which is why the property speaks of
  images whose only PT_LOAD entry is the last.

### LZMA decoder and loader (`LzmaProofs`)

For every output size, byte set, set of lengths and set of distances
(`LzmaAssumption`): `DecodeTypeCorrect`, `WindowSafety`, `OutputSafety`,
`PrefixSafety`, `CompleteOnSuccess` and `RepsShuffled`. The inductive invariant is
`DecodeInv == DecodeTypeOK /\ RepInv /\ StateInv /\ RoomInv /\ WrittenPrefix`.
The reads of `outStream[nowPos - rep0]` in a literal and in a short repeat are
unchecked in the code. They are safe because every distance in `rep0 .. rep3` is
either the initial 1 or was checked against an earlier, smaller `nowPos`
(`RepInv`), because a match state implies that a byte has been written
(`StateInv`), and because the do-while copy loop is entered with room for one byte
(`RoomInv`). `CompleteOnSuccess` adds `FinishInv` (the last step is only entered with
the whole output or after an end marker), and `RepsShuffled` proves the action
property `RepsMoveToFront` by the four cases of the distance shuffle.

For every file length and buffer size (`LoaderAssumption`):

* `LoadedOutputSafe`: the decoder's safety for the loader, without a new induction.
  `LzmaLoader` is composed of `LzmaDecode`'s actions, so each of its steps is one of the
  decoder or leaves its variables alone (`LoaderDecodes`).
* `ReadsStayInFile`, `StreamFed` (`NeverPastEnd`, `StreamContiguous`) from
  `PositionInv`: position, bytes consumed and bytes buffered add up, and a file shorter
  than the header is left with nothing to read.
* `StartedComplete` (`StartedFromWholeFile`) from `CompleteOnSuccess`, carried over by
  `LoaderDecodes`, and `RcInitInv`, the count of the range coder's first five bytes.
* `ProgressShown` (`ProgressGrows`) from `ProgressInv`: the last number shown bounds
  the earlier ones, and integer division keeps it below 100 because the header is not
  counted.

### Range coder and probability table (`LzmaProofs`)

`NormalizeSuffices` (`RcSpec => []OneByteNormalizes`),
`CodeStays` (`RcSpec => []CodeInRange`, for streams that start inside and whose direct
bits leave the code in one half) and `CrossingsNamed` (`RcSpec => CodeCrossings`, for
every stream) for every byte, word and probability size that
satisfies `CoderAssumption`: `Top` is a multiple of an even `Total`, and
`Total <= RcByte * (Move - 1)`. For the code that is 2048 <= 256 * 31. The invariant
`IInv` adds to the interval what the two properties do not say: a probability keeps
`Move - 1` from either end (`LessKeeps`, `MoreKeeps`: taking a `Move`-th part off a
number of at least `Move - 1`, rounded down, leaves at least `Move - 1`), hence both
parts of a split interval are at least `Top / RcByte` (`Split`), and so is half of one
(`Halved`, which needs `Top` even). `Normalized` combines them with the refill.
`CrossingsNamed` goes over the kinds of bits with `Normalized` for a code inside and
`StaysOutside` for one outside: a split leaves it on its side because no bound reaches
the end of the interval, and halving an odd interval loses its last place.

`TableSuffices` (`ProbIndexesInBounds`) and `SlotsTile` (`DistancesTile`) have the
code's own constants and go beyond the run in two places: the literal coder is inside
the table for every position and every previous byte, where the run takes samples, and
the slots tile up to the last of them, which exceeds TLC's integers. The subtraction
loops of `LzmaDecodeProperties` are shown to divide (`SubtractDivides`, by least
counterexample), which gives `lc`, `lp` and `pb` their ranges; a literal's place is a row
of `2^lc` among `2^lp` (`RowInside`).

### Console and prompt (`BootProofs`)

For every size of the two buffers, set of characters, needle and history of prompts
(`ConsoleAssumption`, `BootAssumption`), under the hypothesis `Careful`: an erase key
is not pressed on an empty line of c1700 or c3600. Without it `InBuffer` is false
(finding `console_erase_empty`).

* `GetsInBuffer`, `GetsEdits` for the console alone, and `BootInBuffer` (`InBuffer`),
  `BootEdits` (`EditsLines`) behind the prompt, whose steps are the console's or leave
  it alone. `GetsInv` says that the cells in front of the index hold characters and,
  once the line is entered, a terminator follows. `KeptIsLine` shows that the abstract
  line is those cells.
* `BareNameOpened`, `SplitNameOpened` (`BareNameExact`, `NameAtMostOneStray`).
  `TypedInv` ties the line as typed to the buffer that is parsed, and `KernelInv` says
  that the last cell of `kernel[]` is a terminator whatever is copied, which bounds
  the string that is opened.
* `ArgumentsPassedOn` (`ArgumentsKept`): what `strchr` and `strstr` find is
  characterised by least elements.

### Flash (`FlashFSProofs`)

For every disk, entry size and name length (`FlashAssumption`, `DiskAssumption`):

* `DirectoryListed` (`ListingComplete`) from `ListInv`: the entries printed are the
  first ones and the walk stands on the next.
* `FirstMatchOpened` (`OpensFirstMatch`). `FindInv` says that the search stands on the
  path from the first entry with no match behind it. That the offsets of a disk that
  fits are distinct and ascending is proved by induction over the entries.
* `ListedFound` (`ListedNamesOpen`), under the hypothesis that no name on the flash is
  longer than `TypedLen`. The c1700 and c3600 fields satisfy it; a longer name on c7200
  can be listed but not asked for.
* `OwnBytesRead` (`ReadsOwnBytes`) from `ReadInv`, the place of the last read, and the
  disjointness of the entries.

### Host tools (`HostToolsProofs`)

For every set of input files and every library failure (`MzipAssumption`,
`WordAssumption`):

* `ExitsHonest` (`ExitHonest`), for `elf2img` command lines that are the usage line,
  whole or cut off (`UsageLines`); nothing is assumed of `elf2mzip`'s.
* `ImageWritten` (`ImageLaidOut`), `HeaderWritten` (`HeaderDescribes`), `CrcsStored`
  (`CrcsValid`).
* `ToolsStayDefined` (`StaysDefined`): the three reads outside of what C defines that
  the code makes for a linked file, each with the state of the output it leaves. `elf2img` takes
  its file names from `argv` before it tests `argc` (`elf2img.c:68`), and prints the
  description with `%s` from a buffer without a terminator (`elf2img.c:268`), which only
  a NUL in the file stops; whether such a read goes on or ends the program is left open
  (`ParseArgs`, `PrintUnterminated`). `elf2mzip` without an output uses the NULL behind `argv`.

`ControlInv` says what each step of the code may assume of the output, `HeaderInv`
which fields of the header are set and in which order, `CrcInv` that the CRCs are those of
header and code from the moment they are stored, and `ImageInv` that the first `i`
segments are in place and all other bytes are 0 (`InPlace`). The least and
the greatest address of the segments exist by `LeastNatural` and `GreatestNatural`.

### ELFTool (`ElfToolProofs`)

For every set of files and size of a byte (`ElfToolAssumption`): `TablesShown`
(`ShowsTables`) and `ElfToolDefined` (`ToolStaysDefined`). `TableInv` says, for a file
that holds its tables, that the header's fields are the file's in host order
(`HeaderInv`), that the string table in memory is the file's (`NameInv`), and that in
each walk the position is that of the next entry and what has been shown are the
entries before it (`SectionsInv`, `SegmentsInv`). `UnreachedInv` keeps what a later
walk starts from empty. `EntryShown` is the one fact about a read: inside the file, with
the byte order known, it gives the entry. The second theorem takes from it that a name
is only missed in a file whose names lie outside its string table, and that machine id 6
is the only number without a name.

### printf (`PrintfProofs`)

`FormatNotLeft` holds for every format, cut short anywhere or not: the pointer never
passes the terminator. The other three theorems assume that the calls are `WellFormed`
(`FormatParse`), which is what C asks of the caller: the format can be taken apart into
literals and directives, each directive takes its own arguments and all of them are
taken, `%c` gets a character, `%s` a string or a null pointer, or the buffer itself when
it is a plain `%s` at the start, as in `main.c`, and a width is not the one int that
cannot be negated. Every call of the run is well formed; `MCPrintf` computes a parse of
each and TLC evaluates that it is one.

* `ArgumentsTaken` (`InsideFormat`) from `ParseInv`: vsprintf stands at the beginning of
  a piece of the parse, or in a known part of one, with the arguments taken that the
  pieces before it need. One lemma per part of a directive (`FlagRead`, `WidthRead`,
  `PrecisionRead`, `QualifierRead`, `ConversionRead`) shows that the code's greedy
  reading and the parse agree.
* `StringsWritten` (`StringsExact`) from `ParseInv` and `TextOK`, the types of what has
  been read and written. `CopyApart` and `CopyOwn` are inductions over the copied
  characters. In the second the source is the buffer that is written: at the start of the
  format each character is read before its cell is written with itself.
* `NumbersWritten` (`NumbersReadBack`) from the same invariant. `TmpNumeral` shows by
  strong induction over the word that the digits divided off it have its value, none of
  them a leading zero (`DivideOff`, `ValueAppend`); `LeadingZeros` adds the precision's
  zeros, `JustifyShown` places sign, prefix, zeros and spaces, and `NumAsked` shows that
  `h`'s truncation and sign extension and the negation of the least long give the value
  that is asked for.

Word, half word and pointer size are any that satisfy `PrintfAssumption`. Integers of
the format that do not fit an `int` are left out, as in the model.

### Assumptions and limits

The assumptions are the types of the constants and what the code's constants satisfy;
TLC evaluates them in the runs. Induction over data is done where it is needed without
operator parameters: `Induction` proves `LeastNatural` and `GreatestNatural` from the
well-foundedness of the naturals, `SetInduction` with a set for the predicate, and
`RecursiveFunction`, that a recursive function satisfies its equations.

Only model-checked:

* `BootableStarts`, `LoadersEnd`, `LoadEnds`, `WalkEnds`: liveness under fairness is
  out of the prover's reach.

## 5. Findings

Three statements of the repository's docs and comments do not hold of the code:

* `elf64_segments`: `load_elf64_file` does not seek back to the program header
  table after a segment (`elf_loader.c:235`), so at most the first PT_LOAD segment
  is read from the table. README says CILO exists to load several.
* `console_erase_empty`: on c1700 and c3600 an erase key on an empty line makes the
  index -1 and the next character is stored in front of the buffer.
* `boot_kernel_name`: a kernel name with arguments is terminated one place late
  (`main.c:69`); a stray character from an earlier prompt may follow it.
  `NameAtMostOneStray` shows that it is never more than one.

Met while modelling, without a run of its own: `strstr` accepts a needle without its
last character (`string.c:119`), so "consol" keeps the console setting from being
appended; `ArgumentsKept` states what is left of the promise.

## 6. Not modelled

The arithmetic of the CRC (a CRC is the bytes it covers), the PROM and UART calls of
`promlib.c` (device I/O), the start code (straight-line assembly), the storage
interface (no implementation), and what has no caller: `mzip_write`,
`mzip_write_footer`, `locate_stage_two`, `stage_two`, `strcmp`, `c_putsn`, `c_verstr`.
The assembler headers under `include/asm` are definitions for the start code. How IOS
writes the flash is external: a disk is files one directly behind the other.

Hazards met in code that is not modelled, or that no property can state from what the
repository says: `c_baud` of c3600 has no return statement (`promlib.c:204`), and it
and `c_timer` read `$a0` where the other calls take `$v0`; the c3600 start code saves
its return address as a word and loads it with a 64-bit `ld` (`start.S:47`), which
matters when `start_bootloader` returns without a flash (`Boot`'s "aborted");
`flash_directory` prints a name field with `%s` although a name that fills it has no
terminator (`platform.c:40`); the walk over the flash never reads the entries' seek
field (`platio.c:27`); a file that ends inside a table makes ELFTool swap and show the
previous entry again (`elftool.c:437`, followed by the model).

## 7. Plan

Done, in this order: ELF32 loader and its proofs; LZMA decoder and its proofs;
LZMA loader; probability tables; flash; console and line editor; prompt; ELF64
loader; host tools; printf; ELFTool; range coder and its proofs; the prompt composed
with the console.

Then the proofs: ELF64 loader; LZMA loader; console, line editor
and prompt; flash; host tools; ELFTool; printf; the probability table.

Next, modelling: the table-driven CRC of `mzip.c` against the bitwise definition;
`Boot` composed with the detailed loaders.
