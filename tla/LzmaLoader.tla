----------------------------- MODULE LzmaLoader -----------------------------
(***************************************************************************)
(* load_lzma and its input callback read_data (lzma_loader.c) around the   *)
(* decoder of module LzmaDecode: the file header, the refills of the input *)
(* buffer, the progress display and the start of the kernel.               *)
(*                                                                         *)
(* How many bytes a packet takes from the range coder is left open: a byte *)
(* may be read wherever the decoder decodes a bit.                         *)
(***************************************************************************)
EXTENDS LzmaDecode

CONSTANTS
  FileLens,   \* the lengths of files whose name holds "lzma"
  Chunk       \* the size of the input buffer, 512

PropsSize == 5     \* LZMA_PROPERTIES_SIZE
SizeSize  == 4     \* the half of the 64-bit size that is read, and the
                   \* half that is skipped
HeaderSize == PropsSize + 2 * SizeSize

ASSUME LoaderAssumption ==
  FileLens \subseteq U32 /\ Chunk \in Nat \ {0} /\ HeaderSize < Word

VARIABLES
  fp,          \* the file: file_len, file_pos
  propsOK,     \* whether the file's first byte is below 9 * 5 * 5
  avail,       \* BufferLim - Buffer
  rcLeft,      \* the bytes RC_INIT still has to read
  total_read, last,
  shown,       \* the numbers printed as progress
  consumed,    \* history: the bytes the range coder has taken
  lpc          \* "start", "decode", "failed", "kernel", or "trap" when the
               \* progress divides by a file length of 0

loader == <<fp, propsOK, avail, rcLeft, total_read, last, shown, consumed, lpc>>
vars   == <<decoder, loader>>

Init ==
  /\ DecodeInit      \* outSize is what the file's header will spell
  /\ fp \in [file_len: FileLens, file_pos: {0}]
  /\ propsOK \in BOOLEAN
  /\ avail = 0 /\ rcLeft = 5
  /\ total_read = 0 /\ last = 100 /\ shown = << >>
  /\ consumed = 0
  /\ lpc = "start"

-----------------------------------------------------------------------------
(* LzmaDecodeProperties refuses the first header byte.                     *)
RefuseProperties ==
  /\ lpc = "start" /\ ~propsOK
  /\ fp' = Advance(SeekSet(fp, 0), PropsSize)
  /\ lpc' = "failed"
  /\ UNCHANGED <<decoder, propsOK, avail, rcLeft, total_read, last, shown, consumed>>

(* The properties and the low half of the size are read, the high half is  *)
(* skipped with a seek, which stops at the end of the file.                *)
(* The mutants skip by hand, without that stop, and forget the high half.  *)
PastHeaderUnclamped(f) == Advance(SeekSet(f, 0), HeaderSize)

PastHeaderHalf(f) == Advance(Advance(SeekSet(f, 0), PropsSize), SizeSize)

PastHeader(f) ==
  SeekCur(Advance(Advance(SeekSet(f, 0), PropsSize), SizeSize), SizeSize)

ReadHeader ==
  /\ lpc = "start" /\ propsOK
  /\ fp' = PastHeader(fp)
  /\ lpc' = "decode"
  /\ UNCHANGED <<decoder, propsOK, avail, rcLeft, total_read, last, shown, consumed>>

-----------------------------------------------------------------------------
(* The decoder goes on with the bytes it has.                              *)
Decode ==
  /\ lpc = "decode"
  /\ DecodeStep
  /\ UNCHANGED loader

(* A byte may be needed: in RC_INIT and wherever a bit is decoded.         *)
MayRead ==
  /\ lpc = "decode"
  /\ dpc = "rcinit" \/ NeedsInput
  /\ dpc = "loop" => nowPos < outSize

(* RC_READ_BYTE, of which RC_INIT does five.                               *)
TakeByte ==
  /\ consumed' = consumed + 1
  /\ IF dpc = "rcinit"
     THEN rcLeft' = rcLeft - 1 /\ IF rcLeft = 1 THEN RcReady ELSE UNCHANGED decoder
     ELSE UNCHANGED <<rcLeft, decoder>>

ReadBuffered ==
  /\ MayRead /\ avail > 0
  /\ avail' = avail - 1
  /\ TakeByte
  /\ UNCHANGED <<fp, propsOK, total_read, last, shown, lpc>>

(* read_data: the next chunk.                                              *)
ChunkSize(f) ==
  LET rest == U32Sub(f.file_len, f.file_pos)
  IN  IF rest > Chunk THEN Chunk ELSE rest

Done(total) == ((total * 100) % Word) \div fp.file_len

(* The mutant forgets which number was printed last.                       *)
ShowsNumberAgain(done) == done % 10 = 0

ShowsNumber(done) == done % 10 = 0 /\ done # last

ShowsDot(done) == ~ShowsNumber(done) /\ done # last /\ done % 2 = 0

ReadData(size) ==
  LET done == Done(total_read + size)
  IN  /\ total_read' = total_read + size
      /\ shown' = IF ShowsNumber(done) THEN Append(shown, done) ELSE shown
      /\ last' = IF ShowsNumber(done) \/ ShowsDot(done) THEN done ELSE last
      /\ fp' = Advance(fp, size)

ReadRefill ==
  /\ MayRead /\ avail = 0
  /\ fp.file_pos <= fp.file_len /\ fp.file_len # 0
  /\ LET size == ChunkSize(fp)
     IN  /\ size # 0
         /\ ReadData(size)
         /\ avail' = size - 1
  /\ TakeByte
  /\ UNCHANGED <<propsOK, lpc>>

(* The mutant of ReadNothing takes a byte from behind the buffer.          *)
ReadNothingAnyway ==
  /\ MayRead /\ avail = 0
  /\ fp.file_pos <= fp.file_len /\ fp.file_len # 0 /\ ChunkSize(fp) = 0
  /\ ReadData(0)
  /\ UNCHANGED <<propsOK, avail, consumed, lpc>>
  /\ IF dpc = "rcinit"
     THEN rcLeft' = rcLeft - 1 /\ IF rcLeft = 1 THEN RcReady ELSE UNCHANGED decoder
     ELSE UNCHANGED <<rcLeft, decoder>>

(* The file is used up: read_data gives a chunk of 0 bytes, RC_TEST an     *)
(* error.                                                                  *)
ReadNothing ==
  /\ MayRead /\ avail = 0
  /\ fp.file_pos <= fp.file_len /\ fp.file_len # 0 /\ ChunkSize(fp) = 0
  /\ ReadData(0)
  /\ InputEnds
  /\ UNCHANGED <<propsOK, avail, rcLeft, consumed, lpc>>

(* "FATAL: Attempt to read past end of file."  NeverPastEnd states that    *)
(* this is not reached, so it is no step of Next.                          *)
ReadPastEnd == MayRead /\ avail = 0 /\ fp.file_pos > fp.file_len

(* An empty file with a plausible first byte behind it.                    *)
DivideByZero ==
  /\ MayRead /\ avail = 0
  /\ fp.file_pos <= fp.file_len /\ fp.file_len = 0
  /\ lpc' = "trap"
  /\ UNCHANGED <<decoder, fp, propsOK, avail, rcLeft, total_read, last, shown, consumed>>

-----------------------------------------------------------------------------
DecodeFailed ==
  /\ lpc = "decode" /\ dpc = "error"
  /\ lpc' = "failed"
  /\ UNCHANGED <<decoder, fp, propsOK, avail, rcLeft, total_read, last, shown, consumed>>

(* "100", "Starting kernel", and the jump to load_address.                 *)
StartKernel ==
  /\ lpc = "decode" /\ dpc = "ok"
  /\ shown' = Append(shown, 100)
  /\ lpc' = "kernel"
  /\ UNCHANGED <<decoder, fp, propsOK, avail, rcLeft, total_read, last, consumed>>

Next ==
  \/ RefuseProperties
  \/ ReadHeader
  \/ Decode
  \/ ReadBuffered
  \/ ReadRefill
  \/ ReadNothing
  \/ DivideByZero
  \/ DecodeFailed
  \/ StartKernel

(* Sequential code that waits for nothing.                                 *)
Fairness == WF_vars(Next)

Spec == Init /\ [][Next]_vars /\ Fairness

-----------------------------------------------------------------------------
(* read_data's "read past end of file" branch is dead: the header seek     *)
(* stops at the end of a file shorter than the header, and every chunk is  *)
(* cut to what is left.                                                    *)
NeverPastEnd ==
  /\ lpc = "decode" => fp.file_pos <= fp.file_len
  /\ ~ReadPastEnd

(* The range coder gets the file's bytes from the end of the header on,    *)
(* each one once and in order: what it has taken and what is buffered is   *)
(* exactly what lies between the header and the file position.             *)
StreamContiguous ==
  lpc = "decode" /\ fp.file_len >= HeaderSize =>
    /\ fp.file_pos = HeaderSize + consumed + avail
    /\ total_read = consumed + avail

(* The progress shown only grows, and 100 is shown once, when the kernel   *)
(* starts: the header is not counted in total_read, so read_data cannot    *)
(* reach it.  (For files whose length times 100 fits in 32 bits.)          *)
ProgressGrows ==
  fp.file_len * 100 < Word =>
    /\ \A j, k \in 1 .. Len(shown) : j < k => shown[j] < shown[k]
    /\ \A k \in 1 .. Len(shown) : shown[k] = 100 <=> lpc = "kernel" /\ k = Len(shown)

(* A truncated file is never started: a started kernel is the whole output *)
(* or ends with an end marker, decoded from bytes of its own file only.    *)
StartedFromWholeFile ==
  lpc = "kernel" =>
    /\ nowPos = outSize \/ len = -1
    /\ consumed >= 5 /\ HeaderSize + consumed <= fp.file_len

(* load_lzma always ends.                                                  *)
LoadEnds == <>(lpc \in {"failed", "kernel", "trap"})
=============================================================================
