----------------------------- MODULE LzmaDecode -----------------------------
(***************************************************************************)
(* The packet loop of LzmaDecode (LzmaDecode.c), built with _LZMA_IN_CB    *)
(* and without _LZMA_OUT_READ: literals, matches and repeated matches over *)
(* the output buffer, which is its own dictionary.                         *)
(*                                                                         *)
(* What the range coder decodes is the file's choice: every bit that       *)
(* selects a packet, a byte, a length or a distance is an \E.  The bytes   *)
(* it needs come from RC_TEST, which may end the decoding at any of them.  *)
(***************************************************************************)
EXTENDS CiloIO, LzmaConstants, Sequences

CONSTANTS
  Byte,        \* the values of an output byte
  OutSizes,    \* the decompressed sizes the file header may state
  Lens,        \* the match lengths before kMatchMinLen is added (0 .. 271)
  Distances    \* the values of rep0 after "++rep0"; 0 is the end marker

UNWRITTEN == -3     \* a cell of outStream nothing has been stored in

ASSUME LzmaAssumption ==
  /\ 0 \in Byte /\ UNWRITTEN \notin Byte
  /\ OutSizes \subseteq U32
  /\ Lens \subseteq Nat
  /\ Distances \subseteq U32

VARIABLES
  outSize, outStream, nowPos, previousByte,
  state, rep0, rep1, rep2, rep3, len,
  dpc   \* "rcinit", "loop", "length", "distance", "check", "copy",
        \* "finish", and the results "ok" and "error"

decoder == <<outSize, outStream, nowPos, previousByte,
             state, rep0, rep1, rep2, rep3, len, dpc>>

DecodeInit ==
  /\ outSize \in OutSizes
  /\ outStream = [k \in 0 .. outSize - 1 |-> UNWRITTEN]
  /\ nowPos = 0
  /\ previousByte = 0
  /\ state = 0
  /\ rep0 = 1 /\ rep1 = 1 /\ rep2 = 1 /\ rep3 = 1
  /\ len = 0
  /\ dpc = "rcinit"

-----------------------------------------------------------------------------
(* outStream[nowPos++] = b, for every packet that emits a byte.            *)
Emit(b) ==
  /\ outStream' = [outStream EXCEPT ![nowPos] = b]
  /\ nowPos' = nowPos + 1
  /\ previousByte' = b

(* The state after a literal.                                              *)
LiteralState(s) == IF s < 4 THEN 0 ELSE IF s < 10 THEN s - 3 ELSE s - 6

AfterLit(s, lit, match) == IF s < kNumLitStates THEN lit ELSE match

(* RC_INIT has its five bytes.                                             *)
RcReady ==
  /\ dpc = "rcinit"
  /\ dpc' = "loop"
  /\ UNCHANGED <<outSize, outStream, nowPos, previousByte,
                 state, rep0, rep1, rep2, rep3, len>>

(* A literal.  In a match state the byte at nowPos - rep0 steers which     *)
(* probabilities are used, not which symbols can be decoded.               *)
LiteralPacket ==
  /\ dpc = "loop" /\ nowPos < outSize
  /\ \E b \in Byte : Emit(b)
  /\ state' = LiteralState(state)
  /\ UNCHANGED <<outSize, rep0, rep1, rep2, rep3, len, dpc>>

(* A match with a new distance: the length, then the distance follow.      *)
Match ==
  /\ dpc = "loop" /\ nowPos < outSize
  /\ rep3' = rep2 /\ rep2' = rep1 /\ rep1' = rep0
  /\ state' = AfterLit(state, 0, 3)
  /\ dpc' = "length"
  /\ UNCHANGED <<outSize, outStream, nowPos, previousByte, rep0, len>>

(* One byte at the last distance; there is none before the first byte.     *)
(* The mutant omits that test and reads before the buffer.                 *)
ShortRepUnchecked ==
  /\ dpc = "loop" /\ nowPos < outSize
  /\ IF nowPos < rep0 THEN Emit(UNWRITTEN) ELSE Emit(outStream[nowPos - rep0])
  /\ state' = AfterLit(state, 9, 11)
  /\ UNCHANGED <<outSize, rep0, rep1, rep2, rep3, len, dpc>>

ShortRep ==
  /\ dpc = "loop" /\ nowPos < outSize
  /\ nowPos # 0
  /\ Emit(outStream[nowPos - rep0])
  /\ state' = AfterLit(state, 9, 11)
  /\ UNCHANGED <<outSize, rep0, rep1, rep2, rep3, len, dpc>>

ShortRepAtStart ==
  /\ dpc = "loop" /\ nowPos < outSize
  /\ nowPos = 0
  /\ dpc' = "error"
  /\ UNCHANGED <<outSize, outStream, nowPos, previousByte,
                 state, rep0, rep1, rep2, rep3, len>>

(* Mutant of RepShuffle: "rep2 = rep1" is only done for the last distance. *)
RepShuffleKeepsRep2(j) ==
  CASE j = 0 -> UNCHANGED <<rep0, rep1, rep2, rep3>>
    [] j = 1 -> rep0' = rep1 /\ rep1' = rep0 /\ UNCHANGED <<rep2, rep3>>
    [] j = 2 -> rep0' = rep2 /\ rep1' = rep0 /\ UNCHANGED <<rep2, rep3>>
    [] j = 3 -> rep0' = rep3 /\ rep3' = rep2 /\ rep2' = rep1 /\ rep1' = rep0

(* The assignments of the nested IsRepG0, IsRepG1, IsRepG2 branches.       *)
RepShuffle(j) ==
  CASE j = 0 -> UNCHANGED <<rep0, rep1, rep2, rep3>>
    [] j = 1 -> rep0' = rep1 /\ rep1' = rep0 /\ UNCHANGED <<rep2, rep3>>
    [] j = 2 -> rep0' = rep2 /\ rep2' = rep1 /\ rep1' = rep0 /\ UNCHANGED rep3
    [] j = 3 -> rep0' = rep3 /\ rep3' = rep2 /\ rep2' = rep1 /\ rep1' = rep0

(* A match at one of the four last distances: only the length follows.     *)
LongRep ==
  /\ dpc = "loop" /\ nowPos < outSize
  /\ \E j \in 0 .. 3 : RepShuffle(j)
  /\ state' = AfterLit(state, 8, 11)
  /\ dpc' = "length"
  /\ UNCHANGED <<outSize, outStream, nowPos, previousByte, len>>

-----------------------------------------------------------------------------
DecodeLength ==
  /\ dpc = "length"
  /\ len' \in Lens
  /\ dpc' = IF state < 4 THEN "distance" ELSE "check"
  /\ UNCHANGED <<outSize, outStream, nowPos, previousByte,
                 state, rep0, rep1, rep2, rep3>>

(* The distance slot and its direct and aligned bits.  When ++rep0 wraps   *)
(* to 0 the stream has ended: len = kLzmaStreamWasFinishedId; break.       *)
DecodeDistance ==
  /\ dpc = "distance"
  /\ state' = state + kNumLitStates
  /\ rep0' \in Distances
  /\ IF rep0' = 0 THEN len' = -1 /\ dpc' = "finish"
                  ELSE len' = len /\ dpc' = "check"
  /\ UNCHANGED <<outSize, outStream, nowPos, previousByte, rep1, rep2, rep3>>

(* Mutant of OutsideWindow: one byte too far is let through.               *)
OutsideWindowByOne(d, n) == d > n + 1

(* A distance may not reach back beyond the first output byte.             *)
OutsideWindow(d, n) == d > n

CheckDistance ==
  /\ dpc = "check"
  /\ len' = len + kMatchMinLen
  /\ dpc' = IF OutsideWindow(rep0, nowPos) THEN "error" ELSE "copy"
  /\ UNCHANGED <<outSize, outStream, nowPos, previousByte,
                 state, rep0, rep1, rep2, rep3>>

(* Mutant of MoreToCopy: the end of the output is not looked at.           *)
MoreToCopyUnbounded(l, n) == l # 0

MoreToCopy(l, n) == l # 0 /\ n < outSize

(* Mutant of CopyByte: the output position stays.                          *)
CopyByteInPlace ==
  /\ dpc = "copy"
  /\ previousByte' = outStream[nowPos - rep0]
  /\ outStream' = [outStream EXCEPT ![nowPos] = previousByte']
  /\ len' = len - 1
  /\ dpc' = IF MoreToCopy(len', nowPos) THEN "copy" ELSE "loop"
  /\ UNCHANGED <<outSize, nowPos, state, rep0, rep1, rep2, rep3>>

(* One pass of the copy loop.  A match may run past the end of the output: *)
(* what is left of it is dropped.                                          *)
CopyByte ==
  /\ dpc = "copy"
  /\ Emit(outStream[nowPos - rep0])
  /\ len' = len - 1
  /\ dpc' = IF MoreToCopy(len', nowPos') THEN "copy" ELSE "loop"
  /\ UNCHANGED <<outSize, state, rep0, rep1, rep2, rep3>>

-----------------------------------------------------------------------------
(* The output is full: the loop ends.                                      *)
OutputFull ==
  /\ dpc = "loop" /\ nowPos >= outSize
  /\ dpc' = "finish"
  /\ UNCHANGED <<outSize, outStream, nowPos, previousByte,
                 state, rep0, rep1, rep2, rep3, len>>

(* The last RC_NORMALIZE is over: *outSizeProcessed = nowPos, return OK.   *)
ReturnOk ==
  /\ dpc = "finish"
  /\ dpc' = "ok"
  /\ UNCHANGED <<outSize, outStream, nowPos, previousByte,
                 state, rep0, rep1, rep2, rep3, len>>

(* The packet decoding proper, RC_INIT aside.                              *)
DecodeStep ==
  \/ LiteralPacket
  \/ Match
  \/ ShortRep
  \/ ShortRepAtStart
  \/ LongRep
  \/ DecodeLength
  \/ DecodeDistance
  \/ CheckDistance
  \/ CopyByte
  \/ OutputFull
  \/ ReturnOk

(* The places where a bit is decoded, and so a byte may be needed.         *)
NeedsInput == dpc \in {"loop", "length", "distance", "finish"}

(* Mutant of InputEnds: the end of the input passes for the end of the     *)
(* stream.                                                                 *)
InputEndsAsDone ==
  /\ dpc = "rcinit" \/ NeedsInput
  /\ dpc = "loop" => nowPos < outSize
  /\ dpc' = "ok"
  /\ UNCHANGED <<outSize, outStream, nowPos, previousByte,
                 state, rep0, rep1, rep2, rep3, len>>

(* RC_TEST finds no more input, in whatever branch: return DATA_ERROR.     *)
InputEnds ==
  /\ dpc = "rcinit" \/ NeedsInput
  /\ dpc = "loop" => nowPos < outSize
  /\ dpc' = "error"
  /\ UNCHANGED <<outSize, outStream, nowPos, previousByte,
                 state, rep0, rep1, rep2, rep3, len>>

DecodeNext == RcReady \/ DecodeStep \/ InputEnds

DecodeSpec == DecodeInit /\ [][DecodeNext]_decoder

-----------------------------------------------------------------------------
DecodeTypeOK ==
  /\ outSize \in OutSizes
  /\ outStream \in [0 .. outSize - 1 -> Byte \cup {UNWRITTEN}]
  /\ nowPos \in U32
  /\ previousByte \in Byte
  /\ state \in 0 .. kNumStates - 1
  /\ {rep0, rep1, rep2, rep3} \subseteq U32
  /\ len \in Nat \cup {-1}
  /\ dpc \in {"rcinit", "loop", "length", "distance", "check", "copy",
              "finish", "ok", "error"}

(* Every read of outStream[nowPos - rep0] falls on a byte that has been    *)
(* written: in the copy loop, for a short repeat, and for a literal that   *)
(* follows a match (state >= kNumLitStates), where nothing is tested.      *)
WindowReads ==
  /\ dpc = "copy" => rep0 \in 1 .. nowPos
  /\ dpc = "loop" /\ nowPos # 0 => rep0 \in 1 .. nowPos
  /\ dpc = "loop" /\ state >= kNumLitStates => rep0 \in 1 .. nowPos

(* No write leaves outStream[0 .. outSize - 1]: a match longer than the    *)
(* room left is cut, and the do-while copy loop is entered with room for   *)
(* one byte.                                                               *)
OutputBounds ==
  /\ nowPos <= outSize
  /\ dpc = "copy" => nowPos < outSize /\ len >= 1

(* The output is a gapless prefix: the cells below nowPos and no others    *)
(* have been given a byte, and no copy picks up a cell before it is set.   *)
WrittenPrefix ==
  \A k \in 0 .. outSize - 1 : outStream[k] # UNWRITTEN <=> k < nowPos

(* LZMA_RESULT_OK means the whole output or an end marker: input that runs *)
(* out, a bad distance or a short repeat at the start never gives OK.      *)
OkMeansComplete == dpc = "ok" => nowPos = outSize \/ len = -1

(* A repeated match moves one of the four last distances to the front and  *)
(* keeps the order of the others; none is lost or doubled.                 *)
reps == <<rep0, rep1, rep2, rep3>>

MoveToFront(s, j) ==
  [k \in 1 .. 4 |-> IF k = 1 THEN s[j] ELSE IF k <= j THEN s[k - 1] ELSE s[k]]

RepsMoveToFront ==
  [][dpc = "loop" /\ dpc' = "length" /\ state' >= kNumLitStates
       => \E j \in 1 .. 4 : reps' = MoveToFront(reps, j)]_decoder
=============================================================================
