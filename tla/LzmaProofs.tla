----------------------------- MODULE LzmaProofs -----------------------------
(***************************************************************************)
(* The LZMA decoder and its loader.                                        *)
(*                                                                         *)
(* First, window safety of LzmaDecode, for every output size and every set *)
(* of lengths and distances a stream can encode.  The reads of             *)
(* outStream[nowPos - rep0] are only partly tested in the code.  What      *)
(* makes the untested ones safe is that every distance that was ever let   *)
(* through still fits, because nowPos only grows; that the initial         *)
(* distance 1 is only used once there is a byte; and that a state from     *)
(* kNumLitStates on means that a match has emitted one.                    *)
(*                                                                         *)
(* Then load_lzma and read_data around the decoder, for every file length, *)
(* every size of the input buffer and every stream.  The loader's steps    *)
(* are steps of the decoder or leave it alone, so what is proved of the    *)
(* decoder holds of the loaded kernel.  The loader's own invariant ties    *)
(* the position in the file to the bytes the range coder has taken.        *)
(*                                                                         *)
(* Then the range coder under the decoder, for every size of word, byte    *)
(* and probability that satisfies CoderAssumption (the code's own do), any *)
(* number of probabilities and every stream.  Last, the probability table: *)
(* every index a decision computes from the file's first byte, a position  *)
(* and a byte lies in it, and the distance slots tile the distances.       *)
(***************************************************************************)
EXTENDS LzmaLoader, RangeDecoder, LzmaTables, Induction

(* A distance that fits the window, or the initial 1.                      *)
Fits(r) == r >= 1 /\ (r = 1 \/ r <= nowPos)

Between == {"rcinit", "loop", "length", "distance"}

RepInv ==
  /\ dpc \in Between \cup {"check", "copy"} => Fits(rep1) /\ Fits(rep2) /\ Fits(rep3)
  /\ dpc \in Between => Fits(rep0)
  /\ dpc = "check" => rep0 >= 1
  /\ dpc = "copy" => rep0 >= 1 /\ rep0 <= nowPos

StateInv ==
  /\ dpc = "rcinit" => state = 0
  /\ dpc = "loop" /\ state >= 7 => nowPos >= 1
  /\ dpc = "length" => state \in {0, 3, 8, 11}
  /\ dpc = "distance" => state \in {0, 3}
  /\ dpc \in {"distance", "check"} => len \in Nat

RoomInv ==
  /\ nowPos <= outSize
  /\ dpc \in {"length", "distance", "check"} => nowPos < outSize
  /\ dpc = "copy" => nowPos < outSize /\ len \in Nat /\ len >= 1

DecodeInv == DecodeTypeOK /\ RepInv /\ StateInv /\ RoomInv /\ WrittenPrefix

(* The facts of DecodeTypeOK in the form the arithmetic needs.             *)
LEMMA Numbers ==
  ASSUME DecodeTypeOK
  PROVE  /\ nowPos \in Nat /\ outSize \in Nat /\ outSize < Word /\ Word \in Nat
         /\ state \in 0 .. 11 /\ len \in Int
         /\ rep0 \in Nat /\ rep1 \in Nat /\ rep2 \in Nat /\ rep3 \in Nat
BY LzmaAssumption, WordAssumption DEF DecodeTypeOK, U32, kNumStates

(* Emitting a byte at a position with room extends the written prefix.     *)
LEMMA EmitPrefix ==
  ASSUME DecodeTypeOK, WrittenPrefix, nowPos < outSize, outSize' = outSize,
         NEW b \in Byte, b # UNWRITTEN, Emit(b)
  PROVE  /\ outStream' \in [0 .. outSize - 1 -> Byte \cup {UNWRITTEN}]
         /\ nowPos' = nowPos + 1 /\ nowPos' \in U32 /\ previousByte' \in Byte
         /\ nowPos' <= outSize
         /\ WrittenPrefix'
<1>1. nowPos \in Nat /\ outSize \in Nat /\ outSize < Word /\ Word \in Nat
  BY Numbers
<1>2. /\ outStream' = [outStream EXCEPT ![nowPos] = b]
      /\ nowPos' = nowPos + 1 /\ previousByte' = b
  BY DEF Emit
<1>3. outStream \in [0 .. outSize - 1 -> Byte \cup {UNWRITTEN}]
  BY DEF DecodeTypeOK
<1>4. nowPos \in 0 .. outSize - 1
  BY <1>1
<1>5. outStream' \in [0 .. outSize - 1 -> Byte \cup {UNWRITTEN}]
  BY <1>2, <1>3
<1>6. nowPos' \in U32 /\ nowPos' <= outSize
  BY <1>1, <1>2 DEF U32
<1>7. ASSUME NEW k \in 0 .. outSize - 1
      PROVE  outStream'[k] # UNWRITTEN <=> k < nowPos'
  <2>1. CASE k = nowPos
    BY <1>1, <1>2, <1>3, <2>1
  <2>2. CASE k # nowPos
    <3>1. outStream'[k] = outStream[k]
      BY <1>2, <1>3, <2>2
    <3> QED BY <1>1, <1>2, <2>2, <3>1 DEF WrittenPrefix
  <2> QED BY <2>1, <2>2
<1>8. WrittenPrefix'
  BY <1>7 DEF WrittenPrefix
<1> QED BY <1>2, <1>5, <1>6, <1>8

(* A read inside the window yields a byte of the output.                   *)
LEMMA WindowByte ==
  ASSUME DecodeTypeOK, WrittenPrefix, nowPos <= outSize, rep0 >= 1, rep0 <= nowPos
  PROVE  outStream[nowPos - rep0] \in Byte /\ outStream[nowPos - rep0] # UNWRITTEN
<1>1. nowPos \in Nat /\ outSize \in Nat /\ rep0 \in Nat
  BY Numbers
<1>2. nowPos - rep0 \in 0 .. outSize - 1 /\ nowPos - rep0 < nowPos
  BY <1>1
<1>3. outStream[nowPos - rep0] # UNWRITTEN
  BY <1>2 DEF WrittenPrefix
<1> QED BY <1>2, <1>3 DEF DecodeTypeOK

LEMMA DecodeInvInit == DecodeInit => DecodeInv
<1> SUFFICES ASSUME DecodeInit PROVE DecodeInv
  OBVIOUS
<1>1. outSize \in Nat /\ outSize \in OutSizes
  BY LzmaAssumption, WordAssumption DEF DecodeInit, U32
<1>2. DecodeTypeOK
  BY <1>1, LzmaAssumption, WordAssumption DEF DecodeInit, DecodeTypeOK, U32, kNumStates
<1>3. RepInv /\ StateInv /\ RoomInv
  BY <1>1 DEF DecodeInit, RepInv, StateInv, RoomInv, Fits, Between
<1>4. WrittenPrefix
  BY <1>1 DEF DecodeInit, WrittenPrefix
<1> QED BY <1>2, <1>3, <1>4 DEF DecodeInv

(* Steps that leave the output alone.                                      *)
LEMMA QuietOutput ==
  ASSUME WrittenPrefix, UNCHANGED <<outSize, outStream, nowPos>>
  PROVE  WrittenPrefix'
BY DEF WrittenPrefix

LEMMA InvRcReady == DecodeInv /\ RcReady => DecodeInv'
<1> SUFFICES ASSUME DecodeInv, RcReady PROVE DecodeInv'
  OBVIOUS
<1>1. WrittenPrefix'
  BY QuietOutput DEF DecodeInv, RcReady
<1> QED BY <1>1 DEF DecodeInv, RcReady, DecodeTypeOK, RepInv, StateInv, RoomInv, Fits, Between

LEMMA InvMatch == DecodeInv /\ Match => DecodeInv'
<1> SUFFICES ASSUME DecodeInv, Match PROVE DecodeInv'
  OBVIOUS
<1>1. WrittenPrefix'
  BY QuietOutput DEF DecodeInv, Match
<1>2. state' \in {0, 3}
  BY DEF Match, AfterLit
<1>3. DecodeTypeOK'
  BY <1>2 DEF DecodeInv, Match, DecodeTypeOK, kNumStates
<1>4. RepInv' /\ StateInv' /\ RoomInv'
  BY <1>2 DEF DecodeInv, Match, RepInv, StateInv, RoomInv, Fits, Between
<1> QED BY <1>1, <1>3, <1>4 DEF DecodeInv

LEMMA InvLongRep == DecodeInv /\ LongRep => DecodeInv'
<1> SUFFICES ASSUME DecodeInv, LongRep PROVE DecodeInv'
  OBVIOUS
<1>1. WrittenPrefix'
  BY QuietOutput DEF DecodeInv, LongRep
<1>2. state' \in {8, 11}
  BY DEF LongRep, AfterLit
<1>3. PICK j \in 0 .. 3 : RepShuffle(j)
  BY DEF LongRep
<1>4. /\ rep0' \in {rep0, rep1, rep2, rep3} /\ rep1' \in {rep0, rep1, rep2, rep3}
      /\ rep2' \in {rep0, rep1, rep2, rep3} /\ rep3' \in {rep0, rep1, rep2, rep3}
  <2>1. CASE j = 0
    BY <1>3, <2>1 DEF RepShuffle
  <2>2. CASE j = 1
    BY <1>3, <2>2 DEF RepShuffle
  <2>3. CASE j = 2
    BY <1>3, <2>3 DEF RepShuffle
  <2>4. CASE j = 3
    BY <1>3, <2>4 DEF RepShuffle
  <2> QED BY <2>1, <2>2, <2>3, <2>4
<1>5. DecodeTypeOK'
  BY <1>2, <1>4 DEF DecodeInv, LongRep, DecodeTypeOK, kNumStates
<1>6. RepInv' /\ StateInv' /\ RoomInv'
  BY <1>2, <1>4 DEF DecodeInv, LongRep, RepInv, StateInv, RoomInv, Fits, Between
<1> QED BY <1>1, <1>5, <1>6 DEF DecodeInv

LEMMA InvEnds ==
  DecodeInv /\ (ShortRepAtStart \/ OutputFull \/ ReturnOk \/ InputEnds) => DecodeInv'
<1> SUFFICES ASSUME DecodeInv, ShortRepAtStart \/ OutputFull \/ ReturnOk \/ InputEnds
             PROVE  DecodeInv'
  OBVIOUS
<1>1. /\ UNCHANGED <<outSize, outStream, nowPos, previousByte,
                     state, rep0, rep1, rep2, rep3, len>>
      /\ dpc' \in {"error", "finish", "ok"}
  BY DEF ShortRepAtStart, OutputFull, ReturnOk, InputEnds
<1>2. WrittenPrefix'
  BY <1>1, QuietOutput DEF DecodeInv
<1> QED BY <1>1, <1>2 DEF DecodeInv, DecodeTypeOK, RepInv, StateInv, RoomInv, Between

LEMMA InvLength == DecodeInv /\ DecodeLength => DecodeInv'
<1> SUFFICES ASSUME DecodeInv, DecodeLength PROVE DecodeInv'
  OBVIOUS
<1>1. WrittenPrefix'
  BY QuietOutput DEF DecodeInv, DecodeLength
<1>2. len' \in Nat
  BY LzmaAssumption DEF DecodeLength
<1>3. DecodeTypeOK'
  BY <1>2 DEF DecodeInv, DecodeLength, DecodeTypeOK
<1>4. RepInv' /\ RoomInv'
  BY DEF DecodeInv, DecodeLength, RepInv, RoomInv, Fits, Between
<1>5. StateInv'
  BY <1>2 DEF DecodeInv, DecodeLength, StateInv
<1> QED BY <1>1, <1>3, <1>4, <1>5 DEF DecodeInv

(* A new distance is only known to be a 32-bit value other than 0.         *)
LEMMA InvDistance == DecodeInv /\ DecodeDistance => DecodeInv'
<1> SUFFICES ASSUME DecodeInv, DecodeDistance PROVE DecodeInv'
  OBVIOUS
<1>1. WrittenPrefix'
  BY QuietOutput DEF DecodeInv, DecodeDistance
<1>2. rep0' \in U32 /\ rep0' \in Nat
  BY LzmaAssumption, WordAssumption DEF DecodeDistance, U32
<1>3. state' \in {7, 10}
  BY DEF DecodeInv, DecodeDistance, StateInv, kNumLitStates
<1>4. len \in Nat
  BY DEF DecodeInv, DecodeDistance, StateInv
<1>5. CASE rep0' = 0
  <2>1. len' = -1 /\ dpc' = "finish"
    BY <1>5 DEF DecodeDistance
  <2> QED BY <1>1, <1>2, <1>3, <2>1
          DEF DecodeInv, DecodeDistance, DecodeTypeOK, RepInv, StateInv, RoomInv,
              Between, kNumStates
<1>6. CASE rep0' # 0
  <2>1. len' = len /\ dpc' = "check" /\ rep0' >= 1
    BY <1>2, <1>6 DEF DecodeDistance
  <2>2. DecodeTypeOK'
    BY <1>2, <1>3, <2>1 DEF DecodeInv, DecodeDistance, DecodeTypeOK, kNumStates
  <2>3. RepInv'
    BY <2>1 DEF DecodeInv, DecodeDistance, RepInv, Between, Fits
  <2>4. StateInv' /\ RoomInv'
    BY <1>4, <2>1 DEF DecodeInv, DecodeDistance, StateInv, RoomInv
  <2> QED BY <1>1, <2>2, <2>3, <2>4 DEF DecodeInv
<1> QED BY <1>5, <1>6

LEMMA InvCheck == DecodeInv /\ CheckDistance => DecodeInv'
<1> SUFFICES ASSUME DecodeInv, CheckDistance PROVE DecodeInv'
  OBVIOUS
<1>1. WrittenPrefix'
  BY QuietOutput DEF DecodeInv, CheckDistance
<1>2. len' \in Nat /\ len' >= 1
  BY DEF DecodeInv, CheckDistance, StateInv, kMatchMinLen
<1>3. nowPos \in Nat /\ rep0 \in Nat
  BY Numbers DEF DecodeInv
<1>4. DecodeTypeOK'
  BY <1>2 DEF DecodeInv, CheckDistance, DecodeTypeOK
<1>5. RepInv'
  BY <1>3 DEF DecodeInv, CheckDistance, RepInv, Fits, Between, OutsideWindow
<1>6. StateInv' /\ RoomInv'
  BY <1>2 DEF DecodeInv, CheckDistance, StateInv, RoomInv
<1> QED BY <1>1, <1>4, <1>5, <1>6 DEF DecodeInv

(* A growing output keeps every distance that fitted.                      *)
LEMMA FitsGrows ==
  ASSUME nowPos \in Nat, nowPos' = nowPos + 1, NEW r \in Nat, Fits(r)
  PROVE  r >= 1 /\ (r = 1 \/ r <= nowPos')
BY DEF Fits

LEMMA InvCopy == DecodeInv /\ CopyByte => DecodeInv'
<1> SUFFICES ASSUME DecodeInv, CopyByte PROVE DecodeInv'
  OBVIOUS
<1> DEFINE b == outStream[nowPos - rep0]
<1>1. /\ nowPos \in Nat /\ outSize \in Nat /\ rep0 \in Nat /\ rep1 \in Nat
      /\ rep2 \in Nat /\ rep3 \in Nat /\ len \in Int
  BY Numbers DEF DecodeInv
<1>2. /\ rep0 >= 1 /\ rep0 <= nowPos /\ nowPos < outSize /\ len \in Nat /\ len >= 1
      /\ Fits(rep1) /\ Fits(rep2) /\ Fits(rep3)
  BY DEF DecodeInv, CopyByte, RepInv, RoomInv
<1>3. b \in Byte /\ b # UNWRITTEN
  BY <1>2, WindowByte DEF DecodeInv, RoomInv
<1>4. Emit(b) /\ outSize' = outSize
  BY DEF CopyByte
<1> HIDE DEF b
<1>5. /\ outStream' \in [0 .. outSize - 1 -> Byte \cup {UNWRITTEN}]
      /\ nowPos' = nowPos + 1 /\ nowPos' \in U32 /\ previousByte' \in Byte
      /\ nowPos' <= outSize
      /\ WrittenPrefix'
  BY <1>2, <1>3, <1>4, EmitPrefix DEF DecodeInv
<1>6. len' = len - 1 /\ len' \in Nat
  BY <1>2 DEF CopyByte
<1>7. /\ UNCHANGED <<outSize, state, rep0, rep1, rep2, rep3>>
      /\ dpc' \in {"copy", "loop"}
      /\ dpc' = "copy" => len' # 0 /\ nowPos' < outSize
  BY DEF CopyByte, MoreToCopy
<1>8. DecodeTypeOK'
  BY <1>5, <1>6, <1>7 DEF DecodeInv, DecodeTypeOK
<1>9. RepInv'
  <2>1. Fits(rep1)' /\ Fits(rep2)' /\ Fits(rep3)' /\ Fits(rep0)' /\ rep0' <= nowPos'
    BY <1>1, <1>2, <1>5, <1>7, FitsGrows DEF Fits
  <2> QED BY <1>2, <1>7, <2>1 DEF RepInv, Between
<1>10. StateInv'
  BY <1>1, <1>5, <1>7 DEF StateInv
<1>11. RoomInv'
  <2>1. len' # 0 => len' >= 1
    BY <1>2, <1>6
  <2> QED BY <1>5, <1>6, <1>7, <2>1 DEF RoomInv
<1> QED BY <1>5, <1>8, <1>9, <1>10, <1>11 DEF DecodeInv

(* A literal and a short repeat emit one byte and stay in the loop.        *)
LEMMA InvEmit ==
  ASSUME DecodeInv, NEW b \in Byte, b # UNWRITTEN, Emit(b),
         dpc = "loop", nowPos < outSize, state' \in 0 .. 11,
         UNCHANGED <<outSize, rep0, rep1, rep2, rep3, len, dpc>>
  PROVE  DecodeInv'
<1>1. /\ nowPos \in Nat /\ outSize \in Nat /\ rep0 \in Nat /\ rep1 \in Nat
      /\ rep2 \in Nat /\ rep3 \in Nat
  BY Numbers DEF DecodeInv
<1>2. /\ outStream' \in [0 .. outSize - 1 -> Byte \cup {UNWRITTEN}]
      /\ nowPos' = nowPos + 1 /\ nowPos' \in U32 /\ previousByte' \in Byte
      /\ nowPos' <= outSize
      /\ WrittenPrefix'
  BY EmitPrefix DEF DecodeInv
<1>3. DecodeTypeOK'
  BY <1>2 DEF DecodeInv, DecodeTypeOK, kNumStates
<1>4. RepInv'
  <2>1. Fits(rep0) /\ Fits(rep1) /\ Fits(rep2) /\ Fits(rep3)
    BY DEF DecodeInv, RepInv, Between
  <2>2. Fits(rep0)' /\ Fits(rep1)' /\ Fits(rep2)' /\ Fits(rep3)'
    BY <1>1, <1>2, <2>1, FitsGrows DEF Fits
  <2> QED BY <2>2 DEF RepInv, Between
<1>5. StateInv' /\ RoomInv'
  BY <1>1, <1>2 DEF StateInv, RoomInv
<1> QED BY <1>2, <1>3, <1>4, <1>5 DEF DecodeInv

LEMMA InvLiteral == DecodeInv /\ LiteralPacket => DecodeInv'
<1> SUFFICES ASSUME DecodeInv, LiteralPacket PROVE DecodeInv'
  OBVIOUS
<1>1. PICK b \in Byte : Emit(b)
  BY DEF LiteralPacket
<1>2. b # UNWRITTEN
  BY LzmaAssumption
<1>3. state' \in 0 .. 11
  <2>1. state \in 0 .. 11
    BY Numbers DEF DecodeInv
  <2> QED BY <2>1 DEF LiteralPacket, LiteralState
<1> QED BY <1>1, <1>2, <1>3, InvEmit DEF LiteralPacket

LEMMA InvShortRep == DecodeInv /\ ShortRep => DecodeInv'
<1> SUFFICES ASSUME DecodeInv, ShortRep PROVE DecodeInv'
  OBVIOUS
<1>1. nowPos \in Nat /\ rep0 \in Nat /\ outSize \in Nat
  BY Numbers DEF DecodeInv
<1>2. rep0 >= 1 /\ rep0 <= nowPos /\ nowPos <= outSize
  BY <1>1 DEF DecodeInv, ShortRep, RepInv, Fits, Between, RoomInv
<1>3. outStream[nowPos - rep0] \in Byte /\ outStream[nowPos - rep0] # UNWRITTEN
  BY <1>2, WindowByte DEF DecodeInv
<1>4. state' \in 0 .. 11
  BY DEF ShortRep, AfterLit
<1> QED BY <1>3, <1>4, InvEmit DEF ShortRep

LEMMA DecodeInvStep == DecodeInv /\ [DecodeNext]_decoder => DecodeInv'
<1> SUFFICES ASSUME DecodeInv, [DecodeNext]_decoder PROVE DecodeInv'
  OBVIOUS
<1>1. CASE UNCHANGED decoder
  BY <1>1 DEF decoder, DecodeInv, DecodeTypeOK, RepInv, StateInv, RoomInv,
              WrittenPrefix, Fits
<1> QED BY <1>1, InvRcReady, InvLiteral, InvMatch, InvShortRep, InvLongRep, InvEnds,
           InvLength, InvDistance, InvCheck, InvCopy
        DEF DecodeNext, DecodeStep

LEMMA DecodeInvAlways == DecodeSpec => []DecodeInv
<1>1. DecodeSpec => DecodeInit /\ [][DecodeNext]_decoder
  BY DEF DecodeSpec
<1> QED BY <1>1, DecodeInvInit, DecodeInvStep, PTL

-----------------------------------------------------------------------------
(* The decoder's variables keep their types whatever the stream holds.     *)
THEOREM DecodeTypeCorrect == DecodeSpec => []DecodeTypeOK
<1>1. DecodeInv => DecodeTypeOK
  BY DEF DecodeInv
<1> QED BY <1>1, DecodeInvAlways, PTL

(* No stream makes the decoder read before its first output byte, neither  *)
(* in a copy, nor in a short repeat, nor in a literal after a match.       *)
THEOREM WindowSafety == DecodeSpec => []WindowReads
<1>1. DecodeInv => WindowReads
  <2> SUFFICES ASSUME DecodeInv PROVE WindowReads
    OBVIOUS
  <2>1. nowPos \in Nat /\ rep0 \in Nat
    BY Numbers DEF DecodeInv
  <2>2. dpc = "copy" => rep0 \in 1 .. nowPos
    BY <2>1 DEF DecodeInv, RepInv
  <2>3. dpc = "loop" /\ nowPos # 0 => rep0 \in 1 .. nowPos
    BY <2>1 DEF DecodeInv, RepInv, Fits, Between
  <2>4. dpc = "loop" /\ state >= kNumLitStates => nowPos # 0
    BY <2>1 DEF DecodeInv, StateInv, kNumLitStates
  <2> QED BY <2>2, <2>3, <2>4 DEF WindowReads
<1> QED BY <1>1, DecodeInvAlways, PTL

(* No stream makes the decoder write past the size its header stated.      *)
THEOREM OutputSafety == DecodeSpec => []OutputBounds
<1>1. DecodeInv => OutputBounds
  BY DEF DecodeInv, RoomInv, OutputBounds
<1> QED BY <1>1, DecodeInvAlways, PTL

(* The output is always a prefix without gaps or bytes never decoded.      *)
THEOREM PrefixSafety == DecodeSpec => []WrittenPrefix
<1>1. DecodeInv => WrittenPrefix
  BY DEF DecodeInv
<1> QED BY <1>1, DecodeInvAlways, PTL

-----------------------------------------------------------------------------
(* Success is only reached through "finish", which is only entered with    *)
(* the whole output or after an end marker.                                *)
FinishInv == dpc \in {"finish", "ok"} => nowPos = outSize \/ len = -1

LEMMA FinishStep == DecodeInv /\ FinishInv /\ [DecodeNext]_decoder => FinishInv'
<1> SUFFICES ASSUME DecodeInv, FinishInv, [DecodeNext]_decoder PROVE FinishInv'
  OBVIOUS
<1>1. CASE OutputFull
  <2>1. nowPos \in Nat /\ outSize \in Nat /\ nowPos <= outSize
    BY Numbers DEF DecodeInv, RoomInv
  <2> QED BY <1>1, <2>1 DEF OutputFull, FinishInv
<1>2. CASE ReturnOk \/ InputEnds \/ ShortRepAtStart
  BY <1>2 DEF ReturnOk, InputEnds, ShortRepAtStart, FinishInv
<1>3. CASE DecodeDistance
  BY <1>3 DEF DecodeDistance, FinishInv
<1>4. CASE RcReady \/ LiteralPacket \/ Match \/ ShortRep \/ LongRep
  BY <1>4 DEF RcReady, LiteralPacket, Match, ShortRep, LongRep, FinishInv
<1>5. CASE DecodeLength \/ CheckDistance \/ CopyByte
  BY <1>5 DEF DecodeLength, CheckDistance, CopyByte, FinishInv
<1>6. CASE UNCHANGED decoder
  BY <1>6 DEF decoder, FinishInv
<1> QED BY <1>1, <1>2, <1>3, <1>4, <1>5, <1>6 DEF DecodeNext, DecodeStep

(* LZMA_RESULT_OK is returned for no stream but a complete one: input that *)
(* ends in whatever packet, or a distance outside of the window, is an     *)
(* error.                                                                  *)
THEOREM CompleteOnSuccess == DecodeSpec => []OkMeansComplete
<1>1. DecodeInit => FinishInv
  BY DEF DecodeInit, FinishInv
<1>2. FinishInv => OkMeansComplete
  BY DEF FinishInv, OkMeansComplete
<1>3. DecodeSpec => DecodeInit /\ [][DecodeNext]_decoder
  BY DEF DecodeSpec
<1> QED BY <1>1, <1>2, <1>3, FinishStep, DecodeInvAlways, PTL

(* Every repeated match moves one of the four last distances to the front  *)
(* and keeps the others in order, for every sequence of packets.           *)
THEOREM RepsShuffled == DecodeSpec => RepsMoveToFront
<1> DEFINE Step == dpc = "loop" /\ dpc' = "length" /\ state' >= kNumLitStates
                    => \E j \in 1 .. 4 : reps' = MoveToFront(reps, j)
<1>1. ASSUME DecodeInv, DecodeNext PROVE Step
  <2> SUFFICES ASSUME dpc = "loop", dpc' = "length", state' >= kNumLitStates
               PROVE  \E j \in 1 .. 4 : reps' = MoveToFront(reps, j)
    OBVIOUS
  <2>1. ~Match
    BY DEF Match, AfterLit, kNumLitStates
  <2>2. LongRep
    BY <1>1, <2>1 DEF DecodeNext, DecodeStep, RcReady, LiteralPacket, ShortRep,
         ShortRepAtStart, DecodeLength, DecodeDistance, CheckDistance, CopyByte,
         OutputFull, ReturnOk, InputEnds
  <2>3. PICK j \in 0 .. 3 : RepShuffle(j)
    BY <2>2 DEF LongRep
  <2>4. CASE j = 0
    BY <2>3, <2>4 DEF RepShuffle, reps, MoveToFront
  <2>5. CASE j = 1
    BY <2>3, <2>5 DEF RepShuffle, reps, MoveToFront
  <2>6. CASE j = 2
    BY <2>3, <2>6 DEF RepShuffle, reps, MoveToFront
  <2>7. CASE j = 3
    BY <2>3, <2>7 DEF RepShuffle, reps, MoveToFront
  <2> QED BY <2>4, <2>5, <2>6, <2>7
<1>2. DecodeInv /\ [DecodeNext]_decoder => [Step]_decoder
  BY <1>1
<1>3. DecodeSpec => [][DecodeNext]_decoder
  BY DEF DecodeSpec
<1> QED BY <1>2, <1>3, DecodeInvAlways, PTL DEF RepsMoveToFront

-----------------------------------------------------------------------------

(* Every step of the loader, seen by the decoder.                          *)
LEMMA StepRefined == [Next]_vars => [DecodeNext]_decoder
<1> SUFFICES ASSUME [Next]_vars PROVE [DecodeNext]_decoder
  OBVIOUS
<1>1. CASE RefuseProperties \/ ReadHeader \/ DivideByZero \/ DecodeFailed \/ StartKernel
  BY <1>1 DEF RefuseProperties, ReadHeader, DivideByZero, DecodeFailed, StartKernel
<1>2. CASE Decode
  BY <1>2 DEF Decode, DecodeNext
<1>3. CASE ReadBuffered \/ ReadRefill
  <2>1. TakeByte
    BY <1>3 DEF ReadBuffered, ReadRefill
  <2>2. RcReady \/ UNCHANGED decoder
    BY <2>1 DEF TakeByte
  <2> QED BY <2>2 DEF DecodeNext
<1>4. CASE ReadNothing
  BY <1>4 DEF ReadNothing, DecodeNext
<1>5. CASE UNCHANGED vars
  BY <1>5 DEF vars
<1> QED BY <1>1, <1>2, <1>3, <1>4, <1>5 DEF Next

(* What is shown of the decoder alone holds of the decoder in the loader.  *)
LEMMA LoaderDecodes == Spec => DecodeSpec
<1>1. Init => DecodeInit
  BY DEF Init
<1> QED BY <1>1, StepRefined, PTL DEF Spec, DecodeSpec

(* The kernel load_lzma decodes is written inside of its stated size, from *)
(* bytes already written, as a gapless prefix.                             *)
THEOREM LoadedOutputSafe == Spec => [](WindowReads /\ OutputBounds /\ WrittenPrefix)
BY LoaderDecodes, WindowSafety, OutputSafety, PrefixSafety, PTL

-----------------------------------------------------------------------------
(* Where the loader is in its file.                                        *)
Handle == [file_len: U32, file_pos: U32]

LoaderTypeOK ==
  /\ fp \in Handle
  /\ avail \in Nat /\ rcLeft \in Nat /\ total_read \in Nat /\ consumed \in Nat
  /\ lpc \in {"start", "decode", "failed", "kernel", "trap"}

(* Before the header is read nothing has been taken; behind it, a file     *)
(* shorter than the header has nothing left to give, and a longer one has  *)
(* given what was consumed and what is buffered.                           *)
PositionInv ==
  /\ lpc = "start" => consumed = 0 /\ avail = 0 /\ total_read = 0
  /\ lpc \in {"decode", "kernel"} /\ fp.file_len < HeaderSize =>
       /\ fp.file_pos = fp.file_len
       /\ consumed = 0 /\ avail = 0 /\ total_read = 0
  /\ lpc \in {"decode", "kernel"} /\ fp.file_len >= HeaderSize =>
       /\ fp.file_pos = HeaderSize + consumed + avail
       /\ total_read = consumed + avail
       /\ fp.file_pos <= fp.file_len

(* RC_INIT counts down its five bytes, and the decoder leaves it for good. *)
RcInitInv ==
  /\ lpc = "start" => dpc = "rcinit"
  /\ dpc = "rcinit" => rcLeft >= 1 /\ consumed + rcLeft = 5
  /\ dpc \notin {"rcinit", "error"} => consumed >= 5
  /\ lpc = "kernel" => dpc = "ok"

LoaderInv == LoaderTypeOK /\ PositionInv /\ RcInitInv

(* The numbers of LoaderTypeOK in the form the arithmetic needs.           *)
LEMMA LoaderNumbers ==
  ASSUME LoaderTypeOK
  PROVE  /\ fp.file_len \in Nat /\ fp.file_pos \in Nat
         /\ fp.file_len < Word /\ fp.file_pos < Word
         /\ Word \in Nat /\ HeaderSize = 13 /\ HeaderSize < Word
         /\ Chunk \in Nat /\ Chunk > 0
BY LoaderAssumption, WordAssumption
   DEF LoaderTypeOK, Handle, U32, HeaderSize, PropsSize, SizeSize

(* A read that does not wrap moves the position by its length.             *)
LEMMA AdvanceMoves ==
  ASSUME NEW f \in [file_len: U32, file_pos: U32], NEW size \in Nat, f.file_pos + size < Word
  PROVE  /\ Advance(f, size) \in Handle
         /\ Advance(f, size).file_len = f.file_len
         /\ Advance(f, size).file_pos = f.file_pos + size
<1>1. f.file_pos \in Nat
  BY WordAssumption DEF Handle, U32
<1>2. U32Add(f.file_pos, size) = f.file_pos + size
  BY <1>1 DEF U32Add
<1>3. f.file_pos + size \in U32
  BY <1>1, WordAssumption DEF U32
<1> HIDE DEF U32
<1> QED BY <1>2, <1>3 DEF Advance, Handle

(* Behind the header, or at the end of a file that ends in it.             *)
LEMMA HeaderPassed ==
  ASSUME LoaderTypeOK
  PROVE  /\ PastHeader(fp) \in Handle
         /\ PastHeader(fp).file_len = fp.file_len
         /\ PastHeader(fp).file_pos =
              IF fp.file_len < HeaderSize THEN fp.file_len ELSE HeaderSize
<1>1. /\ fp \in Handle /\ fp.file_len \in Nat /\ fp.file_len < Word
      /\ Word \in Nat /\ 13 < Word /\ HeaderSize = 13
  BY LoaderNumbers DEF LoaderTypeOK, Handle
<1> DEFINE f0 == SeekSet(fp, 0)
           f1 == Advance(f0, PropsSize)
           f2 == Advance(f1, SizeSize)
<1>2. f0 \in Handle /\ f0.file_len = fp.file_len /\ f0.file_pos = 0
  BY <1>1 DEF SeekSet, Handle, U32
<1> HIDE DEF f0
<1>3. f1 \in Handle /\ f1.file_len = fp.file_len /\ f1.file_pos = 5
  BY <1>1, <1>2, AdvanceMoves DEF Handle, PropsSize
<1> HIDE DEF f1
<1>4. f2 \in Handle /\ f2.file_len = fp.file_len /\ f2.file_pos = 9
  BY <1>1, <1>3, AdvanceMoves DEF Handle, SizeSize
<1> HIDE DEF f2
<1>5. U32Add(4, f2.file_pos) = 13 /\ U32Add(f2.file_pos, 4) = 13
  BY <1>1, <1>4 DEF U32Add
<1>6. /\ SeekCur(f2, 4) \in Handle
      /\ SeekCur(f2, 4).file_len = fp.file_len
      /\ SeekCur(f2, 4).file_pos = IF fp.file_len < 13 THEN fp.file_len ELSE 13
  BY <1>1, <1>4, <1>5 DEF SeekCur, Handle, U32
<1>7. PastHeader(fp) = SeekCur(f2, 4)
  BY DEF PastHeader, f0, f1, f2, SizeSize
<1> QED BY <1>1, <1>6, <1>7

(* A chunk is cut to what the file has left.                               *)
LEMMA ChunkFits ==
  ASSUME LoaderTypeOK, fp.file_pos <= fp.file_len
  PROVE  /\ ChunkSize(fp) \in Nat
         /\ fp.file_pos + ChunkSize(fp) <= fp.file_len
         /\ ChunkSize(fp) = 0 <=> fp.file_pos = fp.file_len
         /\ Advance(fp, ChunkSize(fp)) \in Handle
         /\ Advance(fp, ChunkSize(fp)).file_len = fp.file_len
         /\ Advance(fp, ChunkSize(fp)).file_pos = fp.file_pos + ChunkSize(fp)
<1>1. /\ fp.file_len \in Nat /\ fp.file_pos \in Nat /\ fp.file_len < Word
      /\ Word \in Nat /\ Chunk \in Nat /\ Chunk > 0 /\ fp \in Handle
  BY LoaderNumbers DEF LoaderTypeOK, Handle
<1> DEFINE size == ChunkSize(fp)
<1>2. /\ size \in Nat /\ fp.file_pos + size <= fp.file_len
      /\ size = 0 <=> fp.file_pos = fp.file_len
  BY <1>1 DEF ChunkSize, U32Sub
<1> HIDE DEF size
<1>3. fp.file_pos + size < Word
  BY <1>1, <1>2
<1>4. /\ Advance(fp, size) \in Handle
      /\ Advance(fp, size).file_len = fp.file_len
      /\ Advance(fp, size).file_pos = fp.file_pos + size
  BY <1>1, <1>2, <1>3, AdvanceMoves DEF Handle
<1> QED BY <1>2, <1>4 DEF size

LEMMA LoaderInvInit == Init => LoaderInv
<1> SUFFICES ASSUME Init PROVE LoaderInv
  OBVIOUS
<1>1. fp \in Handle
  <2>1. fp \in [file_len: FileLens, file_pos: {0}]
    BY DEF Init
  <2>2. FileLens \subseteq U32 /\ 0 \in U32
    BY LoaderAssumption, WordAssumption DEF U32
  <2> QED BY <2>1, <2>2 DEF Handle
<1>2. dpc = "rcinit"
  BY DEF Init, DecodeInit
<1> QED BY <1>1, <1>2 DEF Init, LoaderInv, LoaderTypeOK, PositionInv, RcInitInv

(* The header is read, or its first byte refused.                          *)
LEMMA InvHeader == LoaderInv /\ (RefuseProperties \/ ReadHeader) => LoaderInv'
<1> SUFFICES ASSUME LoaderInv, RefuseProperties \/ ReadHeader PROVE LoaderInv'
  OBVIOUS
<1> USE DEF LoaderInv
<1>1. /\ lpc = "start" /\ dpc' = dpc
      /\ UNCHANGED <<avail, rcLeft, total_read, consumed>>
      /\ lpc' \in {"failed", "decode"}
  BY DEF RefuseProperties, ReadHeader, decoder
<1>2. RcInitInv'
  BY <1>1 DEF RcInitInv
<1>3. CASE RefuseProperties
  <2>1. lpc' = "failed" /\ fp' = Advance(SeekSet(fp, 0), PropsSize)
    BY <1>3 DEF RefuseProperties
  <2>2. SeekSet(fp, 0) \in Handle /\ SeekSet(fp, 0).file_pos = 0
    <3>1. fp \in Handle /\ fp.file_len \in Nat
      BY LoaderNumbers DEF LoaderTypeOK
    <3> QED BY <3>1, WordAssumption DEF SeekSet, Handle, U32
  <2>3. fp' \in Handle
    BY <2>1, <2>2, AdvanceMoves, LoaderNumbers DEF Handle, PropsSize
  <2> QED BY <1>1, <1>2, <2>1, <2>3 DEF LoaderTypeOK, PositionInv
<1>4. CASE ReadHeader
  <2>1. lpc' = "decode" /\ fp' = PastHeader(fp)
    BY <1>4 DEF ReadHeader
  <2>2. /\ fp' \in Handle /\ fp'.file_len = fp.file_len
        /\ fp'.file_pos = IF fp.file_len < HeaderSize THEN fp.file_len ELSE HeaderSize
    BY <2>1, HeaderPassed
  <2>3. LoaderTypeOK'
    BY <1>1, <2>1, <2>2 DEF LoaderTypeOK
  <2>4. fp.file_len \in Nat /\ HeaderSize \in Nat
    BY LoaderNumbers
  <2>5. PositionInv'
    BY <1>1, <2>1, <2>2, <2>4 DEF PositionInv
  <2> QED BY <1>2, <2>3, <2>5
<1> QED BY <1>3, <1>4

(* The decoder's own steps neither take a byte nor return to RC_INIT.      *)
LEMMA InvDecode == LoaderInv /\ Decode => LoaderInv'
<1> SUFFICES ASSUME LoaderInv, Decode PROVE LoaderInv'
  OBVIOUS
<1>1. lpc = "decode" /\ UNCHANGED loader
  BY DEF Decode
<1>2. dpc \notin {"rcinit", "error"} /\ dpc' # "rcinit"
  BY DEF Decode, DecodeStep, LiteralPacket, Match, ShortRep, ShortRepAtStart, LongRep,
         DecodeLength, DecodeDistance, CheckDistance, CopyByte, OutputFull, ReturnOk
<1> QED BY <1>1, <1>2 DEF LoaderInv, LoaderTypeOK, PositionInv, RcInitInv, loader

(* What taking a byte does to RC_INIT's countdown.                         *)
LEMMA ByteTaken ==
  ASSUME LoaderInv, lpc = "decode", lpc' = lpc, MayRead, TakeByte
  PROVE  /\ consumed' = consumed + 1 /\ rcLeft' \in Nat
         /\ RcInitInv'
<1>1. consumed \in Nat /\ rcLeft \in Nat /\ consumed' = consumed + 1
  BY DEF LoaderInv, LoaderTypeOK, TakeByte
<1>2. dpc # "error"
  BY DEF MayRead, NeedsInput
<1>3. CASE dpc = "rcinit" /\ rcLeft = 1
  <2>1. rcLeft' = 0 /\ dpc' = "loop" /\ consumed = 4
    BY <1>1, <1>3 DEF TakeByte, RcReady, LoaderInv, RcInitInv
  <2> QED BY <1>1, <2>1 DEF RcInitInv
<1>4. CASE dpc = "rcinit" /\ rcLeft # 1
  <2>1. rcLeft' = rcLeft - 1 /\ dpc' = dpc /\ rcLeft >= 1 /\ consumed + rcLeft = 5
    BY <1>4 DEF TakeByte, decoder, LoaderInv, RcInitInv
  <2> QED BY <1>1, <1>4, <2>1 DEF RcInitInv
<1>5. CASE dpc # "rcinit"
  <2>1. rcLeft' = rcLeft /\ dpc' = dpc /\ consumed >= 5
    BY <1>2, <1>5 DEF TakeByte, decoder, LoaderInv, RcInitInv
  <2> QED BY <1>1, <1>5, <2>1 DEF RcInitInv
<1> QED BY <1>3, <1>4, <1>5

LEMMA InvBuffered == LoaderInv /\ ReadBuffered => LoaderInv'
<1> SUFFICES ASSUME LoaderInv, ReadBuffered PROVE LoaderInv'
  OBVIOUS
<1>1. /\ MayRead /\ lpc = "decode" /\ TakeByte /\ avail > 0 /\ avail' = avail - 1
      /\ UNCHANGED <<fp, total_read, lpc>>
  BY DEF ReadBuffered, MayRead
<1>2. consumed' = consumed + 1 /\ rcLeft' \in Nat /\ RcInitInv'
  BY <1>1, ByteTaken
<1>3. avail \in Nat /\ consumed \in Nat /\ fp \in Handle
  BY DEF LoaderInv, LoaderTypeOK
<1>4. LoaderTypeOK'
  BY <1>1, <1>2, <1>3 DEF LoaderInv, LoaderTypeOK
<1>5. fp.file_len \in Nat /\ HeaderSize \in Nat
  BY LoaderNumbers DEF LoaderInv
<1>6. fp.file_len >= HeaderSize
  BY <1>1, <1>3, <1>5 DEF LoaderInv, PositionInv
<1>7. PositionInv'
  BY <1>1, <1>2, <1>3, <1>5, <1>6 DEF LoaderInv, PositionInv
<1> QED BY <1>2, <1>4, <1>7 DEF LoaderInv

LEMMA InvRefill == LoaderInv /\ ReadRefill => LoaderInv'
<1> SUFFICES ASSUME LoaderInv, ReadRefill PROVE LoaderInv'
  OBVIOUS
<1> DEFINE size == ChunkSize(fp)
<1>1. /\ MayRead /\ lpc = "decode" /\ TakeByte /\ avail = 0 /\ avail' = size - 1
      /\ lpc' = lpc /\ fp.file_pos <= fp.file_len /\ size # 0
      /\ total_read' = total_read + size /\ fp' = Advance(fp, size)
  BY DEF ReadRefill, MayRead, ReadData
<1>2. consumed' = consumed + 1 /\ rcLeft' \in Nat /\ RcInitInv'
  BY <1>1, ByteTaken
<1>3. /\ size \in Nat /\ fp.file_pos + size <= fp.file_len
      /\ fp.file_pos # fp.file_len
      /\ fp' \in Handle /\ fp'.file_len = fp.file_len
      /\ fp'.file_pos = fp.file_pos + size
  BY <1>1, ChunkFits DEF LoaderInv
<1> HIDE DEF size
<1>4. total_read \in Nat /\ consumed \in Nat
  BY DEF LoaderInv, LoaderTypeOK
<1>5. LoaderTypeOK'
  BY <1>1, <1>2, <1>3, <1>4 DEF LoaderInv, LoaderTypeOK
<1>6. fp.file_len \in Nat /\ fp.file_pos \in Nat /\ HeaderSize \in Nat
  BY LoaderNumbers DEF LoaderInv
<1>7. fp.file_len >= HeaderSize
  BY <1>1, <1>3, <1>6 DEF LoaderInv, PositionInv
<1>8. PositionInv'
  BY <1>1, <1>2, <1>3, <1>4, <1>6, <1>7 DEF LoaderInv, PositionInv
<1> QED BY <1>2, <1>5, <1>8 DEF LoaderInv

LEMMA InvEnded ==
  LoaderInv /\ (ReadNothing \/ DivideByZero \/ DecodeFailed \/ StartKernel) => LoaderInv'
<1> SUFFICES ASSUME LoaderInv,
                    ReadNothing \/ DivideByZero \/ DecodeFailed \/ StartKernel
             PROVE  LoaderInv'
  OBVIOUS
<1> USE DEF LoaderInv
<1>1. CASE ReadNothing
  <2>1. /\ lpc = "decode" /\ lpc' = lpc /\ dpc' = "error" /\ avail' = avail
        /\ rcLeft' = rcLeft /\ consumed' = consumed
        /\ fp.file_pos <= fp.file_len /\ ChunkSize(fp) = 0
        /\ total_read' = total_read + 0 /\ fp' = Advance(fp, 0)
    BY <1>1 DEF ReadNothing, MayRead, InputEnds, ReadData
  <2>2. /\ fp' \in Handle /\ fp'.file_len = fp.file_len
        /\ fp'.file_pos = fp.file_pos + 0
    BY <2>1, ChunkFits
  <2>3. total_read \in Nat /\ fp.file_pos \in Nat /\ fp.file_len \in Nat
    BY LoaderNumbers DEF LoaderTypeOK
  <2> QED BY <2>1, <2>2, <2>3 DEF LoaderTypeOK, PositionInv, RcInitInv
<1>2. CASE DivideByZero \/ DecodeFailed \/ StartKernel
  <2>1. /\ UNCHANGED <<fp, avail, rcLeft, total_read, consumed, dpc>>
        /\ lpc = "decode" /\ lpc' \in {"trap", "failed", "kernel"}
        /\ lpc' = "kernel" => dpc = "ok"
    BY <1>2 DEF DivideByZero, DecodeFailed, StartKernel, MayRead, decoder
  <2> QED BY <2>1 DEF LoaderTypeOK, PositionInv, RcInitInv
<1> QED BY <1>1, <1>2

LEMMA LoaderInvStep == LoaderInv /\ [Next]_vars => LoaderInv'
<1>1. LoaderInv /\ UNCHANGED vars => LoaderInv'
  BY DEF vars, decoder, loader, LoaderInv, LoaderTypeOK, PositionInv, RcInitInv
<1> QED BY <1>1, InvHeader, InvDecode, InvBuffered, InvRefill, InvEnded DEF Next

LEMMA LoaderInvAlways == Spec => []LoaderInv
BY LoaderInvInit, LoaderInvStep, PTL DEF Spec

-----------------------------------------------------------------------------
(* read_data's "Attempt to read past end of file" is dead code, for every  *)
(* file length and every size of the input buffer.                         *)
THEOREM ReadsStayInFile == Spec => []NeverPastEnd
<1>1. LoaderInv => NeverPastEnd
  <2> SUFFICES ASSUME LoaderInv PROVE NeverPastEnd
    OBVIOUS
  <2>1. fp.file_len \in Nat /\ fp.file_pos \in Nat /\ HeaderSize \in Nat
    BY LoaderNumbers DEF LoaderInv
  <2>2. lpc = "decode" => fp.file_pos <= fp.file_len
    BY <2>1 DEF LoaderInv, PositionInv
  <2> QED BY <2>1, <2>2 DEF NeverPastEnd, ReadPastEnd, MayRead
<1> QED BY <1>1, LoaderInvAlways, PTL

(* The range coder is fed the bytes behind the header, each one once and   *)
(* in order, across every boundary between two chunks.                     *)
THEOREM StreamFed == Spec => []StreamContiguous
<1>1. LoaderInv => StreamContiguous
  BY DEF LoaderInv, PositionInv, StreamContiguous
<1> QED BY <1>1, LoaderInvAlways, PTL

(* Only a complete stream is started, and only from bytes of its own file: *)
(* no truncated file reaches the jump.                                     *)
THEOREM StartedComplete == Spec => []StartedFromWholeFile
<1>1. LoaderInv /\ OkMeansComplete => StartedFromWholeFile
  <2> SUFFICES ASSUME LoaderInv, OkMeansComplete, lpc = "kernel"
               PROVE  /\ nowPos = outSize \/ len = -1
                      /\ consumed >= 5 /\ HeaderSize + consumed <= fp.file_len
    BY DEF StartedFromWholeFile
  <2>1. fp.file_len \in Nat /\ HeaderSize \in Nat /\ consumed \in Nat /\ avail \in Nat
    BY LoaderNumbers DEF LoaderInv, LoaderTypeOK
  <2>2. dpc = "ok" /\ consumed >= 5
    BY DEF LoaderInv, RcInitInv
  <2> QED BY <2>1, <2>2 DEF LoaderInv, PositionInv, OkMeansComplete
<1> QED BY <1>1, LoaderDecodes, LoaderInvAlways, CompleteOnSuccess, PTL

-----------------------------------------------------------------------------
(* The progress display.  A percentage below 100 that does not shrink as   *)
(* more is read, for a file whose length times 100 fits in a word.         *)
Percent(total, length) == ((total * 100) % Word) \div length

LEMMA Quotient ==
  ASSUME NEW x \in Nat, NEW y \in Nat, NEW d \in Nat \ {0}, x <= y
  PROVE  x \div d \in Nat /\ x \div d <= y \div d
<1>1. x \div d \in Nat /\ y \div d \in Nat
  OBVIOUS
<1>2. d * (x \div d) <= x /\ y < d * (y \div d + 1)
  OBVIOUS
<1> DEFINE q == x \div d
           r == y \div d
<1> HIDE DEF q, r
<1>3. ASSUME q \in Nat, r \in Nat, d * q < d * (r + 1) PROVE q <= r
  BY <1>3
<1>4. d * (x \div d) \in Nat /\ d * (y \div d + 1) \in Nat
  BY <1>1
<1> QED BY <1>1, <1>2, <1>3, <1>4 DEF q, r

LEMMA PercentNat ==
  ASSUME NEW t \in Nat, NEW length \in Nat \ {0}
  PROVE  Percent(t, length) \in Nat
<1>1. Word \in Nat \ {0} /\ t * 100 \in Nat
  BY WordAssumption
<1>2. \A x \in Nat, d \in Nat \ {0} : x % d \in Nat /\ x \div d \in Nat
  OBVIOUS
<1> QED BY <1>1, <1>2 DEF Percent

LEMMA PercentBounds ==
  ASSUME NEW length \in Nat \ {0}, length * 100 < Word,
         NEW s \in Nat, NEW t \in Nat, s <= t, t < length
  PROVE  /\ Percent(s, length) \in Nat /\ Percent(t, length) \in Nat
         /\ Percent(s, length) <= Percent(t, length) /\ Percent(t, length) < 100
<1>1. Word \in Nat
  BY WordAssumption
<1>2. s * 100 \in Nat /\ t * 100 \in Nat /\ s * 100 <= t * 100 /\ t * 100 < length * 100
  OBVIOUS
<1>3. (s * 100) % Word = s * 100 /\ (t * 100) % Word = t * 100
  <2>1. \A x \in Nat : x < Word => x % Word = x
    BY <1>1
  <2>2. s * 100 < Word /\ t * 100 < Word
    BY <1>1, <1>2
  <2> QED BY <1>2, <2>1, <2>2
<1>4. Percent(s, length) = (s * 100) \div length /\ Percent(t, length) = (t * 100) \div length
  BY <1>3 DEF Percent
<1>5. /\ (s * 100) \div length \in Nat /\ (t * 100) \div length \in Nat
      /\ (s * 100) \div length <= (t * 100) \div length
  BY <1>2, Quotient
<1>6. (t * 100) \div length < 100
  <2> DEFINE q == (t * 100) \div length
  <2>1. q \in Nat
    BY <1>5
  <2>2. length * q <= t * 100
    BY <1>2
  <2> HIDE DEF q
  <2>3. length * q < length * 100
    BY <1>2, <2>1, <2>2
  <2>4. q < 100
    BY <2>1, <2>3
  <2> QED BY <2>4 DEF q
<1> QED BY <1>4, <1>5, <1>6

Increasing(s) == \A j, k \in 1 .. Len(s) : j < k => s[j] < s[k]

(* Either nothing has been displayed and last is still 100, or last is the *)
(* percentage of an earlier refill, no number shown exceeds it, and it     *)
(* does not exceed the percentage of what has been read by now.            *)
Displayed ==
  \/ last = 100 /\ shown = << >>
  \/ /\ lpc # "start"
     /\ last <= Percent(total_read, fp.file_len) /\ last < 100
     /\ \A k \in 1 .. Len(shown) : shown[k] <= last

ProgressInv ==
  /\ shown \in Seq(Nat) /\ last \in Nat
  /\ fp.file_len * 100 < Word =>
       /\ Increasing(shown)
       /\ lpc # "kernel" => Displayed
       /\ lpc = "kernel" => \A k \in 1 .. Len(shown) : shown[k] = 100 <=> k = Len(shown)

(* A number put behind smaller ones.                                       *)
LEMMA AppendLarger ==
  ASSUME NEW s \in Seq(Nat), NEW d \in Nat, Increasing(s),
         \A k \in 1 .. Len(s) : s[k] < d
  PROVE  /\ Append(s, d) \in Seq(Nat)
         /\ Increasing(Append(s, d))
         /\ \A k \in 1 .. Len(Append(s, d)) : Append(s, d)[k] <= d
         /\ \A k \in 1 .. Len(Append(s, d)) : Append(s, d)[k] = d <=> k = Len(Append(s, d))
<1> DEFINE t == Append(s, d)
<1>1. /\ t \in Seq(Nat) /\ Len(t) = Len(s) + 1 /\ t[Len(s) + 1] = d /\ Len(s) \in Nat
      /\ \A k \in 1 .. Len(s) : t[k] = s[k] /\ s[k] \in Nat
  OBVIOUS
<1> HIDE DEF t
<1>2. ASSUME NEW k \in 1 .. Len(t), k # Len(t) PROVE k \in 1 .. Len(s)
  BY <1>1, <1>2
<1>3. ASSUME NEW j \in 1 .. Len(t), NEW k \in 1 .. Len(t), j < k PROVE t[j] < t[k]
  <2>1. j \in 1 .. Len(s)
    BY <1>1, <1>3
  <2>2. CASE k = Len(t)
    BY <1>1, <2>1, <2>2
  <2>3. CASE k # Len(t)
    BY <1>1, <1>2, <1>3, <2>1, <2>3 DEF Increasing
  <2> QED BY <2>2, <2>3
<1>4. ASSUME NEW k \in 1 .. Len(t)
      PROVE  t[k] <= d /\ (t[k] = d <=> k = Len(t))
  BY <1>1, <1>2
<1> QED BY <1>1, <1>3, <1>4 DEF t, Increasing

LEMMA ProgressInit == Init => ProgressInv
BY DEF Init, ProgressInv, Displayed, Increasing

(* A refill of size bytes, of 0 bytes too.                                 *)
LEMMA ProgressRefill ==
  ASSUME LoaderInv, LoaderInv', ProgressInv, lpc = "decode", lpc' = lpc,
         NEW size \in Nat, ReadData(size), fp.file_len # 0,
         fp'.file_len = fp.file_len
  PROVE  ProgressInv'
<1> DEFINE done == Done(total_read + size)
<1>1. /\ shown' = IF ShowsNumber(done) THEN Append(shown, done) ELSE shown
      /\ last' = IF ShowsNumber(done) \/ ShowsDot(done) THEN done ELSE last
      /\ total_read' = total_read + size
  BY DEF ReadData
<1>2. done = Percent(total_read', fp.file_len) /\ total_read' >= total_read
  <2>1. total_read \in Nat
    BY DEF LoaderInv, LoaderTypeOK
  <2> QED BY <1>1, <2>1 DEF Done, Percent
<1>3. total_read \in Nat /\ total_read' \in Nat /\ fp.file_len \in Nat \ {0} /\ Word \in Nat
  BY LoaderNumbers DEF LoaderInv, LoaderTypeOK
<1>4. total_read' < fp.file_len
  <2>1. /\ lpc' = "decode" /\ HeaderSize = 13 /\ consumed' \in Nat /\ avail' \in Nat
        /\ PositionInv'
    BY LoaderNumbers DEF LoaderInv, LoaderTypeOK
  <2>2. CASE fp.file_len < HeaderSize
    <3>1. total_read' = 0
      BY <2>1, <2>2 DEF PositionInv
    <3> QED BY <1>3, <3>1
  <2>3. CASE fp.file_len >= HeaderSize
    <3>1. fp'.file_pos = 13 + consumed' + avail' /\ total_read' = consumed' + avail'
          /\ fp'.file_pos <= fp.file_len
      BY <2>1, <2>3 DEF PositionInv
    <3> QED BY <1>3, <2>1, <3>1
  <2> QED BY <1>3, <2>1, <2>2, <2>3
<1>5. done \in Nat
  BY <1>2, <1>3, PercentNat
<1> HIDE DEF done
<1>6. ShowsNumber(done) => done # last
  BY DEF ShowsNumber
<1>7. shown \in Seq(Nat) /\ last \in Nat
  BY DEF ProgressInv
<1>8. shown' \in Seq(Nat) /\ last' \in Nat
  BY <1>1, <1>5, <1>7
<1>9. ASSUME fp.file_len * 100 < Word PROVE Increasing(shown') /\ Displayed'
  <2>1. /\ Percent(total_read, fp.file_len) <= done /\ done < 100
        /\ Percent(total_read, fp.file_len) \in Nat
    BY <1>2, <1>3, <1>4, <1>9, PercentBounds
  <2>2. Increasing(shown) /\ Displayed
    BY <1>9 DEF ProgressInv
  <2>3. \/ last = 100 /\ shown = << >>
        \/ last <= done /\ \A k \in 1 .. Len(shown) : shown[k] <= last
    BY <1>5, <1>7, <2>1, <2>2 DEF Displayed
  <2>4. CASE ShowsNumber(done)
    <3>1. \A k \in 1 .. Len(shown) : shown[k] < done
      <4>1. CASE shown = << >>
        BY <4>1
      <4>2. CASE last <= done /\ \A k \in 1 .. Len(shown) : shown[k] <= last
        <5>1. last < done
          BY <1>5, <1>6, <1>7, <2>4, <4>2
        <5>2. \A k \in 1 .. Len(shown) : shown[k] \in Nat
          BY <1>7
        <5> QED BY <1>5, <1>7, <4>2, <5>1, <5>2
      <4> QED BY <2>3, <4>1, <4>2
    <3>2. shown' = Append(shown, done) /\ last' = done
      BY <1>1, <2>4
    <3>3. Increasing(shown') /\ \A k \in 1 .. Len(shown') : shown'[k] <= done
      BY <1>5, <1>7, <2>2, <3>1, <3>2, AppendLarger
    <3> QED BY <1>2, <1>5, <2>1, <3>2, <3>3 DEF Displayed
  <2>5. CASE ~ShowsNumber(done)
    <3>1. shown' = shown /\ last' \in {done, last}
      BY <1>1, <2>5
    <3>2. \A k \in 1 .. Len(shown) : shown[k] \in Nat
      BY <1>7
    <3>3. CASE last' = done
      <4>1. \A k \in 1 .. Len(shown) : shown[k] <= done
        BY <1>5, <1>7, <2>3, <3>2
      <4> QED BY <1>2, <1>5, <2>1, <2>2, <3>1, <3>3, <4>1 DEF Displayed
    <3>4. CASE last' = last
      <4>1. CASE last = 100 /\ shown = << >>
        BY <2>2, <3>1, <3>4, <4>1 DEF Displayed
      <4>2. CASE ~(last = 100 /\ shown = << >>)
        <5>1. last <= done /\ last < 100 /\ \A k \in 1 .. Len(shown) : shown[k] <= last
          BY <2>2, <2>3, <4>2 DEF Displayed
        <5> QED BY <1>2, <2>2, <3>1, <3>4, <5>1 DEF Displayed
      <4> QED BY <4>1, <4>2
    <3> QED BY <3>1, <3>3, <3>4
  <2> QED BY <2>4, <2>5
<1> QED BY <1>8, <1>9 DEF ProgressInv

(* Steps that display nothing and do not touch the count of bytes.         *)
LEMMA ProgressQuiet ==
  ASSUME ProgressInv, UNCHANGED <<shown, last, total_read>>,
         fp'.file_len = fp.file_len, lpc # "kernel", lpc' \notin {"start", "kernel"}
  PROVE  ProgressInv'
BY DEF ProgressInv, Displayed

LEMMA ProgressStart == LoaderInv /\ ProgressInv /\ StartKernel => ProgressInv'
<1> SUFFICES ASSUME LoaderInv, ProgressInv, StartKernel PROVE ProgressInv'
  OBVIOUS
<1>1. /\ shown' = Append(shown, 100) /\ lpc = "decode" /\ lpc' = "kernel"
      /\ fp' = fp /\ last' = last
  BY DEF StartKernel
<1>2. shown \in Seq(Nat) /\ last \in Nat
  BY DEF ProgressInv
<1>3. shown' \in Seq(Nat) /\ last' \in Nat
  BY <1>1, <1>2
<1>4. ASSUME fp.file_len * 100 < Word
      PROVE  /\ Increasing(shown')
             /\ \A k \in 1 .. Len(shown') : shown'[k] = 100 <=> k = Len(shown')
  <2>1. Increasing(shown) /\ Displayed
    BY <1>1, <1>4 DEF ProgressInv
  <2>2. \A k \in 1 .. Len(shown) : shown[k] \in Nat
    BY <1>2
  <2>3. \A k \in 1 .. Len(shown) : shown[k] < 100
    BY <1>2, <2>1, <2>2 DEF Displayed
  <2> QED BY <1>1, <1>2, <2>1, <2>3, AppendLarger
<1> QED BY <1>1, <1>3, <1>4 DEF ProgressInv

LEMMA ProgressStep == LoaderInv /\ LoaderInv' /\ ProgressInv /\ [Next]_vars => ProgressInv'
<1> SUFFICES ASSUME LoaderInv, LoaderInv', ProgressInv, [Next]_vars PROVE ProgressInv'
  OBVIOUS
<1>1. CASE RefuseProperties
  <2>1. SeekSet(fp, 0) \in Handle /\ SeekSet(fp, 0).file_len = fp.file_len
        /\ SeekSet(fp, 0).file_pos = 0
    <3>1. fp \in Handle /\ fp.file_len \in Nat
      BY LoaderNumbers DEF LoaderInv, LoaderTypeOK
    <3> QED BY <3>1, WordAssumption DEF SeekSet, Handle, U32
  <2>2. fp'.file_len = fp.file_len
    BY <1>1, <2>1, AdvanceMoves, LoaderNumbers
    DEF RefuseProperties, LoaderInv, Handle, PropsSize
  <2> QED BY <1>1, <2>2, ProgressQuiet DEF RefuseProperties
<1>2. CASE ReadHeader
  <2>1. fp'.file_len = fp.file_len
    BY <1>2, HeaderPassed DEF ReadHeader, LoaderInv
  <2> QED BY <1>2, <2>1, ProgressQuiet DEF ReadHeader
<1>3. CASE Decode \/ ReadBuffered \/ DivideByZero \/ DecodeFailed
  BY <1>3, ProgressQuiet
  DEF Decode, loader, ReadBuffered, MayRead, DivideByZero, DecodeFailed
<1>4. CASE ReadRefill \/ ReadNothing
  <2>1. /\ lpc = "decode" /\ lpc' = lpc /\ fp.file_len # 0
        /\ fp.file_pos <= fp.file_len /\ ReadData(ChunkSize(fp))
    BY <1>4 DEF ReadRefill, ReadNothing, MayRead
  <2>2. ChunkSize(fp) \in Nat /\ fp'.file_len = fp.file_len
    BY <2>1, ChunkFits DEF LoaderInv, ReadData
  <2> QED BY <2>1, <2>2, ProgressRefill
<1>5. CASE StartKernel
  BY <1>5, ProgressStart
<1>6. CASE UNCHANGED vars
  BY <1>6 DEF vars, loader, ProgressInv, Displayed
<1> QED BY <1>1, <1>2, <1>3, <1>4, <1>5, <1>6 DEF Next

(* The numbers load_lzma prints only grow and end with its one "100", for  *)
(* every file length whose product with 100 does not wrap.                 *)
THEOREM ProgressShown == Spec => []ProgressGrows
<1>1. LoaderInv /\ ProgressInv => ProgressGrows
  <2> SUFFICES ASSUME ProgressInv, fp.file_len * 100 < Word
               PROVE  /\ Increasing(shown)
                      /\ \A k \in 1 .. Len(shown) :
                           shown[k] = 100 <=> lpc = "kernel" /\ k = Len(shown)
    BY DEF ProgressGrows, Increasing
  <2>1. \A k \in 1 .. Len(shown) : shown[k] \in Nat
    BY DEF ProgressInv
  <2>2. CASE lpc = "kernel"
    BY <2>2 DEF ProgressInv
  <2>3. CASE lpc # "kernel"
    <3>1. \A k \in 1 .. Len(shown) : shown[k] < 100
      BY <2>1, <2>3 DEF ProgressInv, Displayed
    <3> QED BY <2>1, <2>3, <3>1 DEF ProgressInv
  <2> QED BY <2>2, <2>3
<1> QED BY <1>1, ProgressInit, ProgressStep, LoaderInvAlways, PTL DEF Spec
-----------------------------------------------------------------------------
(* Arithmetic: products grow with their factors, a division by a positive  *)
(* number, a number below the modulus.                                     *)
LEMMA MulMono ==
  ASSUME NEW a \in Nat, NEW b \in Nat, NEW c \in Nat, a <= b
  PROVE  a * c <= b * c /\ c * a <= c * b /\ a * c \in Nat /\ b * c \in Nat
  OBVIOUS

LEMMA DivMul ==
  ASSUME NEW a \in Nat, NEW w \in Nat, w > 0
  PROVE  /\ a \div w \in Nat
         /\ w * (a \div w) <= a
         /\ a < w * (a \div w) + w
  OBVIOUS

LEMMA ModSmall ==
  ASSUME NEW a \in Nat, NEW w \in Nat, w > 0, a < w
  PROVE  a % w = a
  OBVIOUS

LEMMA ModNat ==
  ASSUME NEW a \in Nat, NEW w \in Nat, w > 0
  PROVE  a % w \in Nat
  OBVIOUS

(* The constants' signs.                                                   *)
LEMMA Constants ==
  /\ RcByte \in Nat /\ Top \in Nat /\ Total \in Nat /\ Move \in Nat /\ InitBytes \in Nat
  /\ RcByte >= 2 /\ Move >= 2 /\ Total >= 2 /\ Top >= 2
  /\ 2 * (Move - 1) <= Total /\ Total <= RcByte * (Move - 1)
  /\ Top = Total * (Top \div Total) /\ Top \div Total \in Nat /\ Top \div Total >= 1
  /\ RcWord \in Nat /\ RcWord > 1
<1>1. /\ RcByte \in Nat /\ Top \in Nat /\ Total \in Nat /\ Move \in Nat /\ InitBytes \in Nat
      /\ RcByte >= 2 /\ Move >= 2 /\ 2 * (Move - 1) <= Total /\ Total <= RcByte * (Move - 1)
      /\ Top % Total = 0 /\ Top >= Total
  BY CoderAssumption
<1>2. Total >= 2 /\ Top >= 2
  BY <1>1
<1>3. Top = Total * (Top \div Total) /\ Top \div Total \in Nat
  BY <1>1, <1>2
<1>4. Top \div Total >= 1
  BY <1>1, <1>2, <1>3, DivMul
<1>5. RcWord \in Nat /\ RcWord > 1
  BY <1>1, <1>2, MulMono DEF RcWord
<1> QED
  BY <1>1, <1>2, <1>3, <1>4, <1>5

(* A probability that keeps its distance from both ends.                   *)
ProbOK(q) == q \in Nat /\ Move - 1 <= q /\ q <= Total - (Move - 1)

(* Taking a Move-th part off a number of at least Move - 1 leaves at least *)
(* Move - 1.                                                               *)
LEMMA PartLeaves ==
  ASSUME NEW q \in Nat, Move - 1 <= q
  PROVE  /\ q \div Move \in Nat
         /\ q - q \div Move >= Move - 1
         /\ q - q \div Move \in Nat
<1> DEFINE d == q \div Move
<1>1. d \in Nat /\ Move * d <= q /\ Move \in Nat /\ Move >= 2
  BY Constants, DivMul
<1> HIDE DEF d
<1>2. CASE d = 0
  BY <1>1, <1>2 DEF d
<1>3. CASE d >= 1
  <2>1. (Move - 1) * d >= Move - 1
    BY <1>1, <1>3, MulMono, Move - 1 \in Nat, 1 \in Nat
  <2>2. Move * d - d = (Move - 1) * d
    BY <1>1
  <2> QED
    BY <1>1, <2>1, <2>2 DEF d
<1> QED
  BY <1>1, <1>2, <1>3

(* UpdateBit1 and UpdateBit0 keep a probability off both ends.            *)
LEMMA LessKeeps ==
  ASSUME NEW q, ProbOK(q)
  PROVE  ProbOK(Less(q))
<1>1. /\ q \in Nat /\ q \div Move \in Nat /\ q - q \div Move >= Move - 1
      /\ q - q \div Move \in Nat
  BY PartLeaves DEF ProbOK
<1> QED
  BY <1>1, Constants DEF ProbOK, Less

LEMMA MoreKeeps ==
  ASSUME NEW q, ProbOK(q)
  PROVE  ProbOK(More(q))
<1> DEFINE r == Total - q
<1>0. r \in Nat /\ Move - 1 <= r /\ q \in Nat
  BY Constants DEF ProbOK
<1> HIDE DEF r
<1>1. r \div Move \in Nat /\ r - r \div Move >= Move - 1 /\ r - r \div Move \in Nat
  BY <1>0, PartLeaves
<1>2. More(q) = q + r \div Move
  BY DEF More, r
<1>3. q = Total - r
  BY <1>0, Constants DEF r
<1> QED
  BY <1>0, <1>1, <1>2, <1>3, Constants DEF ProbOK

(* Both parts of an interval of at least Top are at least Top / RcByte.      *)
LEMMA Split ==
  ASSUME NEW R \in Nat, R >= Top, NEW q, ProbOK(q)
  PROVE  /\ Bound(R, q) \in Nat
         /\ 0 < Bound(R, q) /\ Bound(R, q) < R
         /\ Bound(R, q) * RcByte >= Top
         /\ (R - Bound(R, q)) * RcByte >= Top
<1> DEFINE k == R \div Total
           u == Top \div Total
           m == Move - 1
           B == k * q
           C == k * (Total - q)
<1>1. /\ k \in Nat /\ Total * k <= R /\ R < Total * k + Total
      /\ u \in Nat /\ u >= 1 /\ Top = Total * u /\ Total \in Nat /\ Total >= 2
      /\ RcByte \in Nat /\ RcByte >= 2 /\ m \in Nat /\ m >= 1 /\ Total <= RcByte * m
      /\ Top \in Nat /\ Top >= 2
  BY Constants, DivMul
<1>2. q \in Nat /\ m <= q /\ Total - q \in Nat /\ m <= Total - q
  BY Constants DEF ProbOK
<1> HIDE DEF k, u, m
<1>3. u <= k
  <2>1. Total * u < Total * (k + 1)
    BY <1>1
  <2> QED
    BY <1>1, <2>1, MulMono
<1>4. u * m <= B /\ u * m <= C /\ B \in Nat /\ C \in Nat
  <2>1. u * m <= k * m /\ k * m <= k * q /\ k * m <= k * (Total - q)
    BY <1>1, <1>2, <1>3, MulMono
  <2> QED
    BY <1>1, <1>2, <2>1, MulMono
<1>5. u * m \in Nat /\ Top <= (u * m) * RcByte
  <2>1. u * Total <= u * (RcByte * m)
    BY <1>1, MulMono, RcByte * m \in Nat
  <2> QED
    BY <1>1, <2>1
<1>6. C <= R - B
  BY <1>1, <1>2
<1> HIDE DEF B, C
<1>7. B * RcByte >= Top /\ C * RcByte >= Top
  BY <1>1, <1>4, <1>5, MulMono
<1>8. R - B \in Nat /\ (R - B) * RcByte >= C * RcByte
  BY <1>1, <1>4, <1>6, MulMono
<1>9. B > 0 /\ C > 0
  BY <1>1, <1>4, <1>7
<1>10. Bound(R, q) = B
  BY DEF Bound, B, k
<1> QED
  BY <1>1, <1>4, <1>6, <1>7, <1>8, <1>9, <1>10

-----------------------------------------------------------------------------
(* What RC_NORMALIZE leaves, given an interval that one byte widens.       *)
LEMMA Normalized ==
  ASSUME Range \in Nat, Code \in Nat, Range * RcByte >= Top,
         NEW b \in 0 .. RcByte - 1
  PROVE  /\ NormRange \in Nat /\ NormRange >= Top
         /\ NormCode(b) \in Nat
         /\ Code < Range => NormCode(b) < NormRange
<1>0. RcByte \in Nat /\ RcByte >= 2 /\ Top \in Nat /\ RcWord \in Nat /\ RcWord > 1
  BY Constants
<1>1. CASE Range >= Top
  <2>1. NormRange = Range /\ NormCode(b) = Code
    BY <1>0, <1>1 DEF NormRange, NormCode, Narrow
  <2> QED
    BY <1>1, <2>1
<1>2. CASE Range < Top
  <2> DEFINE R == Range * RcByte
             K == Code * RcByte
  <2>1. NormRange = R /\ NormCode(b) = (K + b) % RcWord
    BY <1>2 DEF NormRange, NormCode, Narrow, Shifted
  <2>2. R \in Nat /\ K \in Nat /\ b \in Nat /\ b < RcByte /\ R >= Top
    BY <1>0, MulMono
  <2>3. ASSUME Code < Range
        PROVE  K + RcByte <= R /\ R <= RcWord
    <3>1. (Code + 1) * RcByte <= R /\ (Code + 1) * RcByte = K + RcByte
      BY <1>0, <2>3, MulMono
    <3>2. R <= RcWord
      BY <1>0, <1>2, MulMono DEF RcWord
    <3> QED
      BY <3>1, <3>2
  <2> HIDE DEF R, K
  <2>4. K + b \in Nat /\ (K + b) % RcWord \in Nat
    BY <1>0, <2>2, ModNat
  <2>5. ASSUME Code < Range
        PROVE  (K + b) % RcWord < R
    <3>1. K + b < R /\ K + b < RcWord
      BY <1>0, <2>2, <2>3, <2>5
    <3>2. (K + b) % RcWord = K + b
      BY <1>0, <2>4, <3>1, ModSmall
    <3> QED
      BY <3>1, <3>2
  <2> QED
    BY <2>1, <2>2, <2>4, <2>5
<1> QED
  BY <1>0, <1>1, <1>2

(* Half of an interval of at least Top.                                    *)
LEMMA Halved ==
  ASSUME NEW R \in Nat, R >= Top
  PROVE  R \div 2 \in Nat /\ (R \div 2) * RcByte >= Top
<1> DEFINE u == Top \div Total
           t == Total \div 2
           h == R \div 2
<1>1. /\ Total \in Nat /\ Total = 2 * t /\ t \in Nat /\ u \in Nat /\ Top = Total * u
      /\ RcByte \in Nat /\ RcByte >= 2 /\ h \in Nat /\ R <= 2 * h + 1
  BY Constants, CoderAssumption
<1> HIDE DEF u, t, h
<1>2. t * u \in Nat /\ Top = 2 * (t * u)
  BY <1>1
<1>3. t * u <= h
  BY <1>1, <1>2
<1>4. h * 2 <= h * RcByte
  BY <1>1, MulMono
<1> QED
  BY <1>1, <1>2, <1>3, <1>4 DEF h

-----------------------------------------------------------------------------
(* The inductive invariant: one byte widens the interval to Top, every     *)
(* probability keeps Move - 1 from both ends, and a sound code is inside.  *)
IInv ==
  /\ Range \in Nat /\ Code \in Nat /\ sound \in BOOLEAN
  /\ Range * RcByte >= Top
  /\ p \in [Contexts -> Nat] /\ \A c \in Contexts : ProbOK(p[c])
  /\ rpc = "init" => sound = FALSE
  /\ sound => Code < Range

(* The coder starts inside the invariant.                                  *)
LEMMA InitIInv == RcInit => IInv
<1> SUFFICES ASSUME RcInit PROVE IInv
  OBVIOUS
<1>1. Range = RcWord - 1 /\ RcWord \in Nat /\ RcWord > 1 /\ RcByte \in Nat /\ RcByte >= 2
      /\ Top \in Nat /\ Top >= 2
  BY Constants DEF RcInit
<1>2. Range \in Nat /\ Range >= Top
  <2>1. Top * 2 <= RcWord
    BY <1>1, MulMono DEF RcWord
  <2> QED
    BY <1>1, <2>1
<1>3. Range * 1 <= Range * RcByte
  BY <1>1, <1>2, MulMono
<1>4. Range * RcByte >= Top
  BY <1>1, <1>2, <1>3
<1>5. ProbOK(Total \div 2)
  BY Constants, CoderAssumption DEF ProbOK
<1> QED
  BY <1>2, <1>4, <1>5 DEF IInv, RcInit, ProbOK

(* Every step of the coder keeps it.                                       *)
LEMMA StepIInv == IInv /\ [RcNext]_rcVars => IInv'
<1> SUFFICES ASSUME IInv, [RcNext]_rcVars PROVE IInv'
  OBVIOUS
<1> USE DEF IInv
<1>1. CASE InitByte
  <2>1. PICK b \in 0 .. RcByte - 1 : Code' = Shifted(Code, b)
    BY <1>1 DEF InitByte
  <2>2. Code * RcByte + b \in Nat
    BY Constants, MulMono
  <2>3. Code' \in Nat
    BY <2>1, <2>2, Constants, ModNat DEF Shifted
  <2> QED
    BY <1>1, <2>3 DEF InitByte
<1>2. CASE InitDone
  BY <1>2 DEF InitDone
<1>3. CASE InputEnd
  BY <1>3 DEF InputEnd
<1>4. CASE ModelBit
  <2>1. PICK c \in Contexts, b \in 0 .. RcByte - 1 : Bit0(c, b) \/ Bit1(c, b)
    BY <1>4 DEF ModelBit
  <2> DEFINE N == NormRange
             K == NormCode(b)
             B == Bound(N, p[c])
  <2>2. N \in Nat /\ N >= Top /\ K \in Nat /\ (Code < Range => K < N)
    BY Normalized
  <2>3. ProbOK(p[c])
    OBVIOUS
  <2>4. B \in Nat /\ 0 < B /\ B < N /\ B * RcByte >= Top /\ (N - B) * RcByte >= Top
    BY <2>2, <2>3, Split
  <2>5. CASE Bit0(c, b)
    <3>1. K < B /\ Range' = B /\ Code' = K /\ p' = [p EXCEPT ![c] = More(@)]
      BY <2>5 DEF Bit0
    <3> HIDE DEF N, K, B
    <3>2. Range' \in Nat /\ Code' \in Nat /\ Code' < Range' /\ Range' * RcByte >= Top
      BY <2>2, <2>4, <3>1
    <3>3. p' \in [Contexts -> Nat] /\ \A d \in Contexts : ProbOK(p'[d])
      BY <2>3, <3>1, MoreKeeps DEF ProbOK
    <3> QED
      BY <1>4, <3>2, <3>3 DEF ModelBit
  <2>6. CASE Bit1(c, b)
    <3>1. K >= B /\ Range' = N - B /\ Code' = K - B /\ p' = [p EXCEPT ![c] = Less(@)]
      BY <2>6 DEF Bit1
    <3> HIDE DEF N, K, B
    <3>2. /\ Range' \in Nat /\ Code' \in Nat /\ Range' * RcByte >= Top
          /\ Code < Range => Code' < Range'
      BY <2>2, <2>4, <3>1
    <3>3. p' \in [Contexts -> Nat] /\ \A d \in Contexts : ProbOK(p'[d])
      BY <2>3, <3>1, LessKeeps DEF ProbOK
    <3> QED
      BY <1>4, <3>2, <3>3 DEF ModelBit
  <2> QED
    BY <2>1, <2>5, <2>6
<1>5. CASE DirectBit
  <2> DEFINE N == NormRange
             H == N \div 2
  <2>1. PICK b \in 0 .. RcByte - 1 :
          /\ Code' = IF UpperHalf(NormCode(b), H) THEN NormCode(b) - H ELSE NormCode(b)
          /\ sound' = (sound /\ NormCode(b) < 2 * H)
    BY <1>5 DEF DirectBit
  <2> DEFINE K == NormCode(b)
  <2>2. N \in Nat /\ N >= Top /\ K \in Nat
    BY Normalized
  <2>3. H \in Nat /\ H * RcByte >= Top
    BY <2>2, Halved
  <2>4. Range' = H /\ UNCHANGED <<p, n, rpc>> /\ rpc = "bits"
    BY <1>5 DEF DirectBit
  <2> HIDE DEF N, H, K
  <2>5. /\ Code' = IF K >= H THEN K - H ELSE K
        /\ sound' = (sound /\ K < 2 * H)
    BY <2>1 DEF UpperHalf, K
  <2>6. Code' \in Nat /\ (K < 2 * H => Code' < H)
    BY <2>2, <2>3, <2>5
  <2> QED
    BY <2>3, <2>4, <2>5, <2>6
<1>6. CASE UNCHANGED rcVars
  BY <1>6 DEF rcVars
<1> QED
  BY <1>1, <1>2, <1>3, <1>4, <1>5, <1>6 DEF RcNext

(* The invariant holds in every state of the coder.                        *)
THEOREM CoderInvariant == RcSpec => []IInv
  BY InitIInv, StepIInv, PTL DEF RcSpec

(* RC_NORMALIZE needs no loop, for every constant, stream and history of   *)
(* the probabilities: one byte brings Range back to kTopValue, and every   *)
(* bound splits it into two parts that are not empty.                      *)
THEOREM NormalizeSuffices == RcSpec => []OneByteNormalizes
<1>1. IInv => OneByteNormalizes
  <2> SUFFICES ASSUME IInv PROVE OneByteNormalizes
    OBVIOUS
  <2>1. 0 \in 0 .. RcByte - 1
    BY Constants
  <2>2. NormRange \in Nat /\ NormRange >= Top
    BY <2>1, Normalized DEF IInv
  <2> QED
    BY <2>2, Split DEF IInv, OneByteNormalizes
<1> QED
  BY <1>1, CoderInvariant, PTL

(* The code of a stream that begins inside the interval and whose direct   *)
(* bits each leave it in one half stays inside, and the shift of           *)
(* RC_NORMALIZE drops none of its bits (CodeInRange).                      *)
THEOREM CodeStays == RcSpec => []CodeInRange
<1>1. IInv => CodeInRange
  <2> SUFFICES ASSUME IInv, sound PROVE CodeInRange
    BY DEF CodeInRange
  <2>1. Code \in Nat /\ Range \in Nat /\ Code < Range /\ RcByte \in Nat /\ RcByte >= 2 /\ Top \in Nat
    BY Constants DEF IInv
  <2>2. ASSUME Range < Top PROVE Code * RcByte + RcByte - 1 < RcWord
    <3>1. (Code + 1) * RcByte <= Top * RcByte
      BY <2>1, <2>2, MulMono, Code + 1 \in Nat
    <3> QED
      BY <2>1, <3>1 DEF RcWord
  <2> QED
    BY <2>1, <2>2 DEF CodeInRange
<1> QED
  BY <1>1, CoderInvariant, PTL

(* A code outside of the interval is outside after RC_NORMALIZE too, when  *)
(* the shift drops none of its bits.                                       *)
LEMMA StaysOutside ==
  ASSUME Range \in Nat, Code \in Nat, Code >= Range, ~(Range < Top /\ Code >= Top),
         NEW b \in 0 .. RcByte - 1
  PROVE  NormCode(b) >= NormRange
<1>0. RcByte \in Nat /\ RcByte >= 2 /\ Top \in Nat /\ RcWord \in Nat /\ RcWord > 1
  BY Constants
<1>1. CASE Range >= Top
  <2>1. NormRange = Range /\ NormCode(b) = Code
    BY <1>0, <1>1 DEF NormRange, NormCode, Narrow
  <2> QED BY <2>1
<1>2. CASE Range < Top
  <2> DEFINE R == Range * RcByte
             K == Code * RcByte
  <2>1. NormRange = R /\ NormCode(b) = (K + b) % RcWord
    BY <1>2 DEF NormRange, NormCode, Narrow, Shifted
  <2>2. R \in Nat /\ K \in Nat /\ R <= K
    BY <1>0, MulMono
  <2>3. K + RcByte <= RcWord
    <3>1. Code + 1 \in Nat /\ Code + 1 <= Top
      BY <1>0, <1>2
    <3>2. (Code + 1) * RcByte <= Top * RcByte
      BY <1>0, <3>1, MulMono
    <3>3. (Code + 1) * RcByte = K + RcByte
      BY <1>0
    <3> QED BY <3>2, <3>3 DEF RcWord
  <2> HIDE DEF R, K
  <2>4. K + b \in Nat /\ K + b < RcWord
    BY <1>0, <2>2, <2>3
  <2>5. (K + b) % RcWord = K + b
    BY <1>0, <2>4, ModSmall
  <2> QED BY <2>1, <2>2, <2>4, <2>5
<1> QED BY <1>0, <1>1, <1>2

(* For every stream, corrupt ones included, the code leaves its interval   *)
(* only by a direct bit at an odd Range and comes back only by a shift     *)
(* that drops bits of it (CodeCrossings).                                  *)
THEOREM CrossingsNamed == RcSpec => CodeCrossings
<1> DEFINE Leaves == Code < Range /\ Code' >= Range'
           Comes  == Code >= Range /\ Code' < Range'
           Lost   == Range < Top /\ Code >= Top
           OddHalf == /\ p' = p /\ NormRange % 2 = 1
                      /\ Code' = Range' /\ Range' = NormRange \div 2
           Step   == rpc = "bits" /\ rpc' = "bits" =>
                       (Leaves => OddHalf) /\ (Comes => Lost)
<1>1. ASSUME IInv, RcNext, rpc = "bits", rpc' = "bits"
      PROVE  (Leaves => OddHalf) /\ (Comes => Lost)
  <2>0. Range \in Nat /\ Code \in Nat /\ Range * RcByte >= Top
    BY <1>1 DEF IInv
  <2>1. CASE ModelBit
    <3>1. PICK c \in Contexts, b \in 0 .. RcByte - 1 : Bit0(c, b) \/ Bit1(c, b)
      BY <2>1 DEF ModelBit
    <3> DEFINE N == NormRange
               K == NormCode(b)
               B == Bound(N, p[c])
    <3>2. N \in Nat /\ N >= Top /\ K \in Nat /\ (Code < Range => K < N)
      BY <2>0, Normalized
    <3>3. Code >= Range /\ ~Lost => K >= N
      BY <2>0, StaysOutside
    <3>4. ProbOK(p[c])
      BY <1>1 DEF IInv
    <3>5. B \in Nat /\ 0 < B /\ B < N
      BY <3>2, <3>4, Split
    <3>6. \/ K < B /\ Range' = B /\ Code' = K
          \/ K >= B /\ Range' = N - B /\ Code' = K - B
      BY <3>1 DEF Bit0, Bit1
    <3> HIDE DEF N, K, B, Lost
    <3>7. ~Leaves
      BY <2>0, <3>2, <3>5, <3>6
    <3>8. Comes => Lost
      BY <2>0, <3>2, <3>3, <3>5, <3>6
    <3> QED BY <3>7, <3>8
  <2>2. CASE DirectBit
    <3> DEFINE N == NormRange
               H == N \div 2
    <3>1. PICK b \in 0 .. RcByte - 1 :
            Code' = IF UpperHalf(NormCode(b), H) THEN NormCode(b) - H ELSE NormCode(b)
      BY <2>2 DEF DirectBit
    <3> DEFINE K == NormCode(b)
    <3>2. N \in Nat /\ N >= Top /\ K \in Nat /\ (Code < Range => K < N)
      BY <2>0, Normalized
    <3>3. Code >= Range /\ ~Lost => K >= N
      BY <2>0, StaysOutside
    <3>4. Range' = H /\ p' = p
      BY <2>2 DEF DirectBit
    <3>5. H \in Nat /\ N % 2 \in {0, 1} /\ N = 2 * H + (N % 2)
      BY <3>2
    <3>6. Code' = IF K >= H THEN K - H ELSE K
      BY <3>1 DEF UpperHalf
    <3>7. OddHalf <=> N % 2 = 1 /\ Code' = H
      BY <3>4
    <3> DEFINE r == N % 2
    <3> HIDE DEF N, K, H, r, Lost, OddHalf
    <3>8. r \in {0, 1} /\ N = 2 * H + r /\ (OddHalf <=> r = 1 /\ Code' = H)
      BY <3>5, <3>7 DEF r
    <3>9. Leaves => r = 1 /\ Code' = H
      BY <2>0, <3>2, <3>4, <3>5, <3>6, <3>8
    <3>10. Comes => Lost
      BY <2>0, <3>2, <3>3, <3>4, <3>5, <3>6, <3>8
    <3> QED BY <3>8, <3>9, <3>10
  <2> QED BY <1>1, <2>1, <2>2 DEF RcNext, InitByte, InitDone, InputEnd
<1>2. IInv /\ [RcNext]_rcVars => [Step]_rcVars
  BY <1>1
<1>3. RcSpec => [][RcNext]_rcVars
  BY DEF RcSpec
<1> QED BY <1>2, <1>3, CoderInvariant, PTL DEF CodeCrossings
-----------------------------------------------------------------------------
(* The probability table and the distance slots.                           *)
LEMMA Powers ==
  /\ Pow2[0] = 1 /\ Pow2[1] = 2 /\ Pow2[2] = 4 /\ Pow2[3] = 8
  /\ Pow2[4] = 16 /\ Pow2[5] = 32 /\ Pow2[6] = 64 /\ Pow2[7] = 128
  /\ Pow2[8] = 256 /\ Pow2[9] = 512 /\ Pow2[10] = 1024 /\ Pow2[11] = 2048
  /\ Pow2[12] = 4096 /\ Pow2[13] = 8192 /\ Pow2[14] = 16384 /\ Pow2[15] = 32768
  /\ Pow2[16] = 65536 /\ Pow2[17] = 131072 /\ Pow2[18] = 262144 /\ Pow2[19] = 524288
  /\ Pow2[20] = 1048576 /\ Pow2[21] = 2097152 /\ Pow2[22] = 4194304 /\ Pow2[23] = 8388608
  /\ Pow2[24] = 16777216 /\ Pow2[25] = 33554432 /\ Pow2[26] = 67108864 /\ Pow2[27] = 134217728
  /\ Pow2[28] = 268435456 /\ Pow2[29] = 536870912 /\ Pow2[30] = 1073741824
BY DEF Pow2

LEMMA PowStep ==
  \A k \in 0 .. 29 : Pow2[k] \in Nat /\ Pow2[k] >= 1 /\ Pow2[k + 1] = 2 * Pow2[k]
<1>1. \A k : k \in 0 .. 29 <=> k \in {0, 1, 2, 3, 4, 5, 6, 7, 8, 9, 10, 11, 12, 13, 14,
                                 15, 16, 17, 18, 19, 20, 21, 22, 23, 24, 25, 26, 27, 28, 29}
  OBVIOUS
<1> QED BY <1>1, Powers

(* Where the parts of the table begin.                                     *)
LEMMA Layout ==
  /\ LenChoice = 0 /\ LenChoice2 = 1 /\ LenLow = 2 /\ LenMid = 130 /\ LenHigh = 258
  /\ kNumLenProbs = 514
  /\ IsMatch = 0 /\ IsRep = 192 /\ IsRepG0 = 204 /\ IsRepG1 = 216 /\ IsRepG2 = 228
  /\ IsRep0Long = 240 /\ PosSlot = 432 /\ SpecPos = 688 /\ Align = 802
  /\ LenCoder = 818 /\ RepLenCoder = 1332 /\ Literal = 1846
<1>1. /\ LenChoice = 0 /\ LenChoice2 = 1 /\ LenLow = 2 /\ LenMid = 130 /\ LenHigh = 258
      /\ kNumLenProbs = 514
  BY Powers DEF LenChoice, LenChoice2, LenLow, LenMid, LenHigh, kNumLenProbs, kNumPosBitsMax,
                kLenNumLowBits, kLenNumMidBits, kLenNumHighBits
<1>2. /\ IsMatch = 0 /\ IsRep = 192 /\ IsRepG0 = 204 /\ IsRepG1 = 216 /\ IsRepG2 = 228
      /\ IsRep0Long = 240 /\ PosSlot = 432 /\ SpecPos = 688
  BY Powers DEF IsMatch, IsRep, IsRepG0, IsRepG1, IsRepG2, IsRep0Long, PosSlot, SpecPos,
                kNumStates, kNumPosBitsMax, kNumLenToPosStates, kNumPosSlotBits
<1>3. Align = 802
  <2>1. kNumFullDistances = 128
    BY Powers DEF kNumFullDistances, kEndPosModelIndex
  <2> QED BY <1>2, <2>1 DEF Align, kEndPosModelIndex
<1>4. LenCoder = 818
  BY <1>3, Powers DEF LenCoder, kNumAlignBits
<1>5. RepLenCoder = 1332 /\ Literal = 1846
  BY <1>1, <1>4 DEF RepLenCoder, Literal
<1> QED BY <1>1, <1>2, <1>3, <1>4, <1>5

(* The slots with probabilities of their own.                              *)
ModelSlots == kStartPosModelIndex .. kEndPosModelIndex - 1

SlotAt(slot, first, bits) ==
  /\ SlotBase(slot) = first /\ numDirectBits(slot) = bits

LEMMA SlotTable ==
  /\ SlotAt(4, 4, 1) /\ SlotAt(5, 6, 1) /\ SlotAt(6, 8, 2) /\ SlotAt(7, 12, 2)
  /\ SlotAt(8, 16, 3) /\ SlotAt(9, 24, 3) /\ SlotAt(10, 32, 4) /\ SlotAt(11, 48, 4)
  /\ SlotAt(12, 64, 5) /\ SlotAt(13, 96, 5)
<1>1. /\ numDirectBits(4) = 1 /\ numDirectBits(5) = 1 /\ numDirectBits(6) = 2
      /\ numDirectBits(7) = 2 /\ numDirectBits(8) = 3 /\ numDirectBits(9) = 3
      /\ numDirectBits(10) = 4 /\ numDirectBits(11) = 4 /\ numDirectBits(12) = 5
      /\ numDirectBits(13) = 5
  BY DEF numDirectBits
<1> QED BY <1>1, Powers DEF SlotAt, SlotBase, kStartPosModelIndex

LEMMA ModelSlot ==
  ASSUME NEW s \in ModelSlots
  PROVE  s \in {4, 5, 6, 7, 8, 9, 10, 11, 12, 13}
BY DEF ModelSlots, kStartPosModelIndex, kEndPosModelIndex

(* The indexes of a slot, counted from SpecPos.                            *)
SlotLow(s)  == SlotBase(s) - s
SlotHigh(s) == SlotBase(s) - s - 1 + (Pow2[numDirectBits(s)] - 1)

SlotSpan(s, low, high) == SlotLow(s) = low /\ SlotHigh(s) = high

LEMMA SpanTable ==
  /\ SlotSpan(4, 0, 0) /\ SlotSpan(5, 1, 1) /\ SlotSpan(6, 2, 4) /\ SlotSpan(7, 5, 7)
  /\ SlotSpan(8, 8, 14) /\ SlotSpan(9, 15, 21) /\ SlotSpan(10, 22, 36) /\ SlotSpan(11, 37, 51)
  /\ SlotSpan(12, 52, 82) /\ SlotSpan(13, 83, 113)
BY SlotTable, Powers DEF SlotSpan, SlotLow, SlotHigh, SlotAt

LEMMA SlotIndexes ==
  ASSUME NEW s \in ModelSlots
  PROVE  /\ SlotLow(s) \in 0 .. 113 /\ SlotHigh(s) \in 0 .. 113
         /\ SpecPosIndexes(s) \subseteq SpecPos + SlotLow(s) .. SpecPos + SlotHigh(s)
<1>1. s \in {4, 5, 6, 7, 8, 9, 10, 11, 12, 13}
  BY ModelSlot
<1>2. SlotLow(s) \in 0 .. 113 /\ SlotHigh(s) \in 0 .. 113
  BY <1>1, SpanTable DEF SlotSpan
<1>3. SlotBase(s) \in 4 .. 96 /\ numDirectBits(s) \in 1 .. 5
  BY <1>1, SlotTable DEF SlotAt
<1> DEFINE first == SlotBase(s)
           bits  == numDirectBits(s)
<1>4. SpecPosIndexes(s) = {SpecPos + first - s - 1 + node : node \in 1 .. Pow2[bits] - 1}
  BY DEF SpecPosIndexes, Tree
<1>5. Pow2[bits] \in Nat /\ SpecPos = 688
  BY <1>3, PowStep, Layout
<1> HIDE DEF first, bits
<1>6. SlotLow(s) = first - s /\ SlotHigh(s) = first - s - 1 + (Pow2[bits] - 1)
  BY DEF SlotLow, SlotHigh, first, bits
<1>7. first \in Nat /\ s \in Nat
  BY <1>1, <1>3 DEF first
<1>8. ASSUME NEW x \in SpecPosIndexes(s)
      PROVE  x \in SpecPos + SlotLow(s) .. SpecPos + SlotHigh(s)
  <2>1. PICK node \in 1 .. Pow2[bits] - 1 : x = SpecPos + first - s - 1 + node
    BY <1>4
  <2> QED BY <1>5, <1>6, <1>7, <2>1
<1> QED BY <1>2, <1>8

(* No two slots share an index.                                            *)
LEMMA SlotsApart ==
  ASSUME NEW s \in ModelSlots, NEW t \in ModelSlots, s # t
  PROVE  SpecPosIndexes(s) \cap SpecPosIndexes(t) = {}
<1>1. /\ s \in {4, 5, 6, 7, 8, 9, 10, 11, 12, 13}
      /\ t \in {4, 5, 6, 7, 8, 9, 10, 11, 12, 13}
  BY ModelSlot
<1>2. SlotHigh(s) < SlotLow(t) \/ SlotHigh(t) < SlotLow(s)
  <2>1. CASE s < t
    BY <1>1, <2>1, SpanTable DEF SlotSpan
  <2>2. CASE t < s
    BY <1>1, <2>2, SpanTable DEF SlotSpan
  <2> QED BY <1>1, <2>1, <2>2
<1>3. SpecPos = 688
  BY Layout
<1> QED BY <1>2, <1>3, SlotIndexes

(* Each slot ends where the next begins.                                   *)
LEMMA SlotEnds ==
  ASSUME NEW slot \in 0 .. 62
  PROVE  EndsAtNext(slot)
<1>1. CASE slot <= 3
  <2>1. slot \in {0, 1, 2, 3}
    BY <1>1
  <2>2. numDirectBits(4) = 1 /\ 4 % 2 = 0
    BY DEF numDirectBits
  <2> QED BY <2>1, <2>2, Powers DEF EndsAtNext, SlotBase, SlotSize, kStartPosModelIndex
<1>2. CASE slot >= 4
  <2> DEFINE k == slot \div 2
  <2>1. k \in 2 .. 31 /\ (slot = 2 * k \/ slot = 2 * k + 1)
    BY <1>2
  <2>2. CASE slot = 2 * k
    <3>1. (slot + 1) \div 2 = k /\ slot % 2 = 0 /\ (slot + 1) % 2 = 1
      BY <2>1, <2>2
    <3>2. numDirectBits(slot) = k - 1 /\ numDirectBits(slot + 1) = k - 1
      BY <3>1 DEF numDirectBits
    <3>3. Pow2[k - 1] \in Nat
      BY <2>1, PowStep, Powers
    <3> HIDE DEF k
    <3>4. /\ SlotBase(slot) = 2 * Pow2[k - 1] /\ SlotSize(slot) = Pow2[k - 1]
          /\ SlotBase(slot + 1) = 3 * Pow2[k - 1]
      BY <1>2, <3>1, <3>2, <3>3 DEF SlotBase, SlotSize, kStartPosModelIndex
    <3> QED BY <3>3, <3>4 DEF EndsAtNext
  <2>3. CASE slot = 2 * k + 1
    <3>1. (slot + 1) \div 2 = k + 1 /\ slot % 2 = 1 /\ (slot + 1) % 2 = 0 /\ k <= 30
      BY <2>1, <2>3
    <3>2. numDirectBits(slot) = k - 1 /\ numDirectBits(slot + 1) = k
      BY <2>1, <3>1 DEF numDirectBits
    <3>3. k - 1 \in 0 .. 29 /\ (k - 1) + 1 = k
      BY <2>1, <3>1
    <3>4. Pow2[k - 1] \in Nat /\ Pow2[k] = 2 * Pow2[k - 1]
      BY <3>3, PowStep
    <3> HIDE DEF k
    <3>5. /\ SlotBase(slot) = 3 * Pow2[k - 1] /\ SlotSize(slot) = Pow2[k - 1]
          /\ SlotBase(slot + 1) = 2 * Pow2[k]
      BY <1>2, <3>1, <3>2, <3>4 DEF SlotBase, SlotSize, kStartPosModelIndex
    <3> QED BY <3>4, <3>5 DEF EndsAtNext
  <2> QED BY <2>1, <2>2, <2>3
<1> QED BY <1>1, <1>2

(* Of all 64 slots a stream can spell, each ends where the next begins,    *)
(* those that TLC's integers do not reach included; no two of them share a *)
(* probability, and each do-while loop over a slot's bits has one to read. *)
THEOREM SlotsTile ==
  /\ \A slot \in 0 .. 62 : EndsAtNext(slot)
  /\ posSlot \in 0 .. 63 => DistancesTile
<1>1. \A slot \in 0 .. 62 : EndsAtNext(slot)
  BY SlotEnds
<1> SUFFICES ASSUME posSlot \in 0 .. 63 PROVE DistancesTile
  BY <1>1
<1>2. posSlot = 0 => SlotBase(posSlot) = 0
  BY DEF SlotBase, kStartPosModelIndex
<1>3. posSlot <= 60 => EndsAtNext(posSlot)
  BY <1>1
<1>4. ASSUME posSlot \in ModelSlots
      PROVE  /\ numDirectBits(posSlot) >= 1
             /\ \A s \in ModelSlots \ {posSlot} :
                  SpecPosIndexes(s) \cap SpecPosIndexes(posSlot) = {}
  <2>1. numDirectBits(posSlot) >= 1
    BY <1>4 DEF ModelSlots, numDirectBits, kStartPosModelIndex, kEndPosModelIndex
  <2> QED BY <1>4, <2>1, SlotsApart
<1>5. posSlot >= kEndPosModelIndex => numDirectBits(posSlot) - kNumAlignBits >= 1
  BY DEF numDirectBits, kEndPosModelIndex, kNumAlignBits
<1> QED BY <1>2, <1>3, <1>4, <1>5 DEF DistancesTile, ModelSlots

-----------------------------------------------------------------------------
(* LzmaDecodeProperties takes the byte apart: the loops divide.            *)
Divides(r, y, step) ==
  /\ r.count \in Nat /\ r.left \in Nat /\ r.left < step
  /\ y = r.count * step + r.left

Loop(f, step) ==
  f = [y \in 0 .. 255 |-> IF y >= step
                          THEN [count |-> f[y - step].count + 1, left |-> f[y - step].left]
                          ELSE [count |-> 0, left |-> y]]

LEMMA OneMore ==
  ASSUME NEW c \in Nat, NEW l \in Nat, NEW step \in Nat, NEW y \in Nat,
         y - step = c * step + l
  PROVE  y = (c + 1) * step + l
OBVIOUS

LEMMA LoopDivides ==
  ASSUME NEW step \in Nat, step >= 1, NEW f, Loop(f, step)
  PROVE  \A y \in 0 .. 255 : Divides(f[y], y, step)
<1> DEFINE T == {y \in 0 .. 255 : ~Divides(f[y], y, step)}
<1> SUFFICES ASSUME T # {} PROVE FALSE
  OBVIOUS
<1>1. PICK y \in T : \A z \in T : y <= z
  <2>1. T \in SUBSET Nat
    OBVIOUS
  <2> HIDE DEF T
  <2> QED BY <2>1, LeastNatural
<1>2. y \in 0 .. 255 /\ y \in Nat /\ ~Divides(f[y], y, step)
  BY <1>1
<1>3. CASE y >= step
  <2>1. y - step \in 0 .. 255 /\ y - step < y
    BY <1>2, <1>3
  <2>2. Divides(f[y - step], y - step, step)
    BY <1>1, <2>1
  <2> DEFINE c == f[y - step].count
             l == f[y - step].left
  <2>3. c \in Nat /\ l \in Nat /\ l < step /\ y - step = c * step + l
    BY <2>2 DEF Divides
  <2>4. f[y] = [count |-> c + 1, left |-> l]
    BY <1>2, <1>3 DEF Loop
  <2> HIDE DEF c, l
  <2>5. y = (c + 1) * step + l
    BY <1>2, <2>3, OneMore
  <2>6. f[y].count = c + 1 /\ f[y].left = l /\ c + 1 \in Nat
    BY <2>3, <2>4
  <2> QED BY <1>2, <2>3, <2>5, <2>6 DEF Divides
<1>4. CASE y < step
  <2>1. f[y] = [count |-> 0, left |-> y]
    <3>1. ~(y >= step)
      BY <1>2, <1>4
    <3>2. f[y] = IF y >= step
                 THEN [count |-> f[y - step].count + 1, left |-> f[y - step].left]
                 ELSE [count |-> 0, left |-> y]
      BY <1>2, Zenon DEF Loop
    <3> QED BY <3>1, <3>2
  <2>2. y = 0 * step + y
    BY <1>2
  <2> QED BY <1>2, <1>4, <2>1, <2>2 DEF Divides
<1> QED BY <1>2, <1>3, <1>4

LEMMA Backwards ==
  ASSUME NEW y \in Nat, NEW step \in Nat, step >= 1, y >= step
  PROVE  (y - step) \div step + 1 = y \div step /\ (y - step) % step = y % step
<1> DEFINE q == (y - step) \div step
           r == (y - step) % step
<1>1. q \in Int /\ r \in 0 .. step - 1 /\ y - step = q * step + r
  OBVIOUS
<1> HIDE DEF q, r
<1>2. y = (q + 1) * step + r
  BY <1>1
<1>3. y \div step = q + 1 /\ y % step = r
  BY <1>1, <1>2
<1> QED BY <1>3 DEF q, r

LEMMA LoopExists ==
  ASSUME NEW step \in Nat, step >= 1
  PROVE  \E f : Loop(f, step)
<1> DEFINE g == [y \in 0 .. 255 |-> [count |-> y \div step, left |-> y % step]]
<1>1. ASSUME NEW y \in 0 .. 255
      PROVE  g[y] = IF y >= step
                    THEN [count |-> g[y - step].count + 1, left |-> g[y - step].left]
                    ELSE [count |-> 0, left |-> y]
  <2>1. CASE y >= step
    <3>1. y - step \in 0 .. 255
      BY <2>1
    <3>2. g[y - step].count = (y - step) \div step /\ g[y - step].left = (y - step) % step
      BY <3>1
    <3>3. (y - step) \div step + 1 = y \div step /\ (y - step) % step = y % step
      <4>1. y \in Nat
        OBVIOUS
      <4> QED BY <2>1, <4>1, Backwards
    <3> QED BY <2>1, <3>2, <3>3
  <2>2. CASE y < step
    <3>1. y \div step = 0 /\ y % step = y
      BY <2>2
    <3> QED BY <2>2, <3>1
  <2> QED BY <2>1, <2>2
<1>2. g = [y \in 0 .. 255 |-> IF y >= step
                          THEN [count |-> g[y - step].count + 1, left |-> g[y - step].left]
                          ELSE [count |-> 0, left |-> y]]
  <2>1. \A y \in 0 .. 255 :
          g[y] = IF y >= step
                 THEN [count |-> g[y - step].count + 1, left |-> g[y - step].left]
                 ELSE [count |-> 0, left |-> y]
    BY <1>1
  <2>2. g = [y \in 0 .. 255 |-> g[y]]
    OBVIOUS
  <2> HIDE DEF g
  <2> QED BY <2>1, <2>2
<1> HIDE DEF g
<1> QED BY <1>2 DEF Loop

LEMMA SubtractDivides ==
  ASSUME NEW x \in 0 .. 255, NEW step \in Nat, step >= 1
  PROVE  Divides(Subtract(x, step), x, step)
<1> DEFINE f == CHOOSE f : Loop(f, step)
<1>1. Loop(f, step)
  BY LoopExists
<1>2. Subtract(x, step) = f[x]
  BY Zenon DEF Subtract, Loop
<1> HIDE DEF f
<1> QED BY <1>1, <1>2, LoopDivides

LEMMA PropertiesOf ==
  ASSUME NEW byte \in Accepted
  PROVE  LET pr == LzmaDecodeProperties(byte)
         IN  /\ byte = (pr.pb * 5 + pr.lp) * 9 + pr.lc
             /\ pr.lc \in 0 .. 8 /\ pr.lp \in 0 .. 4 /\ pr.pb \in 0 .. 4
<1> DEFINE forPb == Subtract(byte, 9 * 5)
           forLp == Subtract(forPb.left, 9)
           pr    == LzmaDecodeProperties(byte)
<1>1. byte \in 0 .. 224
  BY DEF Accepted
<1>2. Divides(forPb, byte, 45)
  BY <1>1, SubtractDivides
<1>3. forPb.count \in Nat /\ forPb.left \in 0 .. 44 /\ byte = forPb.count * 45 + forPb.left
  BY <1>2 DEF Divides
<1>4. Divides(forLp, forPb.left, 9)
  <2> DEFINE x == forPb.left
  <2>1. x \in 0 .. 255
    BY <1>3
  <2> HIDE DEF x
  <2>2. Divides(Subtract(x, 9), x, 9)
    BY <2>1, SubtractDivides
  <2> QED BY <2>2 DEF x
<1>5. forLp.count \in Nat /\ forLp.left \in 0 .. 8 /\ forPb.left = forLp.count * 9 + forLp.left
  BY <1>4 DEF Divides
<1>6. pr.pb = forPb.count /\ pr.lp = forLp.count /\ pr.lc = forLp.left
  BY DEF LzmaDecodeProperties
<1> DEFINE a == forPb.count
           b == forLp.count
           c == forLp.left
           l == forPb.left
<1>7. /\ byte \in 0 .. 224 /\ a \in Nat /\ b \in Nat /\ c \in 0 .. 8 /\ l \in 0 .. 44
      /\ byte = a * 45 + l /\ l = b * 9 + c
      /\ pr.pb = a /\ pr.lp = b /\ pr.lc = c
  BY <1>1, <1>3, <1>5, <1>6
<1> HIDE DEF a, b, c, l
<1>8. byte = (a * 5 + b) * 9 + c /\ b \in 0 .. 4 /\ a \in 0 .. 4
  BY <1>7
<1> HIDE DEF pr
<1>9. /\ byte = (pr.pb * 5 + pr.lp) * 9 + pr.lc
      /\ pr.lc \in 0 .. 8 /\ pr.lp \in 0 .. 4 /\ pr.pb \in 0 .. 4
  BY <1>7, <1>8
<1> QED BY <1>9 DEF pr

(* The properties a file can set.                                          *)
Legal(pr) == pr.lc \in 0 .. 8 /\ pr.lp \in 0 .. 4 /\ pr.pb \in 0 .. 4

LEMMA SmallPower ==
  ASSUME NEW k \in 0 .. 8
  PROVE  Pow2[k] \in 1 .. 256 /\ (k <= 4 => Pow2[k] \in 1 .. 16)
<1>1. k \in {0, 1, 2, 3, 4, 5, 6, 7, 8}
  OBVIOUS
<1> QED BY <1>1, Powers

LEMMA PowerSum ==
  ASSUME NEW a \in 0 .. 8, NEW b \in 0 .. 4
  PROVE  Pow2[a + b] = Pow2[b] * Pow2[a]
<1>1. ASSUME NEW k \in 0 .. 8
      PROVE  /\ Pow2[k + 0] = 1 * Pow2[k] /\ Pow2[k + 1] = 2 * Pow2[k]
             /\ Pow2[k + 2] = 4 * Pow2[k] /\ Pow2[k + 3] = 8 * Pow2[k]
             /\ Pow2[k + 4] = 16 * Pow2[k]
  <2>1. k \in {0, 1, 2, 3, 4, 5, 6, 7, 8}
    OBVIOUS
  <2> QED BY <2>1, Powers
<1>2. b \in {0, 1, 2, 3, 4}
  OBVIOUS
<1> QED BY <1>1, <1>2, Powers

LEMMA ByteShift ==
  ASSUME NEW a \in 0 .. 8, NEW byte \in 0 .. 255
  PROVE  byte \div Pow2[8 - a] \in Nat /\ byte \div Pow2[8 - a] < Pow2[a]
<1>1. a \in {0, 1, 2, 3, 4, 5, 6, 7, 8}
  OBVIOUS
<1>2. /\ byte \div 256 \in 0 .. 0 /\ byte \div 128 \in 0 .. 1 /\ byte \div 64 \in 0 .. 3
      /\ byte \div 32 \in 0 .. 7 /\ byte \div 16 \in 0 .. 15 /\ byte \div 8 \in 0 .. 31
      /\ byte \div 4 \in 0 .. 63 /\ byte \div 2 \in 0 .. 127 /\ byte \div 1 \in 0 .. 255
  OBVIOUS
<1> QED BY <1>1, <1>2, Powers

(* Row a of P rows of Q, place b.                                          *)
LEMMA RowInside ==
  ASSUME NEW P \in Nat, NEW Q \in Nat, NEW a \in Nat, NEW b \in Nat, a < P, b < Q
  PROVE  a * Q + b \in Nat /\ a * Q + b + 1 <= P * Q
<1>1. a * Q \in Nat /\ (a + 1) * Q = a * Q + Q
  OBVIOUS
<1>2. (a + 1) * Q <= P * Q
  OBVIOUS
<1> QED BY <1>1, <1>2

LEMMA LiteralInTable ==
  ASSUME NEW pr, Legal(pr), NEW place \in Nat, NEW byte \in 0 .. 255
  PROVE  LiteralFits(place, byte, pr)
<1> DEFINE P == Pow2[pr.lp]
           Q == Pow2[pr.lc]
           a == place % P
           b == byte \div Pow2[8 - pr.lc]
           row == a * Q + b
<1>1. pr.lc \in 0 .. 8 /\ pr.lp \in 0 .. 4 /\ pr.lp \in 0 .. 8
  BY DEF Legal
<1>2. P \in 1 .. 256 /\ Q \in 1 .. 256
  BY <1>1, SmallPower
<1>3. b \in Nat /\ b < Q
  <2> DEFINE k == pr.lc
  <2>1. k \in 0 .. 8
    BY <1>1
  <2> HIDE DEF k
  <2>2. byte \div Pow2[8 - k] \in Nat /\ byte \div Pow2[8 - k] < Pow2[k]
    BY <2>1, ByteShift
  <2> QED BY <2>2 DEF k
<1>4. Pow2[pr.lc + pr.lp] = P * Q
  BY <1>1, PowerSum
<1> HIDE DEF P, Q, b
<1>5. a \in Nat /\ a < P
  BY <1>2
<1> HIDE DEF a
<1>6. row \in Nat /\ row + 1 <= P * Q /\ P * Q \in Nat
  BY <1>2, <1>3, <1>5, RowInside
<1>7. LiteralCoder(place, byte, pr) = 1846 + 768 * row
  BY Layout DEF LiteralCoder, LZMA_LIT_SIZE, row, a, b, P, Q
<1>8. LzmaGetNumProbs(pr) = 1846 + 768 * (P * Q)
  BY <1>4 DEF LzmaGetNumProbs, LZMA_BASE_SIZE, LZMA_LIT_SIZE
<1> DEFINE M == P * Q
<1>9. row \in Nat /\ M \in Nat /\ row + 1 <= M /\ LzmaGetNumProbs(pr) = 1846 + 768 * M
  BY <1>6, <1>8
<1> HIDE DEF row, M
<1> QED BY <1>7, <1>9, Layout DEF LiteralFits, LZMA_LIT_SIZE

LEMMA PosStateInside ==
  ASSUME NEW pr, Legal(pr), NEW base \in Nat
  PROVE  Within(PosStateIndexes(base, pr), base, base + 192)
<1>1. Pow2[pr.pb] \in 1 .. 16
  BY SmallPower DEF Legal
<1>2. Pow2[kNumPosBitsMax] = 16
  BY Powers DEF kNumPosBitsMax
<1> SUFFICES ASSUME NEW x \in PosStateIndexes(base, pr) PROVE base <= x /\ x < base + 192
  BY DEF Within
<1>3. PICK s \in 0 .. 11, ps \in posStates(pr) : x = base + s * 16 + ps
  BY <1>2 DEF PosStateIndexes, kNumStates
<1>4. ps \in 0 .. 15
  BY <1>1 DEF posStates
<1> QED BY <1>3, <1>4

LEMMA TreeInside ==
  ASSUME NEW base \in Nat, NEW bits \in 0 .. 8, NEW x \in Tree(base, bits)
  PROVE  base <= x /\ x < base + Pow2[bits]
BY SmallPower DEF Tree

LEMMA LenInside ==
  ASSUME NEW pr, Legal(pr), NEW base \in Nat
  PROVE  Within(LenIndexes(base, pr), base, base + 514)
<1>1. Pow2[pr.pb] \in 1 .. 16
  BY SmallPower DEF Legal
<1>2. Pow2[3] = 8 /\ Pow2[8] = 256
  BY Powers
<1> SUFFICES ASSUME NEW x \in LenIndexes(base, pr) PROVE base <= x /\ x < base + 514
  BY DEF Within
<1>3. \/ x \in {base, base + 1}
      \/ \E ps \in posStates(pr) : x \in Tree(base + 2 + ps * 8, 3)
      \/ \E ps \in posStates(pr) : x \in Tree(base + 130 + ps * 8, 3)
      \/ x \in Tree(base + 258, 8)
  <2>1. /\ LenChoice = 0 /\ LenChoice2 = 1 /\ LenLow = 2 /\ LenMid = 130 /\ LenHigh = 258
        /\ kLenNumLowBits = 3 /\ kLenNumMidBits = 3 /\ kLenNumHighBits = 8 /\ base + 0 = base
    BY Layout DEF kLenNumLowBits, kLenNumMidBits, kLenNumHighBits
  <2> QED BY <1>2, <2>1 DEF LenIndexes
<1>4. CASE x \in {base, base + 1}
  BY <1>4
<1>5. ASSUME NEW ps \in posStates(pr), NEW off \in {2, 130}, x \in Tree(base + off + ps * 8, 3)
      PROVE  base <= x /\ x < base + 258
  <2> DEFINE b == base + off + ps * 8
  <2>1. ps \in 0 .. 15
    BY <1>1 DEF posStates
  <2>2. b \in Nat /\ base <= b /\ b + 8 <= base + 258
    BY <2>1
  <2>3. x \in Tree(b, 3)
    BY <1>5
  <2> HIDE DEF b
  <2>4. b <= x /\ x < b + 8 /\ x \in Int
    BY <1>2, <2>2, <2>3 DEF Tree
  <2> QED BY <2>2, <2>4
<1>6. ASSUME x \in Tree(base + 258, 8) PROVE base <= x /\ x < base + 514
  BY <1>2, <1>6 DEF Tree
<1>7. x \in Int
  <2>1. CASE x \in Tree(base + 258, 8)
    BY <1>2, <2>1 DEF Tree
  <2>2. ASSUME NEW ps \in posStates(pr), NEW off \in {2, 130}, x \in Tree(base + off + ps * 8, 3)
        PROVE  x \in Int
    <3>1. ps \in Int
      BY <1>1 DEF posStates
    <3> QED BY <1>2, <2>2, <3>1 DEF Tree
  <2> QED BY <1>3, <2>1, <2>2
<1> QED BY <1>3, <1>4, <1>5, <1>6, <1>7

LEMMA LayoutInside == LayoutFits
<1>1. Literal = LZMA_BASE_SIZE
  BY Layout DEF LZMA_BASE_SIZE
<1>2. ASSUME NEW base \in Nat PROVE Within(StateIndexes(base), base, base + 12)
  BY DEF Within, StateIndexes, kNumStates
<1>3. Within(PosSlotIndexes, PosSlot, SpecPos)
  <2> SUFFICES ASSUME NEW x \in PosSlotIndexes PROVE 432 <= x /\ x < 688
    BY Layout DEF Within
  <2>1. kNumPosSlotBits = 6 /\ Pow2[6] = 64 /\ PosSlot = 432 /\ kNumLenToPosStates = 4
    BY Powers, Layout DEF kNumPosSlotBits, kNumLenToPosStates
  <2>2. PICK l \in 0 .. 3 : x \in Tree(432 + l * 64, 6)
    BY <2>1 DEF PosSlotIndexes
  <2>3. PICK node \in 1 .. 63 : x = (432 + l * 64) + node
    BY <2>1, <2>2 DEF Tree
  <2> QED BY <2>3
<1>4. ASSUME NEW s \in ModelSlots PROVE Within(SpecPosIndexes(s), SpecPos, Align)
  <2>1. SpecPos = 688 /\ Align = 802
    BY Layout
  <2> QED BY <2>1, SlotIndexes DEF Within
<1>5. Within(Tree(Align, kNumAlignBits), Align, LenCoder)
  <2>1. Align = 802 /\ LenCoder = 818 /\ kNumAlignBits = 4 /\ Pow2[4] = 16
    BY Layout, Powers DEF kNumAlignBits
  <2> QED BY <2>1 DEF Within, Tree
<1>6. Within(LiteralOffsets, 0, LZMA_LIT_SIZE)
  BY DEF Within, LiteralOffsets, LZMA_LIT_SIZE
<1>7. /\ Within(StateIndexes(IsRep), IsRep, IsRepG0)
      /\ Within(StateIndexes(IsRepG0), IsRepG0, IsRepG1)
      /\ Within(StateIndexes(IsRepG1), IsRepG1, IsRepG2)
      /\ Within(StateIndexes(IsRepG2), IsRepG2, IsRep0Long)
  <2>1. /\ IsRepG0 = IsRep + 12 /\ IsRepG1 = IsRepG0 + 12 /\ IsRepG2 = IsRepG1 + 12
        /\ IsRep0Long = IsRepG2 + 12
        /\ IsRep \in Nat /\ IsRepG0 \in Nat /\ IsRepG1 \in Nat /\ IsRepG2 \in Nat
    BY Layout
  <2> QED BY <1>2, <2>1
<1> QED BY <1>1, <1>3, <1>4, <1>5, <1>6, <1>7 DEF LayoutFits, ModelSlots

(* Every index of the probability table stays in its part of the table     *)
(* that load_lzma allocates, for every first byte LzmaDecodeProperties     *)
(* accepts; a literal's for every position and every previous byte.        *)
THEOREM TableSuffices ==
  /\ prop0 \in 0 .. 255 => ProbIndexesInBounds
  /\ \A byte \in Accepted, place \in Nat, previous \in 0 .. 255 :
       LiteralFits(place, previous, LzmaDecodeProperties(byte))
<1>1. ASSUME NEW byte \in Accepted PROVE Legal(LzmaDecodeProperties(byte))
  BY PropertiesOf DEF Legal
<1>2. ASSUME NEW byte \in Accepted PROVE PropertiesFit(byte)
  <2> DEFINE pr == LzmaDecodeProperties(byte)
  <2>1. Legal(pr)
    BY <1>1
  <2>2. byte = (pr.pb * 5 + pr.lp) * 9 + pr.lc
    BY PropertiesOf
  <2> HIDE DEF pr
  <2>3. pr.lc < 9 /\ pr.lp < 5 /\ pr.pb < 5
    BY <2>1 DEF Legal
  <2>4. /\ IsMatch \in Nat /\ IsRep = IsMatch + 192
        /\ IsRep0Long \in Nat /\ PosSlot = IsRep0Long + 192
        /\ LenCoder \in Nat /\ RepLenCoder = LenCoder + 514
        /\ RepLenCoder \in Nat /\ Literal = RepLenCoder + 514
    BY Layout
  <2>5. /\ Within(PosStateIndexes(IsMatch, pr), IsMatch, IsRep)
        /\ Within(PosStateIndexes(IsRep0Long, pr), IsRep0Long, PosSlot)
    BY <2>1, <2>4, PosStateInside
  <2>6. /\ Within(LenIndexes(LenCoder, pr), LenCoder, RepLenCoder)
        /\ Within(LenIndexes(RepLenCoder, pr), RepLenCoder, Literal)
    BY <2>1, <2>4, LenInside
  <2>7. \A place \in 0 .. 15, previous \in {0, 1, 127, 128, 255} :
          LiteralFits(place, previous, pr)
    BY <2>1, LiteralInTable
  <2> QED BY <2>2, <2>3, <2>5, <2>6, <2>7 DEF PropertiesFit, pr
<1>3. ProbIndexesInBounds
  BY <1>2, LayoutInside DEF ProbIndexesInBounds, FittingBytes
<1> QED BY <1>1, <1>3, LiteralInTable
=============================================================================
