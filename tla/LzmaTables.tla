----------------------------- MODULE LzmaTables -----------------------------
(***************************************************************************)
(* The arithmetic around the decoder's probability table (LzmaDecode.c),   *)
(* with the code's own constants: LzmaDecodeProperties, the layout of the  *)
(* table, the index each decision uses, and the distance slots.            *)
(***************************************************************************)
EXTENDS LzmaConstants

VARIABLES
  prop0,     \* the first byte of the file
  posSlot    \* a distance slot that the stream may spell

tableVars == <<prop0, posSlot>>

TablesInit == prop0 \in 0 .. 255 /\ posSlot \in 0 .. 63

LZMA_BASE_SIZE == 1846
LZMA_LIT_SIZE == 768

LenChoice  == 0
LenChoice2 == LenChoice + 1
LenLow     == LenChoice2 + 1
LenMid     == LenLow + Pow2[kNumPosBitsMax] * Pow2[kLenNumLowBits]
LenHigh    == LenMid + Pow2[kNumPosBitsMax] * Pow2[kLenNumMidBits]
kNumLenProbs == LenHigh + Pow2[kLenNumHighBits]

IsMatch    == 0
IsRep      == IsMatch + kNumStates * Pow2[kNumPosBitsMax]
IsRepG0    == IsRep + kNumStates
IsRepG1    == IsRepG0 + kNumStates
IsRepG2    == IsRepG1 + kNumStates
IsRep0Long == IsRepG2 + kNumStates
PosSlot    == IsRep0Long + kNumStates * Pow2[kNumPosBitsMax]
SpecPos    == PosSlot + kNumLenToPosStates * Pow2[kNumPosSlotBits]

AlignTight == SpecPos + kNumFullDistances - kEndPosModelIndex - 1   \* mutant

Align      == SpecPos + kNumFullDistances - kEndPosModelIndex
LenCoder   == Align + Pow2[kNumAlignBits]
RepLenCoder == LenCoder + kNumLenProbs
Literal    == RepLenCoder + kNumLenProbs

-----------------------------------------------------------------------------
(* The loop for (k = 0; x >= step; k++, x -= step): k and what is left of  *)
(* x.                                                                      *)
Subtract(x, step) ==
  LET loop[y \in 0 .. 255] ==
        IF y >= step
        THEN [count |-> loop[y - step].count + 1, left |-> loop[y - step].left]
        ELSE [count |-> 0, left |-> y]
  IN  loop[x]

(* LzmaDecodeProperties of a first byte below 9 * 5 * 5.                   *)
Accepted == 0 .. 9 * 5 * 5 - 1

LzmaDecodeProperties(byte) ==
  LET forPb == Subtract(byte, 9 * 5)
      forLp == Subtract(forPb.left, 9)
  IN  [pb |-> forPb.count, lp |-> forLp.count, lc |-> forLp.left]

-----------------------------------------------------------------------------
(* The indexes of the table a decision may touch, by kind of decision, for *)
(* the properties pr.  A bit tree over n bits uses the nodes               *)
(* 1 .. 2^n - 1.                                                           *)
LzmaGetNumProbs(pr) == LZMA_BASE_SIZE + LZMA_LIT_SIZE * Pow2[pr.lc + pr.lp]

posStates(pr) == 0 .. Pow2[pr.pb] - 1
Tree(base, bits) == {base + node : node \in 1 .. Pow2[bits] - 1}

StateIndexes(base)    == {base + s : s \in 0 .. kNumStates - 1}
PosStateIndexes(base, pr) ==
  {base + s * Pow2[kNumPosBitsMax] + ps : s \in 0 .. kNumStates - 1, ps \in posStates(pr)}

LenIndexes(base, pr) ==
  {base + LenChoice, base + LenChoice2}
  \cup (UNION {Tree(base + LenLow + ps * Pow2[kLenNumLowBits], kLenNumLowBits)
                 : ps \in posStates(pr)})
  \cup (UNION {Tree(base + LenMid + ps * Pow2[kLenNumMidBits], kLenNumMidBits)
                 : ps \in posStates(pr)})
  \cup Tree(base + LenHigh, kLenNumHighBits)

PosSlotIndexes ==
  UNION {Tree(PosSlot + l * Pow2[kNumPosSlotBits], kNumPosSlotBits)
           : l \in 0 .. kNumLenToPosStates - 1}

(* numDirectBits and the first distance of a slot; the mutant loses the    *)
(* "- 1".                                                                  *)
numDirectBitsWide(slot) == slot \div 2

numDirectBits(slot) == slot \div 2 - 1

SlotBase(slot) ==
  IF slot < kStartPosModelIndex THEN slot
  ELSE (2 + (slot % 2)) * Pow2[numDirectBits(slot)]

SlotSize(slot) ==
  IF slot < kStartPosModelIndex THEN 1 ELSE Pow2[numDirectBits(slot)]

SpecPosIndexes(slot) ==
  Tree(SpecPos + SlotBase(slot) - slot - 1, numDirectBits(slot))

(* The literal coder of a position and a previous byte.                    *)
LiteralCoder(pos, previousByte, pr) ==
  Literal + LZMA_LIT_SIZE * ((pos % Pow2[pr.lp]) * Pow2[pr.lc] + previousByte \div Pow2[8 - pr.lc])

LiteralOffsets ==
  {symbol : symbol \in 1 .. 255}
  \cup {256 + bit + symbol : bit \in {0, 256}, symbol \in 1 .. 255}

LiteralFits(pos, previousByte, pr) ==
  /\ LiteralCoder(pos, previousByte, pr) >= Literal
  /\ LiteralCoder(pos, previousByte, pr) + LZMA_LIT_SIZE <= LzmaGetNumProbs(pr)

Within(S, low, high) == \A x \in S : low <= x /\ x < high

-----------------------------------------------------------------------------
(* The parts of the table that do not depend on the properties.            *)
LayoutFits ==
  /\ Literal = LZMA_BASE_SIZE
  /\ Within(StateIndexes(IsRep), IsRep, IsRepG0)
  /\ Within(StateIndexes(IsRepG0), IsRepG0, IsRepG1)
  /\ Within(StateIndexes(IsRepG1), IsRepG1, IsRepG2)
  /\ Within(StateIndexes(IsRepG2), IsRepG2, IsRep0Long)
  /\ Within(PosSlotIndexes, PosSlot, SpecPos)
  /\ \A s \in kStartPosModelIndex .. kEndPosModelIndex - 1 :
       Within(SpecPosIndexes(s), SpecPos, Align)
  /\ Within(Tree(Align, kNumAlignBits), Align, LenCoder)
  /\ Within(LiteralOffsets, 0, LZMA_LIT_SIZE)

(* ... and those that do, for a file's first byte.                         *)
PropertiesFit(byte) ==
  LET pr == LzmaDecodeProperties(byte)
  IN  /\ byte = (pr.pb * 5 + pr.lp) * 9 + pr.lc
      /\ pr.lc < 9 /\ pr.lp < 5 /\ pr.pb < 5
      /\ Within(PosStateIndexes(IsMatch, pr), IsMatch, IsRep)
      /\ Within(PosStateIndexes(IsRep0Long, pr), IsRep0Long, PosSlot)
      /\ Within(LenIndexes(LenCoder, pr), LenCoder, RepLenCoder)
      /\ Within(LenIndexes(RepLenCoder, pr), RepLenCoder, Literal)
      /\ \A pos \in 0 .. 15, previous \in {0, 1, 127, 128, 255} : LiteralFits(pos, previous, pr)

FittingBytes == {byte \in Accepted : PropertiesFit(byte)}

(* Every decision uses indexes of its own part of the table, and the table *)
(* load_lzma allocates with LzmaGetNumProbs holds them all, for every byte *)
(* that LzmaDecodeProperties accepts; and the byte is 9 * 5 * pb + 9 * lp  *)
(* + lc with lc, lp and pb in their ranges.                                *)
ProbIndexesInBounds ==
  prop0 \in Accepted => LayoutFits /\ prop0 \in FittingBytes

EndsAtNext(slot) == SlotBase(slot + 1) = SlotBase(slot) + SlotSize(slot)

(* The distance slots tile the distances: each begins where the one before *)
(* ends, so every distance has one encoding; a slot with direct bits has   *)
(* at least one for the do-while loops; no two slots share probabilities.  *)
(* Slots from 61 on exceed TLC's integers.                                 *)
DistancesTile ==
  /\ posSlot = 0 => SlotBase(posSlot) = 0
  /\ posSlot <= 60 => EndsAtNext(posSlot)
  /\ posSlot \in kStartPosModelIndex .. kEndPosModelIndex - 1 =>
       /\ numDirectBits(posSlot) >= 1
       /\ \A s \in (kStartPosModelIndex .. kEndPosModelIndex - 1) \ {posSlot} :
            SpecPosIndexes(s) \cap SpecPosIndexes(posSlot) = {}
  /\ posSlot >= kEndPosModelIndex => numDirectBits(posSlot) - kNumAlignBits >= 1
=============================================================================
