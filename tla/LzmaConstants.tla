--------------------------- MODULE LzmaConstants ----------------------------
(***************************************************************************)
(* The #defines of LzmaDecode.c that the packet loop and the probability   *)
(* table share.                                                            *)
(***************************************************************************)
EXTENDS Integers

(* 1 << bits, of an int.                                                   *)
Pow2 == [bits \in 0 .. 30 |-> 2 ^ bits]

kNumPosBitsMax == 4
kLenNumLowBits == 3
kLenNumMidBits == 3
kLenNumHighBits == 8
kNumStates == 12
kNumLitStates == 7
kStartPosModelIndex == 4
kEndPosModelIndex == 14
kNumFullDistances == Pow2[kEndPosModelIndex \div 2]
kNumPosSlotBits == 6
kNumLenToPosStates == 4
kNumAlignBits == 4
kMatchMinLen == 2
=============================================================================
