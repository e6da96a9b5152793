---------------------------- MODULE RangeDecoder ----------------------------
(***************************************************************************)
(* The range coder under LzmaDecode (LzmaDecode.c): the macros RC_INIT,    *)
(* RC_NORMALIZE, IfBit0, UpdateBit0, UpdateBit1, the direct bits of a      *)
(* distance, and the probabilities they adapt.  Module LzmaDecode leaves   *)
(* the bits open that are computed here.  Which probability a bit uses and *)
(* what the input bytes are is left open; a shift by n bits is a           *)
(* multiplication or division by 2^n.                                      *)
(***************************************************************************)
EXTENDS Integers

CONSTANTS
  RcByte,    \* 2^8
  Top,       \* kTopValue, 2^24
  Total,     \* kBitModelTotal, 2^11
  Move,      \* 2^kNumMoveBits, 2^5
  Contexts,  \* the probability table
  InitBytes  \* the bytes that RC_INIT reads, 5

RcWord == Top * RcByte

(* What the code's constants have to satisfy: a probability can come as    *)
(* close as Move - 1 to either end.                                        *)
ASSUME CoderAssumption ==
  /\ RcByte \in Nat /\ Top \in Nat /\ Total \in Nat /\ Move \in Nat /\ InitBytes \in Nat
  /\ RcByte >= 2 /\ Move >= 2
  /\ Total % 2 = 0 /\ 2 * (Move - 1) <= Total
  /\ Top % Total = 0 /\ Top >= Total
  /\ Total <= RcByte * (Move - 1)

VARIABLES
  Range, Code, p,
  n,       \* the bytes RC_INIT has read
  sound,   \* history: the code is one that an encoder can have written
  rpc      \* "init", "bits" or "ended"

rcVars == <<Range, Code, p, n, sound, rpc>>

RcInit ==
  /\ Range = RcWord - 1 /\ Code = 0
  /\ p = [c \in Contexts |-> Total \div 2]
  /\ n = 0 /\ sound = FALSE
  /\ rpc = "init"

(* Code = (Code << 8) | RC_READ_BYTE, in 32 bits.                          *)
Shifted(code, b) == (code * RcByte + b) % RcWord

(* RC_INIT2.                                                               *)
InitByte ==
  /\ rpc = "init" /\ n < InitBytes
  /\ \E b \in 0 .. RcByte - 1 : Code' = Shifted(Code, b)
  /\ n' = n + 1
  /\ UNCHANGED <<Range, p, sound, rpc>>

InitDone ==
  /\ rpc = "init" /\ n = InitBytes
  /\ sound' = (Code < Range)
  /\ rpc' = "bits"
  /\ UNCHANGED <<Range, Code, p, n>>

(* RC_TEST fails: the input is at its end.                                 *)
InputEnd ==
  /\ \/ rpc = "init" /\ n < InitBytes
     \/ rpc = "bits" /\ Range < Top
  /\ rpc' = "ended"
  /\ UNCHANGED <<Range, Code, p, n, sound>>

(* RC_NORMALIZE: the interval and the code it leaves, for the next byte b. *)
(* The mutant also shifts an interval of exactly kTopValue.                *)
NarrowEarly(range) == range <= Top

Narrow(range) == range < Top

NormRange == IF Narrow(Range) THEN Range * RcByte ELSE Range

NormCode(b) == IF Narrow(Range) THEN Shifted(Code, b) ELSE Code

(* bound of IfBit0.                                                        *)
Bound(range, prob) == (range \div Total) * prob

(* UpdateBit0: up by (kBitModelTotal - prob) >> kNumMoveBits.              *)
More(prob) == prob + (Total - prob) \div Move

(* UpdateBit1: down by prob >> kNumMoveBits.  The mutant rounds up.        *)
LessRoundedUp(prob) == prob - (prob + Move - 1) \div Move

Less(prob) == prob - prob \div Move

(* IfBit0 with UpdateBit0 or UpdateBit1: one bit with a probability.       *)
Bit0(c, b) ==
  /\ NormCode(b) < Bound(NormRange, p[c])
  /\ Range' = Bound(NormRange, p[c]) /\ Code' = NormCode(b)
  /\ p' = [p EXCEPT ![c] = More(@)]

Bit1(c, b) ==
  /\ NormCode(b) >= Bound(NormRange, p[c])
  /\ Range' = NormRange - Bound(NormRange, p[c])
  /\ Code' = NormCode(b) - Bound(NormRange, p[c])
  /\ p' = [p EXCEPT ![c] = Less(@)]

ModelBit ==
  /\ rpc = "bits"
  /\ \E c \in Contexts, b \in 0 .. RcByte - 1 : Bit0(c, b) \/ Bit1(c, b)
  /\ UNCHANGED <<n, sound, rpc>>

(* A direct bit: Range >>= 1, and the upper half is a 1.  No encoder gives *)
(* a code that belongs to neither half of an odd Range.  The mutant takes  *)
(* a code equal to the range for a 0.                                      *)
UpperHalfStrict(code, range) == code > range

UpperHalf(code, range) == code >= range

DirectBit ==
  /\ rpc = "bits"
  /\ Range' = NormRange \div 2
  /\ \E b \in 0 .. RcByte - 1 :
       /\ Code' = IF UpperHalf(NormCode(b), Range') THEN NormCode(b) - Range' ELSE NormCode(b)
       /\ sound' = (sound /\ NormCode(b) < 2 * Range')
  /\ UNCHANGED <<p, n, rpc>>

RcNext == InitByte \/ InitDone \/ InputEnd \/ ModelBit \/ DirectBit

RcSpec == RcInit /\ [][RcNext]_rcVars

-----------------------------------------------------------------------------
(* One byte is always enough: RC_NORMALIZE is an if and not a loop, and    *)
(* after it Range is at least kTopValue again, however often a probability *)
(* has been pushed one way and whatever the stream holds, so that no bound *)
(* is ever 0 and no interval empty.                                        *)
OneByteNormalizes ==
  rpc = "bits" =>
    /\ NormRange >= Top
    /\ \A c \in Contexts :
         Bound(NormRange, p[c]) > 0 /\ Bound(NormRange, p[c]) < NormRange

(* In a stream that begins with its code inside the interval, and whose    *)
(* direct bits leave it in one half, the code stays inside the interval    *)
(* through every mix of bits and refills, and so the shift of RC_NORMALIZE *)
(* never drops a bit of it.                                                *)
CodeInRange ==
  rpc = "bits" /\ sound =>
    /\ Code < Range
    /\ Range < Top => Code * RcByte + RcByte - 1 < RcWord

(* Whatever the stream holds, the code can leave the interval at one kind  *)
(* of step only: a direct bit at an odd Range, from the last place of the  *)
(* interval to the first one behind the new one.  And a code outside never *)
(* comes back by itself: only a shift of RC_NORMALIZE that drops bits of   *)
(* it does that.                                                           *)
CodeCrossings ==
  [][rpc = "bits" /\ rpc' = "bits" =>
       /\ Code < Range /\ Code' >= Range' =>
            /\ p' = p /\ NormRange % 2 = 1
            /\ Code' = Range' /\ Range' = NormRange \div 2
       /\ Code >= Range /\ Code' < Range' => Range < Top /\ Code >= Top]_rcVars
=============================================================================
