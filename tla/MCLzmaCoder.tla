---------------------------- MODULE MCLzmaCoder ----------------------------
(***************************************************************************)
(* The range coder on words of four two-bit bytes, where a probability is  *)
(* as close to its ends as the code's own constants let it come, with two  *)
(* probabilities and every stream; and the tables, with the code's own     *)
(* constants, for every first byte and slot.  The coder depends on neither,*)
(* so that one of each is enough for its steps.                            *)
(***************************************************************************)
EXTENDS RangeDecoder, LzmaTables

CoderInit == RcInit /\ TablesInit

CoderNext == prop0 = 0 /\ posSlot = 0 /\ RcNext /\ UNCHANGED tableVars

CoderSpec == CoderInit /\ [][CoderNext]_<<rcVars, tableVars>>
=============================================================================
