------------------------- MODULE MCPrimitiveDriver -------------------------
(***************************************************************************)
(* PrimitiveDriver for TLC.                                                *)
(***************************************************************************)
EXTENDS PrimitiveDriver, TLC

Symmetric == Permutations(Calls) \cup Permutations(Arms) \cup Permutations(SequenceIds)
=============================================================================
