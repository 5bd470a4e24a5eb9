--------------------------- MODULE MC_MacroTable ---------------------------
(* Two names with one home slot in a table of three, and two definitions.   *)
(* TableSize and MacroSize are multiples of the alignment, as the sizes of  *)
(* structures that hold pointers are.                                       *)
EXTENDS MacroTable, TLC

CONSTANTS k1, k2

MCHash == k1 :> 2 @@ k2 :> 2
=============================================================================
