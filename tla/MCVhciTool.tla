------------------------------ MODULE MCVhciTool ------------------------------
(***************************************************************************)
(* The instance of VhciTool that TLC checks: three devices are listed in   *)
(* the order of their names.                                               *)
(***************************************************************************)
EXTENDS VhciTool, TLC

CONSTANTS d1, d2, d3

MCList == <<d1, d2, d3>>

MCSymmetry == Permutations(Cmds)
=============================================================================
