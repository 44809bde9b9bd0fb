------------------------------ MODULE Nothing -------------------------------
(***************************************************************************)
(* The value of a field that holds nothing, shared by the modules that are *)
(* checked in one run.                                                     *)
(***************************************************************************)
CONSTANT None
=============================================================================
