-------------------------- MODULE MCSCTransSystem --------------------------
(***************************************************************************)
(* SCTransSystem on the modules of MCFunctions.                            *)
(***************************************************************************)
EXTENDS SCTransSystem, MCFunctions
=============================================================================
