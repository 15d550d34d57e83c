--------------------------- MODULE MCIrGraphBuilder ---------------------------
(***************************************************************************)
(* The graph builder on the modules of MCModules.                          *)
(***************************************************************************)
EXTENDS IrGraphBuilder, MCModules
==============================================================================
