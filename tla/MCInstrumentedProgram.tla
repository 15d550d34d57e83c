------------------------ MODULE MCInstrumentedProgram ------------------------
(***************************************************************************)
(* The instrumented programs of MCModules.                                 *)
(***************************************************************************)
EXTENDS InstrumentedProgram, MCModules
==============================================================================
