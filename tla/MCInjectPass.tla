----------------------------- MODULE MCInjectPass -----------------------------
(***************************************************************************)
(* The modules of MCModules, for the builder and the injection.            *)
(***************************************************************************)
EXTENDS InjectPass, MCModules
==============================================================================
