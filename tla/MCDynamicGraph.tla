---------------------------- MODULE MCDynamicGraph ----------------------------
(***************************************************************************)
(* Whole pipelines on a few modules, and a table of logarithms.            *)
(***************************************************************************)
EXTENDS DynamicGraph, MCModules

MCDynamicModules ==
  MCLoopModules \cup MCDuplicateModules \cup MCCallModules \cup MCTextModules
    \cup MCManyBlocksModules \cup MCThreadModules

\* No count of a run of the bounds is above 15.
MCLog1p ==
  LET thousandths == <<0, 693, 1099, 1386, 1609, 1792, 1946, 2079, 2197, 2303, 2398, 2485,
                       2565, 2639, 2708, 2773>>
  IN [n \in 0..15 |-> thousandths[n + 1]]
==============================================================================
