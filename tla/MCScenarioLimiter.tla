------------------------- MODULE MCScenarioLimiter -------------------------
(***************************************************************************)
(* ScenarioLimiter for TLC.  The histories bound themselves: stamps end.   *)
(***************************************************************************)
EXTENDS ScenarioLimiter, TLC

Clients == Permutations(Client)
=============================================================================
