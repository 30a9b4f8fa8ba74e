--------------------------- MODULE MCScenarioProxy ---------------------------
(***************************************************************************)
(* ScenarioProxy for TLC: a live and a hosted click of one client, and a   *)
(* hosted replay of another; the global budget is two clicks.              *)
(***************************************************************************)
EXTENDS ScenarioProxy, TLC

CONSTANTS live, hosted, again, c1, c2

MCFrom == [k \in Click |-> IF k = again THEN c2 ELSE c1]
=============================================================================
