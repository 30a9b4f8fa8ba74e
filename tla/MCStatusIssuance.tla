-------------------------- MODULE MCStatusIssuance --------------------------
(***************************************************************************)
(* StatusIssuance for TLC.                                                 *)
(***************************************************************************)
EXTENDS StatusIssuance, TLC

Names == Permutations(Certificate) \cup Permutations(Output) \cup Permutations(Process)
=============================================================================
