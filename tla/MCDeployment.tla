---------------------------- MODULE MCDeployment ----------------------------
(***************************************************************************)
(* Deployment for TLC: a list lives for one instant, material for two,     *)
(* and the watch wants two instants left.                                  *)
(***************************************************************************)
EXTENDS Deployment
=============================================================================
