----------------------------- MODULE MCRotation -----------------------------
(***************************************************************************)
(* Rotation for TLC: the two runtimes of the deployment.                   *)
(***************************************************************************)
EXTENDS Rotation

MCRuntimes == <<"agent", "agent-b">>
=============================================================================
