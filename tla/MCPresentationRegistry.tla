----------------------- MODULE MCPresentationRegistry -----------------------
(***************************************************************************)
(* PresentationRegistry for TLC: two callers, two actions and a malformed  *)
(* one, a registry of two entries and three references.                    *)
(***************************************************************************)
EXTENDS PresentationRegistry, TLC

References == Permutations(Reference)
=============================================================================
