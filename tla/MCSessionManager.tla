-------------------------- MODULE MCSessionManager --------------------------
(* Two POSTs at a time on one thread. *)
EXTENDS SessionManager, TLC

CONSTANTS c1, c2

MCCallers == {c1, c2}
MCSymmetry == Permutations(MCCallers)
=============================================================================
