----------------------------- MODULE MCFileTools -----------------------------
(* A file of two lines and two words, and two tool calls at a time. *)
EXTENDS FileTools, TLC

CONSTANTS c1, c2, l1, l2, w1, w2

MCCallers == {c1, c2}
MCLines == {l1, l2}
MCWords == {w1, w2}
MCSymmetry == Permutations(MCCallers) \cup Permutations(MCLines) \cup Permutations(MCWords)
=============================================================================
