-------------------------- MODULE MCApprovalShells --------------------------
(* Two parallel tool calls and two pages: one prompt can overwrite another, *)
(* both pages can answer the same prompt, and the second page can be away.  *)
EXTENDS ApprovalShells, TLC

CONSTANTS r1, r2, p1, p2, python

MCRequests == {r1, r2}
MCShells == {p1, p2}
MCMovers == {p2}
MCScopes == {python}

Symmetry == Permutations(MCRequests)
=============================================================================
