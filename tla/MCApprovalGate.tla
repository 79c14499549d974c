--------------------------- MODULE MCApprovalGate ---------------------------
(* Three calls of request() over two scopes: enough for two calls of one    *)
(* scope to be pending together while a third uses or loses its grant.      *)
EXTENDS ApprovalGate

CONSTANTS r1, r2, r3, shell, python

MCRequests == {r1, r2, r3}
MCScopes == {shell, python}
=============================================================================
