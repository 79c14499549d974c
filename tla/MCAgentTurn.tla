----------------------------- MODULE MCAgentTurn -----------------------------
(* Small instances of AgentTurn: a cheap and a dear alias, and one that the *)
(* session's role may not use.                                              *)
EXTENDS AgentTurn, TLC

CONSTANTS s1, s2, light, deep, pro

MCSenders == {s1, s2}
MCAliases == {light, deep, pro}
MCPermitted == {light, deep}
MCRate == light :> 1 @@ deep :> 2 @@ pro :> 2
=============================================================================
