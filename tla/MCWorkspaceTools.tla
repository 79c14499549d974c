--------------------------- MODULE MCWorkspaceTools ---------------------------
(* A file of two lines and two words, and two tool calls at a time; two       *)
(* documents of one base name, or of one that begins as the other's pages do; *)
(* two Python calls; two commands.                                            *)
EXTENDS WorkspaceTools, TLC

CONSTANTS c1, c2, l1, l2, w1, w2, d1, d2, p1, p2, f1, f2, k1, k2

MCCallers == {c1, c2}
MCLines == {l1, l2}
MCWords == {w1, w2}
MCDocumented == {d1, d2}
MCPaths == {"a.docx", "b/a.pptx", "a-page.docx"}
MCBases == {"a", "a-page"}
MCBaseOf == [p \in MCPaths |-> IF p = "a-page.docx" THEN "a-page" ELSE "a"]
MCLonger == [b \in MCBases |-> IF b = "a" THEN {"a-page"} ELSE {}]
MCLengths == {1, 3}
MCScripted == {p1, p2}
MCLabels == {"analysis", "chart"}
MCFiles == {f1}
MCCommands == {k1, k2}
MCSymmetry == Permutations(MCCallers) \cup Permutations(MCLines) \cup Permutations(MCWords)
==============================================================================
