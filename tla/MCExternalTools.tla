---------------------------- MODULE MCExternalTools ----------------------------
(* Two tools of two MCP servers, two pages, one session; two connector calls   *)
(* and three of the browser.                                                   *)
EXTENDS ExternalTools, TLC

CONSTANTS t1, t2, drive, files, v1, v2, x0, x1, x2, p1, p2, c1, c2, c3

MCTools == {t1, t2}
MCServers == {drive, files}
MCServerOf == t1 :> drive @@ t2 :> files
MCVersions == {v1, v2}
MCTexts == {x0, x1, x2}
MCTextOf == t1 :> [v \in MCVersions |-> x0] @@ t2 :> (v1 :> x1 @@ v2 :> x2)
MCPages == {p1, p2}
MCCalls == {c1, c2}
MCBrowsing == {c1, c2, c3}

(* Versions are alike together with their descriptions, and pages are.         *)
MCVersionsSwapped == v1 :> v2 @@ v2 :> v1 @@ x1 :> x2 @@ x2 :> x1
MCSymmetry == {MCVersionsSwapped} \cup Permutations(MCPages)
==============================================================================
