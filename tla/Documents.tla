------------------------------ MODULE Documents ------------------------------
(***************************************************************************)
(* The document tools: build, the three gates and what the reviewer sees.  *)
(*   packages/session/src/tools-documents.ts                               *)
(*   packages/documents/src/build.ts, verify.ts, render.ts                 *)
(*                                                                         *)
(* /.render has one PDF and one set of pictures for every base name,       *)
(* whatever the document's directory and extension, and the tools of a     *)
(* step run at a time.  A document is known by the call that built it.     *)
(* Picture <<b, n>> is the page n in <b>-page-n.png, and <<b, 0>>          *)
(* LibreOffice's own, in <b>.png.  The pages of b are found by their       *)
(* prefix, <b>-page, which the pictures of the base names in Longer[b]     *)
(* have too.  Nobody stands for a file that is not there.  A deck's        *)
(* missing image is left out of the deck; base names that end in a number, *)
(* and could be one of another's pages, are left out here.                 *)
(***************************************************************************)
EXTENDS Naturals, FiniteSets

CONSTANTS
  Calls,          \* createSlideDeck, createWordDocument, createSpreadsheet
  Paths,          \* where they write
  Bases, BaseOf,  \* base names, and each path's
  Longer,         \* the base names that begin with a base name and "-page"
  Nobody,
  Lengths,        \* how many pages a document can have
  MaxPages,       \* pages rasterised at most
  MaxJudged,      \* pages the reviewer is given at most
  CanRasterise    \* whether pdftoppm is installed

VARIABLES
  document,       \* at each path
  pictures,       \* the document on each
  pdf,
  call,           \* where a call is, its path, its document's length, what it showed the reviewer
  met,            \* history variable: calls at work while another was whose pictures may be theirs
  stale,          \* history variable: calls that could not remove what they found
  cut             \* history variable: calls whose pages were not all made, or not found

vars == <<document, pictures, pdf, call, met, stale, cut>>

AtMost(n, most) == IF n < most THEN n ELSE most
PageNumbers == UNION {1..n : n \in Lengths}
Pictures == Bases \X ({0} \cup PageNumbers)
Family(b) == {b} \cup Longer[b]
Stages == {"idle", "structure", "clearing", "converting", "converted",
           "clearing again", "converting again", "converted again",
           "clearing pages", "rasterising", "listing", "judging", "passed", "failed"}

TypeOK ==
  /\ document \in [Paths -> Calls \cup {Nobody}]
  /\ pictures \in [Pictures -> Calls \cup {Nobody}] /\ pdf \in [Bases -> Calls \cup {Nobody}]
  /\ call \in [Calls -> [at : Stages, path : Paths, length : Lengths,
                        seen : SUBSET (({0} \cup PageNumbers) \X Calls)]]
  /\ met \subseteq Calls /\ stale \subseteq Calls /\ cut \subseteq Calls

Init ==
  /\ document = [p \in Paths |-> Nobody]
  /\ pictures = [x \in Pictures |-> Nobody] /\ pdf = [b \in Bases |-> Nobody]
  /\ call \in [Calls -> [at : {"idle"}, path : Paths, length : Lengths, seen : {{}}]]
  /\ met = {} /\ stale = {} /\ cut = {}

Base(c) == BaseOf[call[c].path]
AtWork(c) == call[c].at \notin {"idle", "passed", "failed"}
Goes(c, at) == call' = [call EXCEPT ![c].at = at]

-----------------------------------------------------------------------------
(* The specification parses, and the builder writes the file, over what is  *)
(* there; or it does not, and the tool says so.                             *)
Build(c) ==
  /\ call[c].at = "idle"
  /\ \/ Goes(c, "failed") /\ UNCHANGED <<document, met>>
     \/ /\ Goes(c, "structure")
        /\ document' = [document EXCEPT ![call[c].path] = c]
        /\ LET others == {d \in Calls \ {c} : AtWork(d) /\ Family(Base(d)) \cap Family(Base(c)) # {}}
           IN  met' = met \cup others \cup (IF others # {} THEN {c} ELSE {})
  /\ UNCHANGED <<pictures, pdf, stale, cut>>

(* checkStructure: unzip and xmllint read the package, or fail.             *)
CheckStructure(c) ==
  /\ call[c].at = "structure" /\ (Goes(c, "clearing") \/ Goes(c, "failed"))
  /\ UNCHANGED <<document, pictures, pdf, met, stale, cut>>

(* toPdf, for gate 2 and again for gate 3: the previous PDF is removed, or  *)
(* that fails and nobody hears of it; LibreOffice writes one or does not,   *)
(* and what exists then counts.                                             *)
ClearPdf(c) ==
  /\ \/ call[c].at = "clearing" /\ Goes(c, "converting")
     \/ call[c].at = "clearing again" /\ Goes(c, "converting again")
  /\ \/ pdf' = [pdf EXCEPT ![Base(c)] = Nobody] /\ UNCHANGED stale
     \/ pdf[Base(c)] # Nobody /\ UNCHANGED pdf /\ stale' = stale \cup {c}
  /\ UNCHANGED <<document, pictures, met, cut>>

Convert(c) ==
  /\ \/ call[c].at = "converting" /\ Goes(c, "converted")
     \/ call[c].at = "converting again" /\ Goes(c, "converted again")
  /\ \/ pdf' = [pdf EXCEPT ![Base(c)] = document[call[c].path]]
     \/ UNCHANGED pdf
  /\ UNCHANGED <<document, pictures, met, stale, cut>>

Converted(c) ==
  /\ \/ call[c].at = "converted"
        /\ Goes(c, IF pdf[Base(c)] # Nobody THEN "clearing again" ELSE "failed")
     \/ call[c].at = "converted again"
        /\ Goes(c, IF pdf[Base(c)] # Nobody THEN "clearing pages" ELSE "failed")
  /\ UNCHANGED <<document, pictures, pdf, met, stale, cut>>

(* listMatching: the pictures whose names begin as b's pages do, which is   *)
(* all that a longer base name has.                                         *)
Listed(b) ==
  {x \in Pictures : (IF x[1] = b THEN x[2] > 0 ELSE x[1] \in Longer[b]) /\ pictures[x] # Nobody}

(* Mutant: the pages of the previous render stay.                           *)
ClearPagesNot(c) ==
  /\ call[c].at = "clearing pages" /\ Goes(c, "rasterising")
  /\ UNCHANGED <<document, pictures, pdf, met, stale, cut>>

(* clearPreviousPages, which cannot list them or cannot remove some, and    *)
(* goes on.                                                                 *)
ClearPages(c) ==
  /\ call[c].at = "clearing pages" /\ Goes(c, "rasterising")
  /\ \E left \in SUBSET Listed(Base(c)) :
       /\ pictures' = [x \in Pictures |-> IF x \in Listed(Base(c)) \ left THEN Nobody ELSE pictures[x]]
       /\ stale' = IF left = {} THEN stale ELSE stale \cup {c}
  /\ UNCHANGED <<document, pdf, met, cut>>

(* The first n pages of d are written over the pictures in place.           *)
Rendered(b, d, n) ==
  [x \in Pictures |-> IF x[1] = b /\ x[2] \in 1..n THEN d ELSE pictures[x]]

(* pdftoppm, whose exit is not looked at: it may stop early, at a timeout   *)
(* or because the PDF is not there.                                         *)
Rasterise(c) ==
  LET d == pdf[Base(c)]
      whole == IF d = Nobody THEN 0 ELSE AtMost(call[d].length, MaxPages)
  IN  /\ call[c].at = "rasterising" /\ Goes(c, "listing")
      /\ \E n \in 0..whole :
           /\ CanRasterise \/ n = 0
           /\ pictures' = Rendered(Base(c), d, n)
           /\ cut' = IF n < whole THEN cut \cup {c} ELSE cut
      /\ UNCHANGED <<document, pdf, met, stale>>

(* The first of what is listed by their numbers, and those of one number as *)
(* the directory has them.                                                  *)
First(listed, most) ==
  {shown \in SUBSET listed :
     /\ Cardinality(shown) = AtMost(Cardinality(listed), most)
     /\ \A x \in shown : \A y \in listed \ shown : x[2] <= y[2]}

(* The pages listed, in order and at most maxPages, go to the judge, who    *)
(* takes the first few of them.                                             *)
List(c) ==
  LET listed == Listed(Base(c))
  IN  /\ call[c].at = "listing" /\ CanRasterise /\ listed # {}
      /\ \E shown \in First(listed, AtMost(MaxPages, MaxJudged)) :
           call' = [call EXCEPT ![c].at = "judging", ![c].seen = {<<x[2], pictures[x]>> : x \in shown}]
      /\ UNCHANGED <<document, pictures, pdf, met, stale, cut>>

(* With none listed, or no pdftoppm found, or no listing to be had,         *)
(* LibreOffice may draw the first page, and what exists then counts.        *)
DrawFirst(c) ==
  LET single == <<Base(c), 0>>
  IN  /\ call[c].at = "listing"
      /\ pictures' \in {pictures, [pictures EXCEPT ![single] = document[call[c].path]]}
      /\ IF pictures'[single] = Nobody THEN Goes(c, "failed")
         ELSE call' = [call EXCEPT ![c].at = "judging", ![c].seen = {<<0, pictures'[single]>>}]
      /\ cut' = cut \cup {c}
      /\ UNCHANGED <<document, pdf, met, stale>>

(* The reviewer, a scout: PASS, FAIL, or it could not run, which is a fail. *)
Judged(c) ==
  /\ call[c].at = "judging" /\ (Goes(c, "passed") \/ Goes(c, "failed"))
  /\ UNCHANGED <<document, pictures, pdf, met, stale, cut>>

Next ==
  \E c \in Calls :
    \/ Build(c) \/ CheckStructure(c) \/ ClearPdf(c) \/ Convert(c) \/ Converted(c)
    \/ ClearPages(c) \/ Rasterise(c) \/ List(c) \/ DrawFirst(c) \/ Judged(c)

Spec == Init /\ [][Next]_vars

-----------------------------------------------------------------------------
(* "Gate 3 judges whatever pages it is handed": a document that passes was  *)
(* looked at, and nothing but its own pages was - all of them, up to what   *)
(* the reviewer is given - whatever was rendered before it under its base   *)
(* name or one that begins with it.  Not so when another such document was  *)
(* in work at a time, when what earlier ones left could not be removed, or  *)
(* when pages were not made or not found.                                   *)
PassIsEarned ==
  \A c \in Calls \ (met \cup stale \cup cut) :
    call[c].at = "passed" =>
      call[c].seen = {<<n, c>> : n \in 1..AtMost(call[c].length, AtMost(MaxPages, MaxJudged))}

(* "a corrected document would be reviewed against a page from the version  *)
(* before the correction" (render.ts, of what clearing prevents): what the  *)
(* reviewer sees is of this document, when no other that may have its       *)
(* pictures was in work at a time and nothing failed to be removed.         *)
JudgedOnItsOwn == \A c \in Calls \ (met \cup stale) : \A s \in call[c].seen : s[2] = c
==============================================================================
