------------------------- MODULE ExternalTools_proofs -------------------------
(***************************************************************************)
(* For all tools, servers, pages, sessions and calls: what                 *)
(* ExternalTools.cfg checks on a small instance.                           *)
(*                                                                         *)
(* MCP.  Pins come from the file when a process starts, the file from      *)
(* saves, a save and a turn's tools from the pins: that these hold         *)
(* approved versions is inductive only together (Agreed).  An approval is  *)
(* of a version whose description the page has, because nothing comes to   *)
(* need approval while a process lives (PagesAreCurrent).  A save that     *)
(* meets no other has the pins of now and finds the file empty             *)
(* (SaveIsLatest), and what becomes callable during a turn was approved    *)
(* during it (TurnIsCurrent).                                              *)
(*                                                                         *)
(* Connectors.  Of a refresh token the provider has issued, at most one    *)
(* place has it that can still be put in the row: the row, or the call it  *)
(* was given to (Tokens).  A call that is about to send has asked (Asked). *)
(*                                                                         *)
(* The browser.  Screenshots are numbered before they are taken, each for  *)
(* one call (ShotsNumbered).  While no launch or close meets another, a    *)
(* launch finds no session and a close has the session's browser           *)
(* (OneOpening).                                                           *)
(*                                                                         *)
(* The last part puts them together: a behaviour of the three tools is a   *)
(* behaviour of each, so what is proved of one holds of all.               *)
(***************************************************************************)
EXTENDS ExternalTools, Sequences, FiniteSetTheorems, TLAPS

Holds(pins) == \A t \in Tools : pins[t] # None => pins[t] \in Approved(t)

Agreed ==
  /\ Holds(pinned) /\ Holds(file)
  /\ \A p \in Pages : Holds(saving[p].pins)
  /\ \A s \in Sessions : Holds(turn[s].tools)

PagesAreCurrent ==
  /\ process <= starts
  /\ \A p \in Pages :
       /\ page[p].process <= starts
       /\ page[p].process = process =>
            \A t \in NeedingApproval : process # 0 => page[p].pending[t] = TextOf[t][discovered[t]]

SaveIsLatest ==
  /\ process = 0 => \A p \in Pages : saving[p].at = "no"
  /\ ~unsaved /\ process # 0 =>
       /\ \A p, q \in Pages : saving[p].at # "no" /\ saving[q].at # "no" => p = q
       /\ \A p \in Pages : saving[p].at # "no" => saving[p].pins = pinned
       /\ \A p \in Pages : saving[p].at = "writing" => file = NoPins
       /\ (\A p \in Pages : saving[p].at = "no") => file = pinned

TurnIsCurrent ==
  \A s \in Sessions :
    /\ process = 0 => ~turn[s].on
    /\ turn[s].on => Callable \subseteq {t \in Tools : turn[s].tools[t] # None} \cup late[s]
    /\ told[s] \subseteq {t \in loaded : turn[s].on /\ turn[s].tools[t] # None} \cup late[s]
    /\ ~turn[s].on => told[s] = {}

IInv == TypeOK /\ Agreed /\ PagesAreCurrent /\ SaveIsLatest /\ TurnIsCurrent

LEMMA InitIInv == Init => IInv
<1> SUFFICES ASSUME Init PROVE IInv
  OBVIOUS
<1> USE McpAssumption
<1>1. NoPins \in Pins /\ NoPins \in [Tools -> Texts \cup {None}]
  BY DEF NoPins, Pins
<1>2. TypeOK
  BY <1>1 DEF Init, TypeOK, NotSaving, NoTurn
<1>3. Agreed
  BY DEF Init, Agreed, Holds, NotSaving, NoTurn, NoPins
<1>4. PagesAreCurrent /\ SaveIsLatest /\ TurnIsCurrent
  BY DEF Init, PagesAreCurrent, SaveIsLatest, TurnIsCurrent, NotSaving, NoTurn
<1> QED
  BY <1>2, <1>3, <1>4 DEF IInv

(* What a status says of the two versions.                                  *)
LEMMA Statuses ==
  ASSUME NEW t \in Tools
  PROVE  /\ Status(t) = "approved" <=> discovered[t] # None /\ pinned[t] = discovered[t]
         /\ Status(t) \in {"unapproved", "changed"} <=> discovered[t] # None /\ pinned[t] # discovered[t]
BY DEF Status

LEMMA Sets ==
  /\ Callable = {t \in Tools : discovered[t] # None /\ pinned[t] = discovered[t]}
  /\ NeedingApproval = {t \in Tools : discovered[t] # None /\ pinned[t] # discovered[t]}
BY Statuses DEF Callable, NeedingApproval

LEMMA ServerChangesKeeps ==
  ASSUME IInv, NEW t \in Tools, NEW v \in Versions, ServerChanges(t, v) PROVE IInv'
<1> USE Sets DEF ServerChanges, historyVars, IInv
<1>1. TypeOK'
  BY DEF TypeOK
<1>2. Agreed'
  BY DEF Agreed, Holds, Approved
<1>3. PagesAreCurrent' /\ SaveIsLatest' /\ TurnIsCurrent'
  BY DEF PagesAreCurrent, SaveIsLatest, TurnIsCurrent, NeedingApproval, Callable, Status
<1> QED
  BY <1>1, <1>2, <1>3

LEMMA InitConnectorsKeeps ==
  ASSUME IInv, NEW reached \in SUBSET Servers, InitConnectors(reached) PROVE IInv'
<1> USE McpAssumption DEF InitConnectors, IInv
<1>1. TypeOK'
  <2>1. discovered' \in Pins /\ pinned' \in Pins
    BY DEF TypeOK, Pins
  <2>2. starts' \in Nat /\ process' \in Nat
    BY DEF TypeOK
  <2> QED
    BY <2>1, <2>2 DEF TypeOK
<1>2. Agreed'
  BY DEF Agreed, Holds, Approved
<1>3. PagesAreCurrent'
  <2>1. \A p \in Pages : page'[p].process <= starts' /\ page'[p].process # process'
    BY DEF PagesAreCurrent, TypeOK
  <2> QED
    BY <2>1 DEF PagesAreCurrent, TypeOK
<1>4. SaveIsLatest'
  BY DEF SaveIsLatest, TypeOK
<1>5. TurnIsCurrent'
  <2>1. \A s \in Sessions : ~turn'[s].on /\ told'[s] = {}
    BY DEF TurnIsCurrent
  <2>2. process' # 0
    BY DEF TypeOK
  <2> QED
    BY <2>1, <2>2 DEF TurnIsCurrent
<1> QED
  BY <1>1, <1>2, <1>3, <1>4, <1>5

LEMMA ExitKeeps == ASSUME IInv, Exit PROVE IInv'
<1> USE DEF Exit, IInv
<1>1. NoPins \in Pins
  BY DEF NoPins, Pins
<1>2. TypeOK'
  BY <1>1 DEF TypeOK, NotSaving, NoTurn
<1>3. Agreed'
  BY DEF Agreed, Holds, Approved, NotSaving, NoTurn, NoPins
<1>4. PagesAreCurrent'
  BY DEF PagesAreCurrent, TypeOK
<1>5. SaveIsLatest' /\ TurnIsCurrent'
  BY DEF SaveIsLatest, TurnIsCurrent, NotSaving, NoTurn
<1> QED
  BY <1>2, <1>3, <1>4, <1>5

LEMMA RefreshKeeps == ASSUME IInv, NEW p \in Pages, Refresh(p) PROVE IInv'
<1> USE DEF Refresh, IInv, historyVars
<1>1. TypeOK'
  <2> DEFINE shown == [t \in Tools |-> IF t \in NeedingApproval THEN TextOf[t][discovered[t]] ELSE None]
  <2>1. \A t \in NeedingApproval : discovered[t] \in Versions
    BY Sets DEF TypeOK, Pins
  <2>2. shown \in [Tools -> Texts \cup {None}]
    BY <2>1, McpAssumption
  <2>3. page' = [page EXCEPT ![p] = [process |-> process, pending |-> shown]]
    OBVIOUS
  <2> HIDE DEF shown
  <2>4. page' \in [Pages -> [process : Nat, pending : [Tools -> Texts \cup {None}]]]
    BY <2>2, <2>3 DEF TypeOK
  <2> QED BY <2>4 DEF TypeOK
<1>2. Agreed'
  BY DEF Agreed, Holds, Approved
<1>3. PagesAreCurrent'
  <2>1. NeedingApproval' = NeedingApproval
    BY DEF NeedingApproval, Status
  <2>2. page'[p].process = process
        /\ \A t \in NeedingApproval : page'[p].pending[t] = TextOf[t][discovered[t]]
    BY DEF TypeOK, NeedingApproval
  <2>3. \A q \in Pages : q # p => page'[q] = page[q]
    BY DEF TypeOK
  <2> QED
    BY <2>1, <2>2, <2>3 DEF PagesAreCurrent
<1>4. SaveIsLatest' /\ TurnIsCurrent'
  BY DEF SaveIsLatest, TurnIsCurrent, Callable, Status
<1> QED
  BY <1>1, <1>2, <1>3, <1>4

LEMMA PostKeeps ==
  ASSUME IInv, NEW p \in Pages, NEW asked \in SUBSET Tools, Post(p, asked) PROVE IInv'
<1> DEFINE targets == asked \cap NeedingApproval
<1> USE DEF IInv
<1>1. /\ process # 0 /\ saving[p].at = "no"
      /\ pinned' = [t \in Tools |-> IF t \in targets THEN discovered[t] ELSE pinned[t]]
      /\ saving' = [saving EXCEPT ![p] = [at |-> "opening", pins |-> pinned']]
      /\ unsaved' = (unsaved \/ \E q \in Pages : saving[q].at # "no")
      /\ late' = [s \in Sessions |-> late[s] \cup targets]
      /\ UNCHANGED <<offered, changes, process, starts, discovered, loaded, file, page, turn, told>>
  BY DEF Post, Approve, Export
<1>2. /\ agreed' = [t \in Tools |-> IF t \in targets /\ page[p].pending[t] = TextOf[t][discovered[t]]
                                   THEN agreed[t] \cup {discovered[t]} ELSE agreed[t]]
      /\ blind' = [t \in Tools |-> IF t \in targets /\ page[p].process # process
                                   THEN blind[t] \cup {discovered[t]} ELSE blind[t]]
  BY DEF Post
<1>3. targets \subseteq NeedingApproval /\ \A t \in targets : discovered[t] \in Versions
  BY Sets DEF TypeOK, Pins
<1>4. pinned' \in Pins
  BY <1>1, <1>3 DEF TypeOK, Pins
<1>5. TypeOK'
  <2>1. saving' \in [Pages -> [at : {"no", "opening", "writing"}, pins : Pins]]
    BY <1>1, <1>4 DEF TypeOK
  <2>2. late' \in [Sessions -> SUBSET Tools]
    BY <1>1 DEF TypeOK
  <2>3. agreed' \in [Tools -> SUBSET Versions] /\ blind' \in [Tools -> SUBSET Versions]
    BY <1>2, <1>3 DEF TypeOK
  <2> QED
    BY <1>1, <1>4, <2>1, <2>2, <2>3 DEF TypeOK
<1>6. \A t \in Tools : Approved(t) \subseteq Approved(t)'
  BY <1>2 DEF Approved, TypeOK
<1>7. \A t \in targets : discovered[t] \in Approved(t)'
  <2> TAKE t \in targets
  <2>1. page[p].process = process => page[p].pending[t] = TextOf[t][discovered[t]]
    BY <1>1, <1>3 DEF PagesAreCurrent
  <2> QED
    BY <1>2, <2>1 DEF Approved, TypeOK
<1>8. Holds(pinned)'
  BY <1>1, <1>6, <1>7 DEF Holds, Agreed
<1>9. Agreed'
  <2>1. Holds(file)' /\ \A s \in Sessions : Holds(turn[s].tools)'
    BY <1>1, <1>6 DEF Holds, Agreed
  <2>2. \A q \in Pages : Holds(saving[q].pins)'
    BY <1>1, <1>6, <1>8 DEF Holds, Agreed, TypeOK
  <2> QED
    BY <1>8, <2>1, <2>2 DEF Agreed
<1>10. NeedingApproval' \subseteq NeedingApproval /\ Callable' \subseteq Callable \cup targets
  BY <1>1, <1>3, Sets DEF Status, NeedingApproval, Callable
<1>11. PagesAreCurrent'
  BY <1>1, <1>10 DEF PagesAreCurrent
<1>12. SaveIsLatest'
  <2>1. ASSUME ~unsaved', process # 0
        PROVE  ~unsaved /\ file = pinned /\ \A q \in Pages : q # p => saving'[q].at = "no"
    BY <1>1, <2>1 DEF SaveIsLatest, TypeOK
  <2>2. saving'[p] = [at |-> "opening", pins |-> pinned']
    BY <1>1 DEF TypeOK
  <2> QED
    BY <1>1, <2>1, <2>2 DEF SaveIsLatest
<1>13. TurnIsCurrent'
  BY <1>1, <1>10 DEF TurnIsCurrent, TypeOK
<1> QED
  BY <1>5, <1>9, <1>11, <1>12, <1>13

LEMMA SizeOfNone == Size(NoPins) = 0
BY FS_EmptySet DEF Size, NoPins

LEMMA SizeIsNat == ASSUME NEW pins PROVE Size(pins) \in Nat
BY McpAssumption, FS_Subset, FS_CardinalityType DEF Size

LEMMA SaveOpensKeeps == ASSUME IInv, NEW p \in Pages, SaveOpens(p) PROVE IInv'
<1> USE DEF SaveOpens, IInv, historyVars
<1>1. saving'[p].pins = saving[p].pins /\ saving'[p].at = "writing"
      /\ \A q \in Pages : q # p => saving'[q] = saving[q]
  BY DEF TypeOK
<1>2. TypeOK'
  BY DEF TypeOK, NoPins, Pins
<1>3. Agreed'
  BY <1>1 DEF Agreed, Holds, Approved, NoPins
<1>4. PagesAreCurrent'
  BY DEF PagesAreCurrent, NeedingApproval, Status
<1>5. SaveIsLatest'
  BY <1>1 DEF SaveIsLatest
<1>6. TurnIsCurrent'
  BY DEF TurnIsCurrent, Callable, Status
<1> QED
  BY <1>2, <1>3, <1>4, <1>5, <1>6

LEMMA SaveWritesKeeps == ASSUME IInv, NEW p \in Pages, SaveWrites(p) PROVE IInv'
<1> USE DEF SaveWrites, IInv, historyVars
<1>1. saving'[p] = NotSaving /\ \A q \in Pages : q # p => saving'[q] = saving[q]
  BY DEF TypeOK
<1>2. NoPins \in Pins /\ saving[p].pins \in Pins
  BY DEF NoPins, Pins, TypeOK
<1>3. TypeOK'
  BY <1>2 DEF TypeOK, NotSaving
<1>4. Agreed'
  BY <1>1 DEF Agreed, Holds, Approved, NoPins, NotSaving
<1>5. PagesAreCurrent'
  BY DEF PagesAreCurrent, NeedingApproval, Status
<1>6. SaveIsLatest'
  <2>1. file = NoPins => file' = saving[p].pins
    BY SizeOfNone, SizeIsNat
  <2>2. ASSUME ~unsaved', process # 0 PROVE file' = pinned' /\ \A q \in Pages : saving'[q].at = "no"
    BY <1>1, <2>1, <2>2 DEF SaveIsLatest, NotSaving
  <2> QED
    BY <1>1, <2>2 DEF SaveIsLatest, NotSaving
<1>7. TurnIsCurrent'
  BY DEF TurnIsCurrent, Callable, Status
<1> QED
  BY <1>3, <1>4, <1>5, <1>6, <1>7

LEMMA SaveFailsKeeps == ASSUME IInv, NEW p \in Pages, SaveFails(p) PROVE IInv'
<1> USE DEF SaveFails, IInv
<1>1. saving'[p] = NotSaving /\ \A q \in Pages : q # p => saving'[q] = saving[q]
  BY DEF TypeOK
<1>2. TypeOK'
  BY DEF TypeOK, NotSaving, NoPins, Pins
<1>3. Agreed'
  BY <1>1 DEF Agreed, Holds, Approved, NoPins, NotSaving
<1>4. PagesAreCurrent'
  BY DEF PagesAreCurrent, NeedingApproval, Status
<1>5. SaveIsLatest'
  BY <1>1 DEF SaveIsLatest, NotSaving
<1>6. TurnIsCurrent'
  BY DEF TurnIsCurrent, Callable, Status
<1> QED
  BY <1>2, <1>3, <1>4, <1>5, <1>6

LEMMA SendKeeps == ASSUME IInv, NEW s \in Sessions, Send(s) PROVE IInv'
<1> USE DEF Send, IInv
<1> DEFINE given == [t \in Tools |-> IF t \in Callable THEN discovered[t] ELSE None]
<1>1. given \in Pins
  BY DEF TypeOK, Pins
<1>2. Holds(given) /\ Callable \subseteq {t \in Tools : given[t] # None}
  BY Sets DEF Agreed, Holds
<1>3. turn'[s] = [on |-> TRUE, tools |-> given] /\ told'[s] = {}
  BY DEF TypeOK
<1>4. \A r \in Sessions : r # s => turn'[r] = turn[r] /\ told'[r] = told[r] /\ late'[r] = late[r]
  BY DEF TypeOK
<1>5. TypeOK'
  BY <1>1 DEF TypeOK
<1>6. Agreed'
  <2>1. \A r \in Sessions : Holds(turn'[r].tools)
    BY <1>2, <1>3, <1>4 DEF Agreed
  <2> HIDE DEF given
  <2> QED
    BY <2>1 DEF Agreed, Holds, Approved
<1>7. PagesAreCurrent' /\ SaveIsLatest'
  BY DEF PagesAreCurrent, SaveIsLatest, NeedingApproval, Status
<1>8. Callable' = Callable
  BY DEF Callable, Status
<1>9. TurnIsCurrent'
  <2> HIDE DEF given
  <2> QED
    BY <1>2, <1>3, <1>4, <1>8 DEF TurnIsCurrent
<1> QED
  BY <1>5, <1>6, <1>7, <1>9

LEMMA SearchKeeps == ASSUME IInv, NEW s \in Sessions, Search(s) PROVE IInv'
<1> PICK found \in SUBSET Callable :
      /\ turn[s].on
      /\ loaded' = loaded \cup found
      /\ told' = [told EXCEPT ![s] = @ \cup found]
      /\ UNCHANGED <<offered, changes, process, starts, discovered, pinned, file, saving, page, turn,
                     late, agreed, blind, unsaved>>
  BY DEF Search
<1> USE DEF IInv
<1>1. TypeOK'
  BY DEF TypeOK, Callable
<1>2. Agreed' /\ PagesAreCurrent' /\ SaveIsLatest'
  BY DEF Agreed, Holds, Approved, PagesAreCurrent, SaveIsLatest, NeedingApproval, Status
<1>3. Callable' = Callable
  BY DEF Callable, Status
<1>4. told'[s] = told[s] \cup found /\ \A r \in Sessions : r # s => told'[r] = told[r]
  BY DEF TypeOK
<1>5. TurnIsCurrent'
  BY <1>3, <1>4 DEF TurnIsCurrent
<1> QED
  BY <1>1, <1>2, <1>5

LEMMA TurnEndsKeeps == ASSUME IInv, NEW s \in Sessions, TurnEnds(s) PROVE IInv'
<1> USE DEF TurnEnds, IInv
<1>1. turn'[s] = NoTurn /\ told'[s] = {}
      /\ \A r \in Sessions : r # s => turn'[r] = turn[r] /\ told'[r] = told[r] /\ late'[r] = late[r]
  BY DEF TypeOK
<1>2. TypeOK'
  BY DEF TypeOK, NoTurn, NoPins, Pins
<1>3. Agreed'
  BY <1>1 DEF Agreed, Holds, Approved, NoTurn, NoPins
<1>4. PagesAreCurrent' /\ SaveIsLatest'
  BY DEF PagesAreCurrent, SaveIsLatest, NeedingApproval, Status
<1>5. TurnIsCurrent'
  BY <1>1 DEF TurnIsCurrent, Callable, Status, NoTurn
<1> QED
  BY <1>2, <1>3, <1>4, <1>5

LEMMA NextKeepsIInv == IInv /\ [Next]_vars => IInv'
<1> SUFFICES ASSUME IInv, [Next]_vars PROVE IInv'
  OBVIOUS
<1>1. CASE \E t \in Tools, v \in Versions : ServerChanges(t, v)
  BY <1>1, ServerChangesKeeps
<1>2. CASE \E reached \in SUBSET Servers : InitConnectors(reached)
  BY <1>2, InitConnectorsKeeps
<1>3. CASE Exit
  BY <1>3, ExitKeeps
<1>4. ASSUME NEW p \in Pages,
             Refresh(p) \/ ApproveOne(p) \/ ApproveAll(p) \/ SaveOpens(p) \/ SaveWrites(p) \/ SaveFails(p)
      PROVE  IInv'
  <2>1. CASE ApproveOne(p)
    <3>1. PICK t \in Tools : Post(p, {t})
      BY <2>1 DEF ApproveOne, Listed
    <3> QED
      BY <3>1, PostKeeps
  <2>2. CASE ApproveAll(p)
    BY <2>2, PostKeeps DEF ApproveAll
  <2> QED
    BY <1>4, <2>1, <2>2, RefreshKeeps, SaveOpensKeeps, SaveWritesKeeps, SaveFailsKeeps
<1>5. ASSUME NEW s \in Sessions, Send(s) \/ Search(s) \/ TurnEnds(s)
      PROVE  IInv'
  BY <1>5, SendKeeps, SearchKeeps, TurnEndsKeeps
<1>6. CASE UNCHANGED vars
  BY <1>6, Sets DEF vars, historyVars, IInv, TypeOK, Agreed, Holds, Approved, PagesAreCurrent, SaveIsLatest,
                    TurnIsCurrent, NeedingApproval, Callable, Status
<1> QED
  BY <1>1, <1>2, <1>3, <1>4, <1>5, <1>6 DEF Next

LEMMA IInvHolds == Spec => []IInv
BY InitIInv, NextKeepsIInv, PTL DEF Spec

(* Every variable of the connectors' state keeps its type. *)
THEOREM TypeCorrect == Spec => []TypeOK
<1>1. IInv => TypeOK
  BY DEF IInv
<1> QED
  BY <1>1, IInvHolds, PTL

(* A turn can call a tool only in a version that somebody approved          *)
(* (toolset.ts callable, aiTools), through restarts, torn files and changes *)
(* of the server, be they of its schema only.                               *)
THEOREM CallsAreApproved == Spec => []OnlyApprovedRun
<1>1. IInv => OnlyApprovedRun
  BY DEF IInv, Agreed, Holds, OnlyApprovedRun
<1> QED
  BY <1>1, IInvHolds, PTL

(* The description of a version that is pinned was shown by the page that   *)
(* approved it, or the page was older than the process (mcp/route.ts POST). *)
THEOREM ApprovalsWereShown == Spec => []PinsWereShown
<1>1. IInv => PinsWereShown
  BY DEF IInv, Agreed, Holds, PinsWereShown
<1> QED
  BY <1>1, IInvHolds, PTL

(* The approvals file has the pins whenever no save is under way, unless    *)
(* one failed or met another (connectors.ts save).                          *)
THEOREM FileHasThePins == Spec => []ApprovalsSurvive
<1>1. IInv => ApprovalsSurvive
  BY DEF IInv, SaveIsLatest, ApprovalsSurvive
<1> QED
  BY <1>1, IInvHolds, PTL

(* What search announces is callable on the next step, unless it was        *)
(* approved during the turn (toolset.ts search, aiTools).                   *)
THEOREM SearchIsHonest == Spec => []SearchTellsTruth
<1>1. IInv => SearchTellsTruth
  BY DEF IInv, TurnIsCurrent, SearchTellsTruth, Reachable
<1> QED
  BY <1>1, IInvHolds, PTL

-----------------------------------------------------------------------------
(* The connectors.                                                          *)
Scripts == {<<>>, <<"get">>, <<"get", "get">>, <<"get", "try">>, <<"try">>, <<"ask", "post">>, <<"post">>}

Records(n) == [at : {"idle", "refreshing", "granted", "refused", "running", "over"},
               with : 0..n, got : 0..n, left : Scripts]

Kinds ==
  /\ provider \in C!Providers /\ live \subseteq 1..issued /\ issued \in Nat /\ expiries \in Nat
  /\ row \in [here : BOOLEAN, refresh : 0..issued, expired : BOOLEAN]
  /\ signIn \in [SignIns -> {"none", "begun", "late", "exchanging"}]
  /\ call \in [Calls -> Records(issued)]
  /\ allowed \subseteq Calls /\ sent \subseteq Calls /\ lost \in BOOLEAN

(* What a call has got is its own, and accepted; one with a token to send   *)
(* back was given it by the row.                                            *)
Tokens ==
  /\ \A c \in Calls : call[c].got # 0 =>
       /\ call[c].at = "granted" /\ call[c].got \in live /\ call[c].got # row.refresh
       /\ \A d \in Calls : call[d].with # call[c].got /\ (d # c => call[d].got # call[c].got)
  /\ \A c \in Calls : call[c].at = "granted" /\ call[c].got = 0 => ~provider.rotates /\ call[c].with \in live
  /\ \A c \in Calls : call[c].at \in {"refreshing", "granted"} => call[c].with # 0

Connected ==
  (row.here /\ provider.offline /\ ~lost) => row.refresh \in live \/ \E c \in Calls : call[c].got # 0

Asked ==
  /\ sent \subseteq allowed
  /\ \A c \in Calls : call[c].left = <<"post">> => c \in allowed

ConnectorInv == Kinds /\ Tokens /\ Connected /\ Asked

-----------------------------------------------------------------------------
LEMMA ScriptsOf ==
  \A p \in C!Providers :
    C!ToolsOf(p) \subseteq {<<"get">>, <<"get", "get">>, <<"get", "try">>, <<"ask", "post">>}
BY DEF C!Providers, C!ToolsOf, C!DriveTools, C!GmailTools, C!SlackTools

LEMMA TailsAreScripts ==
  /\ \A s \in Scripts : Len(s) > 1 => Tail(s) \in Scripts
  /\ \A s \in Scripts : Len(s) > 1 /\ Tail(s) = <<"post">> => s = <<"ask", "post">>
  /\ \A s \in Scripts : s # <<>> /\ Head(s) = "post" => s = <<"post">>
BY DEF Scripts

LEMMA ConnectorsBegin == C!Init => ConnectorInv
<1> SUFFICES ASSUME C!Init PROVE ConnectorInv
  OBVIOUS
<1>1. <<>> \in Scripts /\ <<>> # <<"post">>
  BY DEF Scripts
<1>2. \A c \in Calls : call[c] = [at |-> "idle", with |-> 0, got |-> 0, left |-> <<>>]
  BY DEF C!Init, C!Idle
<1>3. Kinds
  <2>1. [at |-> "idle", with |-> 0, got |-> 0, left |-> <<>>] \in Records(0)
    BY <1>1 DEF Records
  <2>2. call \in [Calls -> Records(issued)]
    BY <2>1 DEF C!Init, C!Idle
  <2>3. row \in [here : BOOLEAN, refresh : 0..issued, expired : BOOLEAN]
    BY DEF C!Init, C!NoRow
  <2> QED BY <2>2, <2>3 DEF C!Init, Kinds
<1>4. Tokens /\ Connected
  BY <1>2 DEF C!Init, Tokens, Connected, C!NoRow
<1>5. Asked
  BY <1>1, <1>2 DEF C!Init, Asked
<1> QED BY <1>3, <1>4, <1>5 DEF ConnectorInv

(* A step of one call that takes no token from the provider; the row may    *)
(* change, but not to a token another call has got.                         *)
LEMMA TokenStep ==
  ASSUME Kinds, Tokens, NEW c \in Calls, NEW r \in Records(issued),
         call' = [call EXCEPT ![c] = r], UNCHANGED <<provider, live>>, r.got = 0,
         \A d \in Calls \ {c} : call[d].got # 0 => call[d].got # r.with /\ call[d].got # row'.refresh,
         r.at = "granted" => ~provider.rotates /\ r.with \in live,
         r.at \in {"refreshing", "granted"} => r.with # 0
  PROVE  Tokens'
<1>1. call \in [Calls -> Records(issued)]
  BY DEF Kinds
<1>2. /\ call'[c] = r
      /\ \A d \in Calls \ {c} : call'[d] = call[d]
  BY <1>1
<1>3. \A d \in Calls : call'[d].got # 0 => d # c /\ call'[d].got = call[d].got
  BY <1>2
<1>4. \A d, e \in Calls : call'[d].got # 0 => call'[e].with # call'[d].got
  <2> TAKE d, e \in Calls
  <2> HAVE call'[d].got # 0
  <2>1. d # c /\ call'[d].got = call[d].got /\ call[d].got # 0 /\ call[e].with # call[d].got
    BY <1>3 DEF Tokens
  <2> QED BY <1>2, <2>1
<1>5. \A d \in Calls : call'[d].got # 0 =>
        call'[d].at = "granted" /\ call'[d].got \in live' /\ call'[d].got # row'.refresh
  BY <1>2, <1>3 DEF Tokens
<1>6. \A d, e \in Calls : call'[d].got # 0 /\ e # d => call'[e].got # call'[d].got
  <2> TAKE d, e \in Calls
  <2> HAVE call'[d].got # 0 /\ e # d
  <2>1. d # c /\ call'[d].got = call[d].got /\ call[e].got # call[d].got
    BY <1>3 DEF Tokens
  <2> QED BY <1>2, <2>1
<1>7. \A d \in Calls :
        call'[d].at = "granted" /\ call'[d].got = 0 => ~provider.rotates /\ call'[d].with \in live
  BY <1>2 DEF Tokens
<1>8. \A d \in Calls : call'[d].at \in {"refreshing", "granted"} => call'[d].with # 0
  BY <1>2 DEF Tokens
<1> QED BY <1>4, <1>5, <1>6, <1>7, <1>8 DEF Tokens

(* One that has got none, and at most removes the row, changes nothing of a *)
(* connection.                                                              *)
LEMMA QuietStep ==
  ASSUME Kinds, Tokens, Connected, NEW c \in Calls, NEW r \in Records(issued),
         call' = [call EXCEPT ![c] = r],
         UNCHANGED <<provider, live, issued, lost>>, row' \in {row, C!NoRow},
         call[c].got = 0, r.got = 0,
         r.with \in {call[c].with, row.refresh, 0},
         r.at = "granted" => ~provider.rotates /\ r.with \in live,
         r.at \in {"refreshing", "granted"} => r.with # 0
  PROVE  Tokens' /\ Connected' /\ call' \in [Calls -> Records(issued)]
<1>1. call \in [Calls -> Records(issued)] /\ call' \in [Calls -> Records(issued)]
  BY DEF Kinds
<1>2. \A d \in Calls : call'[d].got = call[d].got
  BY <1>1
<1>3. \A d \in Calls \ {c} : call[d].got # 0 => call[d].got # r.with /\ call[d].got # row'.refresh
  BY DEF Tokens, C!NoRow
<1>4. Tokens'
  BY <1>3, TokenStep
<1>5. Connected'
  BY <1>2 DEF Connected, C!NoRow
<1> QED BY <1>1, <1>4, <1>5

(* What leaves calls and the provider alone.                                *)
LEMMA TokensKept ==
  ASSUME Tokens, UNCHANGED <<call, provider>>, live \subseteq live',
         \A c \in Calls : call[c].got # 0 => call[c].got # row'.refresh
  PROVE  Tokens'
BY DEF Tokens

Over1 == [at |-> "over", with |-> 0, got |-> 0, left |-> <<>>]

LEMMA OverIsOver == C!Over = Over1 /\ (\A n \in Nat : C!Over \in Records(n)) /\ C!Over.left # <<"post">>
<1>1. C!Over = Over1
  BY DEF C!Over, Over1, C!Idle
<1>2. <<>> \in Scripts /\ <<>> # <<"post">>
  BY DEF Scripts
<1> QED BY <1>1, <1>2 DEF Over1, Records

LEMMA RunningIsRunning ==
  ASSUME NEW s \in Scripts
  PROVE  /\ C!Running(s) = [at |-> "running", with |-> 0, got |-> 0, left |-> s]
         /\ \A n \in Nat : C!Running(s) \in Records(n)
<1> DEFINE r == [at |-> "running", with |-> 0, got |-> 0, left |-> s]
<1>1. C!Running(s) = r
  BY DEF C!Running
<1>2. ASSUME NEW n \in Nat PROVE r \in Records(n)
  BY <1>2 DEF Records
<1> HIDE DEF r
<1>3. \A n \in Nat : C!Running(s) \in Records(n)
  BY <1>1, <1>2
<1> QED BY <1>1, <1>3 DEF r

(* A record with another script.                                            *)
LEMMA LeftOnly ==
  ASSUME NEW n, NEW r \in Records(n), NEW s
  PROVE  [r EXCEPT !.left = s] = [at |-> r.at, with |-> r.with, got |-> r.got, left |-> s]
BY DEF Records

LEMMA GoesOrStops ==
  ASSUME Kinds, Tokens, NEW c \in Calls, call[c].at = "running", call[c].left # <<>>, C!Goes(c) \/ C!Stops(c)
  PROVE  \E r \in Records(issued) :
           /\ call' = [call EXCEPT ![c] = r] /\ r.got = 0
           /\ r.with \in {call[c].with, 0} /\ r.at \in {"running", "over"}
           /\ r.left = <<"post">> => Head(call[c].left) = "ask" /\ C!Goes(c)
<1>1. call \in [Calls -> Records(issued)] /\ call[c] \in Records(issued) /\ issued \in Nat
  BY DEF Kinds
<1>2. call[c].got = 0
  BY DEF Tokens
<1>3. CASE call' = [call EXCEPT ![c] = C!Over]
  BY <1>1, <1>3, OverIsOver DEF Over1
<1>4. CASE C!Goes(c) /\ Len(call[c].left) # 1
  <2> DEFINE s == call[c].left
             r == [at |-> "running", with |-> call[c].with, got |-> 0, left |-> Tail(s)]
  <2>1. s \in Scripts /\ s # <<>> /\ Len(s) # 1
    BY <1>1, <1>4 DEF Records
  <2>2. Len(s) > 1
    BY <2>1 DEF Scripts
  <2>3. Tail(s) \in Scripts /\ (Tail(s) = <<"post">> => Head(s) = "ask")
    BY <2>1, <2>2, TailsAreScripts
  <2>4. [call[c] EXCEPT !.left = Tail(call[c].left)] = r
    <3>1. [call[c] EXCEPT !.left = Tail(s)] =
            [at |-> call[c].at, with |-> call[c].with, got |-> call[c].got, left |-> Tail(s)]
      BY <1>1, LeftOnly
    <3> QED BY <1>2, <3>1
  <2>5. call' = [call EXCEPT ![c] = r]
    <3>1. C!Went(c) = [call[c] EXCEPT !.left = Tail(call[c].left)]
      BY <1>4 DEF C!Went
    <3>2. C!Went(c) = r
      BY <2>4, <3>1
    <3>3. call' = [call EXCEPT ![c] = C!Went(c)]
      BY <1>4 DEF C!Goes
    <3> HIDE DEF r
    <3> QED BY <3>2, <3>3
  <2>6. r \in Records(issued)
    <3>1. call[c].with \in 0..issued /\ 0 \in 0..issued /\ Tail(s) \in Scripts
      BY <1>1, <2>3 DEF Records
    <3> HIDE DEF s
    <3> QED BY <3>1 DEF Records
  <2>7. r.got = 0 /\ r.with = call[c].with /\ r.at = "running" /\ r.left = Tail(s)
    OBVIOUS
  <2> HIDE DEF r
  <2> QED BY <1>4, <2>3, <2>5, <2>6, <2>7
<1>5. CASE C!Goes(c) /\ Len(call[c].left) = 1
  BY <1>1, <1>3, <1>5 DEF C!Goes, C!Went
<1> QED BY <1>3, <1>4, <1>5 DEF C!Stops

-----------------------------------------------------------------------------
LEMMA IdleIsQuiet == ASSUME Tokens, NEW c \in Calls, call[c].at # "granted" PROVE call[c].got = 0
BY DEF Tokens

(* A call that goes to a new record, all else alike: what Kinds asks.       *)
LEMMA KindsStep ==
  ASSUME Kinds, call' \in [Calls -> Records(issued)], row' \in {row, C!NoRow},
         UNCHANGED <<provider, live, issued, expiries, signIn>>,
         allowed' \subseteq Calls, sent' \subseteq Calls, lost' \in BOOLEAN
  PROVE  Kinds'
<1>1. 0 \in 0..issued
  BY DEF Kinds
<1>2. C!NoRow \in [here : BOOLEAN, refresh : 0..issued, expired : BOOLEAN]
  BY <1>1 DEF C!NoRow
<1>3. row' \in [here : BOOLEAN, refresh : 0..issued, expired : BOOLEAN]
  BY <1>2 DEF Kinds
<1> QED BY <1>3 DEF Kinds

(* One whose script does not come to a post.                                *)
LEMMA AskedStep ==
  ASSUME Kinds, Asked, NEW c \in Calls, NEW r \in Records(issued), call' = [call EXCEPT ![c] = r],
         UNCHANGED sent, allowed \subseteq allowed', r.left = <<"post">> => c \in allowed'
  PROVE  Asked'
<1>1. call \in [Calls -> Records(issued)]
  BY DEF Kinds
<1>2. \A d \in Calls : call'[d].left = <<"post">> => d \in allowed'
  BY <1>1 DEF Asked
<1> QED BY <1>2 DEF Asked

LEMMA UseTokenKeeps ==
  ASSUME ConnectorInv, NEW c \in Calls, NEW script \in C!ToolsOf(provider), C!UseToken(c, script)
  PROVE  ConnectorInv'
<1> USE DEF ConnectorInv
<1>1. /\ issued \in Nat /\ provider \in C!Providers /\ call[c].got = 0
      /\ row.refresh \in 0..issued
      /\ UNCHANGED <<provider, live, issued, expiries, signIn, allowed, sent, lost>>
  BY IdleIsQuiet DEF Kinds, C!UseToken
<1>2. script \in Scripts /\ script # <<"post">>
  BY <1>1, ScriptsOf DEF Scripts
<1>3. \E r \in Records(issued) :
        /\ call' = [call EXCEPT ![c] = r] /\ r.got = 0 /\ r.with \in {row.refresh, 0} /\ r.at # "granted"
        /\ r.at = "refreshing" => r.with # 0
        /\ r.left # <<"post">>
  <2>1. CASE call' = [call EXCEPT ![c] = C!Over]
    BY <1>1, <2>1, OverIsOver DEF Over1
  <2>2. CASE call' = [call EXCEPT ![c] = C!Running(script)]
    <3>1. /\ C!Running(script) \in Records(issued) /\ C!Running(script).got = 0 /\ C!Running(script).with = 0
          /\ C!Running(script).at = "running" /\ C!Running(script).left = script
      BY <1>1, <1>2, RunningIsRunning
    <3> QED BY <1>2, <2>2, <3>1
  <2> DEFINE r == [at |-> "refreshing", with |-> row.refresh, got |-> 0, left |-> script]
  <2>3. CASE row.refresh # 0 /\ call' = [call EXCEPT ![c] = r]
    <3>1. 0 \in 0..issued
      BY <1>1
    <3>2. r \in Records(issued)
      BY <1>1, <1>2, <3>1 DEF Records
    <3>3. r.got = 0 /\ r.with = row.refresh /\ r.at = "refreshing" /\ r.left = script
      OBVIOUS
    <3> HIDE DEF r
    <3> QED BY <1>2, <2>3, <3>2, <3>3
  <2> QED BY <2>1, <2>2, <2>3 DEF C!UseToken
<1>4. row' \in {row, C!NoRow}
  BY DEF C!UseToken
<1>5. PICK r \in Records(issued) :
        /\ call' = [call EXCEPT ![c] = r] /\ r.got = 0 /\ r.with \in {row.refresh, 0} /\ r.at # "granted"
        /\ r.at = "refreshing" => r.with # 0
        /\ r.left # <<"post">>
  BY <1>3
<1>6. Tokens' /\ Connected' /\ call' \in [Calls -> Records(issued)]
  BY <1>1, <1>4, <1>5, QuietStep
<1>7. Kinds'
  BY <1>1, <1>4, <1>6, KindsStep DEF Kinds
<1>8. Asked'
  BY <1>1, <1>5, AskedStep
<1> QED BY <1>6, <1>7, <1>8

(* A call that goes on or stops, with what it asked and sent.               *)
LEMMA ScriptKeeps ==
  ASSUME ConnectorInv, NEW c \in Calls, call[c].at = "running", call[c].left # <<>>, C!Goes(c) \/ C!Stops(c),
         UNCHANGED <<provider, live, issued, expiries, row, signIn, lost>>,
         allowed \subseteq allowed', allowed' \subseteq Calls,
         C!Goes(c) /\ Head(call[c].left) = "ask" => c \in allowed'
  PROVE  /\ Kinds /\ sent' \subseteq Calls => Kinds'
         /\ Tokens' /\ Connected'
         /\ \A d \in Calls : call'[d].left = <<"post">> => d \in allowed'
<1> USE DEF ConnectorInv
<1>1. PICK r \in Records(issued) :
        /\ call' = [call EXCEPT ![c] = r] /\ r.got = 0
        /\ r.with \in {call[c].with, 0} /\ r.at \in {"running", "over"}
        /\ r.left = <<"post">> => Head(call[c].left) = "ask" /\ C!Goes(c)
  BY GoesOrStops
<1>2. call[c].got = 0
  BY IdleIsQuiet
<1>3. Tokens' /\ Connected' /\ call' \in [Calls -> Records(issued)]
  BY <1>1, <1>2, QuietStep
<1>4. ASSUME sent' \subseteq Calls PROVE Kinds'
  BY <1>3, <1>4, KindsStep DEF Kinds
<1>5. \A d \in Calls : call'[d].left = <<"post">> => d \in allowed'
  BY <1>1 DEF Kinds, Asked
<1> QED BY <1>3, <1>4, <1>5

LEMMA RequestKeeps == ASSUME ConnectorInv, NEW c \in Calls, C!Request(c) PROVE ConnectorInv'
<1>1. call[c].at = "running" /\ call[c].left # <<>> /\ (C!Goes(c) \/ C!Stops(c)) /\ Head(call[c].left) # "ask"
  BY DEF C!Request, C!Step
<1>2. UNCHANGED <<provider, live, issued, expiries, row, signIn, lost, allowed, sent>>
  BY DEF C!Request
<1>3. allowed \subseteq Calls /\ sent \subseteq Calls /\ sent \subseteq allowed
  BY DEF ConnectorInv, Kinds, Asked
<1>4. Kinds' /\ Tokens' /\ Connected' /\ \A d \in Calls : call'[d].left = <<"post">> => d \in allowed'
  BY <1>1, <1>2, <1>3, ScriptKeeps DEF ConnectorInv
<1> QED BY <1>2, <1>3, <1>4 DEF ConnectorInv, Asked

LEMMA ConfirmKeeps == ASSUME ConnectorInv, NEW c \in Calls, C!Confirm(c) PROVE ConnectorInv'
<1>1. call[c].at = "running" /\ call[c].left # <<>> /\ (C!Goes(c) \/ C!Stops(c))
  BY DEF C!Confirm, C!Step
<1>2. UNCHANGED <<provider, live, issued, expiries, row, signIn, lost, sent>>
  BY DEF C!Confirm
<1>3. allowed \subseteq Calls /\ sent \subseteq Calls /\ sent \subseteq allowed
  BY DEF ConnectorInv, Kinds, Asked
<1>4. CASE C!Goes(c) /\ allowed' = allowed \cup {c}
  <2>1. Kinds' /\ Tokens' /\ Connected' /\ \A d \in Calls : call'[d].left = <<"post">> => d \in allowed'
    BY <1>1, <1>2, <1>3, <1>4, ScriptKeeps DEF ConnectorInv
  <2> QED BY <1>2, <1>3, <1>4, <2>1 DEF ConnectorInv, Asked
<1>5. CASE C!Stops(c) /\ UNCHANGED allowed
  <2>1. PICK r \in Records(issued) :
          /\ call' = [call EXCEPT ![c] = r] /\ r.got = 0
          /\ r.with \in {call[c].with, 0} /\ r.at \in {"running", "over"}
          /\ r.left # <<"post">>
    BY <1>5, OverIsOver DEF C!Stops, Over1, ConnectorInv, Kinds
  <2>2. Tokens' /\ Connected' /\ call' \in [Calls -> Records(issued)]
    BY <1>1, <1>2, <2>1, IdleIsQuiet, QuietStep DEF ConnectorInv
  <2>3. Kinds'
    BY <1>2, <1>3, <1>5, <2>2, KindsStep DEF ConnectorInv, Kinds
  <2>4. Asked'
    BY <1>2, <1>5, <2>1, AskedStep DEF ConnectorInv
  <2> QED BY <2>2, <2>3, <2>4 DEF ConnectorInv
<1> QED BY <1>4, <1>5 DEF C!Confirm

LEMMA PostingKeeps == ASSUME ConnectorInv, NEW c \in Calls, C!Post(c) PROVE ConnectorInv'
<1>1. /\ call[c].at = "running" /\ call[c].left # <<>> /\ Head(call[c].left) = "post" /\ C!Stops(c)
      /\ call[c].left \in Scripts
  BY DEF C!Post, C!Step, ConnectorInv, Kinds, Records
<1>2. /\ UNCHANGED <<provider, live, issued, expiries, row, signIn, lost, allowed>>
      /\ sent' \in {sent, sent \cup {c}}
  BY DEF C!Post
<1>3. allowed \subseteq Calls /\ sent \subseteq Calls /\ sent \subseteq allowed
  BY DEF ConnectorInv, Kinds, Asked
<1>4. c \in allowed
  BY <1>1, TailsAreScripts DEF ConnectorInv, Asked
<1>5. sent' \subseteq Calls /\ sent' \subseteq allowed
  BY <1>2, <1>3, <1>4
<1>6. Kinds' /\ Tokens' /\ Connected' /\ \A d \in Calls : call'[d].left = <<"post">> => d \in allowed'
  BY <1>1, <1>2, <1>3, <1>4, <1>5, ScriptKeeps DEF ConnectorInv
<1> QED BY <1>2, <1>5, <1>6 DEF ConnectorInv, Asked

(* A row that was just put.                                                 *)
LEMMA RowIsRow ==
  ASSUME NEW n \in Nat, NEW k \in 0..n
  PROVE  C!Row(k) \in [here : BOOLEAN, refresh : 0..n, expired : BOOLEAN] /\ C!Row(k).refresh = k
BY DEF C!Row

LEMMA ProviderAnswersKeeps == ASSUME ConnectorInv, NEW c \in Calls, C!ProviderAnswers(c) PROVE ConnectorInv'
<1> DEFINE old == call[c].with
<1>1. /\ call \in [Calls -> Records(issued)] /\ call[c] \in Records(issued) /\ issued \in Nat
      /\ call[c].at = "refreshing" /\ call[c].got = 0 /\ old # 0
      /\ UNCHANGED <<provider, expiries, row, signIn, allowed, sent, lost>>
  BY DEF ConnectorInv, Kinds, C!ProviderAnswers, Tokens
<1>2. CASE \/ call' = [call EXCEPT ![c].at = "refused"] /\ UNCHANGED <<live, issued>>
           \/ /\ call' = [call EXCEPT ![c] = C!Granted(c, 0)] /\ UNCHANGED <<live, issued>>
              /\ ~provider.rotates /\ old \in live
  <2>1. \E r \in Records(issued) :
          /\ call' = [call EXCEPT ![c] = r] /\ UNCHANGED <<live, issued>>
          /\ r.got = 0 /\ r.with = old /\ r.at \in {"refused", "granted"} /\ r.left = call[c].left
          /\ r.at = "granted" => ~provider.rotates /\ old \in live
    <3>1. CASE call' = [call EXCEPT ![c].at = "refused"] /\ UNCHANGED <<live, issued>>
      <4> DEFINE r == [call[c] EXCEPT !.at = "refused"]
      <4>1. /\ r \in Records(issued) /\ r.got = 0 /\ r.with = old /\ r.at = "refused"
            /\ r.left = call[c].left /\ call' = [call EXCEPT ![c] = r]
        BY <1>1, <3>1 DEF Records
      <4> HIDE DEF r
      <4> QED BY <3>1, <4>1
    <3>2. CASE /\ call' = [call EXCEPT ![c] = C!Granted(c, 0)] /\ UNCHANGED <<live, issued>>
               /\ ~provider.rotates /\ old \in live
      <4>1. /\ C!Granted(c, 0) \in Records(issued) /\ C!Granted(c, 0).got = 0 /\ C!Granted(c, 0).with = old
            /\ C!Granted(c, 0).at = "granted" /\ C!Granted(c, 0).left = call[c].left
        BY <1>1 DEF C!Granted, Records
      <4> QED BY <3>2, <4>1
    <3> QED BY <1>2, <3>1, <3>2
  <2>2. PICK r \in Records(issued) :
          /\ call' = [call EXCEPT ![c] = r] /\ UNCHANGED <<live, issued>>
          /\ r.got = 0 /\ r.with = old /\ r.at \in {"refused", "granted"} /\ r.left = call[c].left
          /\ r.at = "granted" => ~provider.rotates /\ old \in live
    BY <2>1
  <2>3. Tokens' /\ Connected' /\ call' \in [Calls -> Records(issued)]
    BY <1>1, <2>2, QuietStep DEF ConnectorInv
  <2>4. Kinds'
    BY <1>1, <2>2, <2>3, KindsStep DEF ConnectorInv, Kinds
  <2>5. Asked'
    BY <1>1, <2>2, AskedStep DEF ConnectorInv, Asked
  <2> QED BY <2>3, <2>4, <2>5 DEF ConnectorInv
<1>3. CASE /\ old \in live /\ provider.rotates
           /\ call' = [call EXCEPT ![c] = C!Granted(c, issued + 1)]
           /\ live' = (live \ {old}) \cup {issued + 1} /\ issued' = issued + 1
  <2> DEFINE n == issued + 1
             r == C!Granted(c, n)
  <2>1. /\ n \in Nat /\ n # 0 /\ issued < n /\ old \in 0..n /\ 0..issued \subseteq 0..n
        /\ n \notin 0..issued /\ live \subseteq 1..issued /\ live' \subseteq 1..n /\ n \in live'
        /\ row.refresh \in 0..issued
    <3>1. live \subseteq 1..issued /\ row.refresh \in 0..issued /\ old \in 0..issued
      BY <1>1 DEF ConnectorInv, Kinds, Records
    <3>2. n \in Nat /\ n # 0 /\ issued < n /\ 0..issued \subseteq 0..n /\ n \notin 0..issued
      BY <1>1
    <3>3. live' = (live \ {old}) \cup {n}
      BY <1>3
    <3>4. 1..issued \subseteq 1..n /\ n \in 1..n
      BY <1>1
    <3> HIDE DEF n
    <3> QED BY <3>1, <3>2, <3>3, <3>4
  <2>2. call' = [call EXCEPT ![c] = r]
    BY <1>3
  <2>3. r \in Records(n)
    <3>1. n \in 0..n /\ call[c].left \in Scripts
      BY <1>1, <2>1 DEF Records
    <3> QED BY <2>1, <3>1 DEF Records, C!Granted
  <2>4. r.at = "granted" /\ r.with = old /\ r.got = n /\ r.left = call[c].left
    BY DEF C!Granted
  <2> HIDE DEF r
  <2>5. Records(issued) \subseteq Records(n)
    BY <2>1 DEF Records
  <2> HIDE DEF n
  <2>6. call' \in [Calls -> Records(n)]
    BY <1>1, <2>2, <2>3, <2>5
  <2>7. call'[c] = r /\ \A d \in Calls \ {c} : call'[d] = call[d]
    BY <1>1, <2>2
  <2>8. \A d \in Calls : call[d].with \in 0..issued /\ call[d].got \in 0..issued
    BY <1>1 DEF Records
  <2>9. \A d \in Calls : call'[d].with = call[d].with
    BY <2>4, <2>7
  <2>10. \A d \in Calls \ {c} : call[d].got # 0 => call[d].got # old /\ call[d].got \in live
    BY DEF ConnectorInv, Tokens
  <2>11. \A d \in Calls : call'[d].got # 0 =>
           /\ call'[d].at = "granted" /\ call'[d].got \in live' /\ call'[d].got # row'.refresh
           /\ \A e \in Calls : call'[e].with # call'[d].got /\ (e # d => call'[e].got # call'[d].got)
    <3> TAKE d \in Calls
    <3> HAVE call'[d].got # 0
    <3>1. CASE d = c
      <4>1. call'[d].at = "granted" /\ call'[d].got = n /\ n \in live' /\ n # row'.refresh
        BY <1>1, <2>1, <2>4, <2>7, <3>1
      <4>2. \A e \in Calls : call[e].with # n /\ call[e].got # n
        BY <2>1, <2>8
      <4> QED BY <2>7, <2>9, <3>1, <4>1, <4>2
    <3>2. CASE d # c
      <4>1. call'[d] = call[d] /\ call[d].got # 0
        BY <2>7, <3>2
      <4>2. call[d].got \in live' /\ call[d].got # n
        BY <1>3, <2>1, <2>8, <2>10, <3>2, <4>1 DEF n
      <4>3. /\ call[d].at = "granted" /\ call[d].got # row.refresh
            /\ \A e \in Calls : call[e].with # call[d].got /\ (e # d => call[e].got # call[d].got)
        BY <4>1 DEF ConnectorInv, Tokens
      <4>4. \A e \in Calls : e # d => call'[e].got # call[d].got
        BY <2>4, <2>7, <4>2, <4>3
      <4> QED BY <1>1, <2>9, <4>1, <4>2, <4>3, <4>4
    <3> QED BY <3>1, <3>2
  <2>12. \A d \in Calls :
           call'[d].at = "granted" /\ call'[d].got = 0 => ~provider'.rotates /\ call'[d].with \in live'
    BY <1>1, <1>3, <2>1, <2>4, <2>7 DEF ConnectorInv, Tokens
  <2>13. \A d \in Calls : call'[d].at \in {"refreshing", "granted"} => call'[d].with # 0
    BY <1>1, <2>4, <2>7 DEF ConnectorInv, Tokens
  <2>14. Tokens'
    BY <2>11, <2>12, <2>13 DEF Tokens
  <2>15. Connected'
    BY <2>1, <2>4, <2>7 DEF Connected
  <2>16. Kinds'
    <3>1. issued' = n
      BY <1>3 DEF n
    <3>2. row' \in [here : BOOLEAN, refresh : 0..n, expired : BOOLEAN]
      BY <1>1, <2>1 DEF ConnectorInv, Kinds
    <3> QED BY <1>1, <2>1, <2>6, <3>1, <3>2 DEF ConnectorInv, Kinds
  <2>17. Asked'
    BY <1>1, <2>4, <2>7 DEF ConnectorInv, Asked
  <2> QED BY <2>14, <2>15, <2>16, <2>17 DEF ConnectorInv
<1> QED BY <1>2, <1>3 DEF C!ProviderAnswers

LEMMA RefreshArrivesKeeps == ASSUME ConnectorInv, NEW c \in Calls, C!RefreshArrives(c) PROVE ConnectorInv'
<1>1. /\ call \in [Calls -> Records(issued)] /\ call[c] \in Records(issued) /\ issued \in Nat
      /\ call[c].left \in Scripts /\ call[c].got \in 0..issued /\ call[c].with \in 0..issued
      /\ UNCHANGED <<provider, live, issued, expiries, signIn, allowed, sent, lost>>
  BY DEF ConnectorInv, Kinds, C!RefreshArrives, Records
<1>2. CASE /\ call[c].at = "granted" /\ row' = C!Refreshed(c)
           /\ call' = [call EXCEPT ![c] = C!Running(call[c].left)]
  <2> DEFINE k == IF call[c].got # 0 THEN call[c].got ELSE call[c].with
             r == C!Running(call[c].left)
  <2>1. row' = C!Row(k) /\ k \in 0..issued /\ k \in live
    BY <1>1, <1>2 DEF C!Refreshed, ConnectorInv, Tokens
  <2>2. row' \in [here : BOOLEAN, refresh : 0..issued, expired : BOOLEAN] /\ row'.refresh = k
    BY <1>1, <2>1, RowIsRow
  <2>3. r \in Records(issued) /\ r.got = 0 /\ r.with = 0 /\ r.at = "running" /\ r.left = call[c].left
    BY <1>1, RunningIsRunning
  <2>4. \A d \in Calls \ {c} : call[d].got # 0 => call[d].got # k
    BY DEF ConnectorInv, Tokens
  <2> HIDE DEF k, r
  <2>5. call' = [call EXCEPT ![c] = r]
    BY <1>2 DEF r
  <2>6. Tokens'
    BY <1>1, <2>2, <2>3, <2>4, <2>5, TokenStep DEF ConnectorInv
  <2>7. Connected'
    BY <1>1, <2>1, <2>2 DEF Connected
  <2>8. call' \in [Calls -> Records(issued)]
    BY <1>1, <2>3, <2>5
  <2>9. Kinds'
    BY <1>1, <2>2, <2>8 DEF ConnectorInv, Kinds
  <2>10. Asked'
    BY <1>1, <2>3, <2>5, AskedStep DEF ConnectorInv, Asked
  <2> QED BY <2>6, <2>7, <2>9, <2>10 DEF ConnectorInv
<1>3. CASE call[c].at = "refused" /\ row' = row /\ call' = [call EXCEPT ![c] = C!Over]
  <2>1. /\ C!Over \in Records(issued) /\ C!Over.got = 0 /\ C!Over.with = 0
        /\ C!Over.at = "over" /\ C!Over.left # <<"post">>
    BY <1>1, OverIsOver DEF Over1
  <2>2. Tokens' /\ Connected' /\ call' \in [Calls -> Records(issued)]
    BY <1>1, <1>3, <2>1, IdleIsQuiet, QuietStep DEF ConnectorInv
  <2>3. Kinds'
    BY <1>1, <1>3, <2>2, KindsStep DEF ConnectorInv, Kinds
  <2>4. Asked'
    BY <1>1, <1>3, <2>1, AskedStep DEF ConnectorInv
  <2> QED BY <2>2, <2>3, <2>4 DEF ConnectorInv
<1> QED BY <1>2, <1>3 DEF C!RefreshArrives

LEMMA RefreshLostKeeps == ASSUME ConnectorInv, NEW c \in Calls, C!RefreshLost(c) PROVE ConnectorInv'
<1>1. /\ call \in [Calls -> Records(issued)] /\ issued \in Nat /\ lost \in BOOLEAN
      /\ call' = [call EXCEPT ![c] = C!Over] /\ lost' = (lost \/ call[c].got # 0)
      /\ UNCHANGED <<provider, live, issued, expiries, row, signIn, allowed, sent>>
  BY DEF ConnectorInv, Kinds, C!RefreshLost
<1>2. /\ C!Over \in Records(issued) /\ C!Over.got = 0 /\ C!Over.with = 0
      /\ C!Over.at = "over" /\ C!Over.left # <<"post">>
  BY <1>1, OverIsOver DEF Over1
<1>3. \A d \in Calls \ {c} : call[d].got # 0 => call[d].got # C!Over.with /\ call[d].got # row'.refresh
  BY <1>1, <1>2 DEF ConnectorInv, Tokens
<1>4. Tokens'
  BY <1>1, <1>2, <1>3, TokenStep DEF ConnectorInv
<1>5. Connected'
  <2>1. CASE call[c].got # 0
    BY <1>1, <2>1 DEF Connected
  <2>2. CASE call[c].got = 0
    <3>1. \A d \in Calls : call'[d].got = call[d].got
      BY <1>1, <1>2, <2>2
    <3>2. lost' = lost
      BY <1>1, <2>2
    <3> QED BY <1>1, <3>1, <3>2 DEF ConnectorInv, Connected
  <2> QED BY <2>1, <2>2
<1>6. call' \in [Calls -> Records(issued)]
  BY <1>1, <1>2
<1>7. lost' \in BOOLEAN
  BY <1>1
<1>8. Kinds'
  BY <1>1, <1>6, <1>7, KindsStep DEF ConnectorInv, Kinds
<1>9. Asked'
  BY <1>1, <1>2, AskedStep DEF ConnectorInv
<1> QED BY <1>4, <1>5, <1>8, <1>9 DEF ConnectorInv

-----------------------------------------------------------------------------
(* Begin, TooLate, Callback and ExchangeFails move the flow and no more.    *)
LEMMA FlowKeeps ==
  ASSUME ConnectorInv, NEW i \in SignIns, C!Begin(i) \/ C!TooLate(i) \/ C!Callback(i) \/ C!ExchangeFails(i)
  PROVE  ConnectorInv'
<1>1. UNCHANGED <<provider, live, issued, expiries, row, call, allowed, sent, lost>>
  BY DEF C!Begin, C!TooLate, C!Callback, C!ExchangeFails
<1>2. signIn' \in [SignIns -> {"none", "begun", "late", "exchanging"}]
  BY DEF ConnectorInv, Kinds, C!Begin, C!TooLate, C!Callback, C!ExchangeFails
<1>3. Kinds'
  BY <1>1, <1>2 DEF ConnectorInv, Kinds
<1>4. Tokens' /\ Connected' /\ Asked'
  BY <1>1 DEF ConnectorInv, Tokens, Connected, Asked
<1> QED BY <1>3, <1>4 DEF ConnectorInv

LEMMA ExchangedKeeps == ASSUME ConnectorInv, NEW i \in SignIns, C!Exchanged(i) PROVE ConnectorInv'
<1> DEFINE n == issued + 1
           k == IF provider.offline THEN n ELSE 0
<1>1. /\ issued \in Nat /\ provider \in C!Providers /\ live \subseteq 1..issued
      /\ call \in [Calls -> Records(issued)]
      /\ signIn \in [SignIns -> {"none", "begun", "late", "exchanging"}]
  BY DEF ConnectorInv, Kinds
<1>2. /\ row' = C!Row(k) /\ live' = live \cup (IF provider.offline THEN {n} ELSE {}) /\ issued' = n
      /\ signIn' = [signIn EXCEPT ![i] = "none"]
      /\ UNCHANGED <<provider, expiries, call, allowed, sent, lost>>
  BY <1>1 DEF C!Exchanged
<1>3. /\ n \in Nat /\ k \in 0..n /\ 0..issued \subseteq 0..n /\ live' \subseteq 1..n /\ n \notin 0..issued
      /\ (provider.offline => k \in live')
  BY <1>1, <1>2
<1>4. row' \in [here : BOOLEAN, refresh : 0..n, expired : BOOLEAN] /\ row'.refresh = k
  BY <1>2, <1>3, RowIsRow
<1>5. Records(issued) \subseteq Records(n)
  BY <1>3 DEF Records
<1>6. \A c \in Calls : call[c].got \in 0..issued
  BY <1>1 DEF Records
<1>7. \A c \in Calls : call[c].got # 0 => call[c].got # row'.refresh
  BY <1>3, <1>4, <1>6
<1>8. live \subseteq live'
  BY <1>2
<1>9. Tokens'
  BY <1>2, <1>7, <1>8, TokensKept DEF ConnectorInv
<1> HIDE DEF n, k
<1>10. Connected'
  BY <1>2, <1>3, <1>4 DEF Connected
<1>11. Kinds'
  <2>1. signIn' \in [SignIns -> {"none", "begun", "late", "exchanging"}]
    BY <1>1, <1>2
  <2>2. call' \in [Calls -> Records(n)]
    BY <1>1, <1>2, <1>5
  <2> QED BY <1>2, <1>3, <1>4, <2>1, <2>2 DEF ConnectorInv, Kinds
<1>12. Asked'
  BY <1>2 DEF ConnectorInv, Asked
<1> QED BY <1>9, <1>10, <1>11, <1>12 DEF ConnectorInv

LEMMA RowKeeps == ASSUME ConnectorInv, C!Disconnect \/ C!Expire PROVE ConnectorInv'
<1>1. UNCHANGED <<provider, live, issued, signIn, call, allowed, sent, lost>> /\ expiries' \in Nat
  BY DEF C!Disconnect, C!Expire, ConnectorInv, Kinds
<1>2. issued \in Nat /\ row \in [here : BOOLEAN, refresh : 0..issued, expired : BOOLEAN]
  BY DEF ConnectorInv, Kinds
<1>3. /\ row' \in [here : BOOLEAN, refresh : 0..issued, expired : BOOLEAN]
      /\ row'.here => row'.refresh = row.refresh /\ row.here
      /\ row'.refresh \in {row.refresh, 0}
  <2>1. CASE C!Disconnect
    <3>1. 0 \in 0..issued
      BY <1>2
    <3> QED BY <2>1, <3>1 DEF C!Disconnect, C!NoRow
  <2>2. CASE C!Expire
    BY <1>2, <2>2 DEF C!Expire
  <2> QED BY <2>1, <2>2
<1>4. Kinds'
  BY <1>1, <1>3 DEF ConnectorInv, Kinds
<1>5. Tokens'
  <2>1. \A c \in Calls : call[c].got # 0 => call[c].got # row'.refresh
    BY <1>3 DEF ConnectorInv, Tokens
  <2> QED BY <1>1, <2>1, TokensKept DEF ConnectorInv
<1>6. Connected' /\ Asked'
  BY <1>1, <1>3 DEF ConnectorInv, Connected, Asked
<1> QED BY <1>4, <1>5, <1>6 DEF ConnectorInv

LEMMA ConnectorNextKeeps == ConnectorInv /\ [C!Next]_connectorVars => ConnectorInv'
<1> SUFFICES ASSUME ConnectorInv, [C!Next]_connectorVars PROVE ConnectorInv'
  OBVIOUS
<1>1. CASE \E i \in SignIns :
             C!Begin(i) \/ C!TooLate(i) \/ C!Callback(i) \/ C!Exchanged(i) \/ C!ExchangeFails(i)
  BY <1>1, FlowKeeps, ExchangedKeeps
<1>2. CASE C!Disconnect \/ C!Expire
  BY <1>2, RowKeeps
<1>3. ASSUME NEW c \in Calls,
             \/ \E script \in C!ToolsOf(provider) : C!UseToken(c, script)
             \/ C!ProviderAnswers(c) \/ C!RefreshArrives(c) \/ C!RefreshLost(c)
             \/ C!Request(c) \/ C!Confirm(c) \/ C!Post(c)
      PROVE  ConnectorInv'
  BY <1>3, UseTokenKeeps, ProviderAnswersKeeps, RefreshArrivesKeeps, RefreshLostKeeps,
     RequestKeeps, ConfirmKeeps, PostingKeeps
<1>4. CASE UNCHANGED connectorVars
  <2>1. Kinds'
    BY <1>4 DEF ConnectorInv, Kinds, connectorVars
  <2>2. Tokens' /\ Connected' /\ Asked'
    BY <1>4 DEF ConnectorInv, Tokens, Connected, Asked, connectorVars
  <2> QED BY <2>1, <2>2 DEF ConnectorInv
<1> QED BY <1>1, <1>2, <1>3, <1>4 DEF C!Next

LEMMA ConnectorInvHolds == C!Spec => []ConnectorInv
<1>1. ConnectorInv /\ [C!Next]_(C!vars) => ConnectorInv'
  BY ConnectorNextKeeps DEF C!vars, connectorVars
<1> QED BY ConnectorsBegin, <1>1, PTL DEF C!Spec

-----------------------------------------------------------------------------
(* The browser.                                                             *)
Places == {"idle", "asking", "launching", "moving", "reading", "capturing", "closing", "shown", "over"}
BrowserCalls(n, m) == [op : B!Ops, browser : 0..n, shot : 0..m, at : Places]

BrowserKinds ==
  /\ launched \in Nat /\ shots \in Nat /\ browser \in 0..launched /\ crowded \in BOOLEAN
  /\ open \subseteq 1..launched /\ spilled \subseteq 1..launched
  /\ shotFile \in [B!Shots -> Browsing \cup {"nobody"}]
  /\ browserCall \in [Browsing -> BrowserCalls(launched, shots)]

(* A screenshot has the number of one call, and there are as many as calls  *)
(* that have one.                                                           *)
Numbered == {c \in Browsing : browserCall[c].shot # 0}

ShotsNumbered ==
  /\ IsFiniteSet(Numbered) /\ shots = Cardinality(Numbered)
  /\ \A c, d \in Numbered : browserCall[c].shot = browserCall[d].shot => c = d
  /\ \A c \in Browsing :
       /\ browserCall[c].at \in {"capturing", "shown"} => c \in Numbered
       /\ browserCall[c].at \notin {"capturing", "shown", "over"} => c \notin Numbered
       /\ browserCall[c].at = "shown" => shotFile[browserCall[c].shot] = c

(* As long as no launch or close meets another: a launch finds no session,  *)
(* and a close has the session's browser.                                   *)
OneOpening ==
  ~crowded =>
    /\ open \subseteq {browser} \cup spilled
    /\ \A c, d \in B!Opening : c = d
    /\ \A c \in Browsing : browserCall[c].at = "launching" => browser = 0
    /\ \A c \in Browsing : browserCall[c].at = "closing" => browserCall[c].browser = browser

BrowserInv == BrowserKinds /\ ShotsNumbered /\ OneOpening

LEMMA BrowserBegins == B!Init => BrowserInv
<1> SUFFICES ASSUME B!Init PROVE BrowserInv
  OBVIOUS
<1>1. browserCall \in [Browsing -> [op : B!Ops, browser : {0}, shot : {0}, at : {"idle"}]]
  BY DEF B!Init
<1>2. BrowserKinds
  <2>1. browserCall \in [Browsing -> BrowserCalls(0, 0)]
    BY <1>1 DEF BrowserCalls, Places
  <2>2. shotFile \in [B!Shots -> Browsing \cup {"nobody"}]
    BY DEF B!Init
  <2>3. crowded \in BOOLEAN
    BY DEF B!Init
  <2>4. launched = 0 /\ shots = 0 /\ browser = 0 /\ open = {} /\ spilled = {}
    BY DEF B!Init
  <2>5. launched \in Nat /\ shots \in Nat /\ browser \in 0..launched
    BY <2>4
  <2> QED BY <2>1, <2>2, <2>3, <2>4, <2>5 DEF BrowserKinds
<1>3. ShotsNumbered
  <2>1. Numbered = {}
    BY <1>1 DEF Numbered
  <2>2. IsFiniteSet({}) /\ Cardinality({}) = 0
    BY FS_EmptySet
  <2> QED BY <1>1, <2>1, <2>2 DEF B!Init, ShotsNumbered
<1>4. OneOpening
  BY <1>1 DEF B!Init, OneOpening, B!Opening
<1> QED BY <1>2, <1>3, <1>4 DEF BrowserInv

(* A step of one call that numbers no screenshot and writes none.           *)
LEMMA ShotsKept ==
  ASSUME BrowserKinds, ShotsNumbered, NEW c \in Browsing, NEW r,
         browserCall' = [browserCall EXCEPT ![c] = r], UNCHANGED <<shots, shotFile>>,
         r.shot = browserCall[c].shot, r.at # "shown",
         r.at = "capturing" => browserCall[c].at = "capturing",
         r.at # "over" => browserCall[c].at \notin {"shown", "over"},
         browserCall[c].at = "capturing" => r.at \in {"capturing", "over"}
  PROVE  ShotsNumbered'
<1>1. browserCall'[c] = r /\ \A d \in Browsing \ {c} : browserCall'[d] = browserCall[d]
  BY DEF BrowserKinds
<1>2. \A d \in Browsing : browserCall'[d].shot = browserCall[d].shot
  BY <1>1
<1>3. Numbered' = Numbered
  BY <1>2 DEF Numbered
<1>4. ASSUME NEW d \in Browsing
      PROVE  /\ browserCall'[d].at \in {"capturing", "shown"} => d \in Numbered
             /\ browserCall'[d].at \notin {"capturing", "shown", "over"} => d \notin Numbered
             /\ browserCall'[d].at = "shown" => shotFile[browserCall'[d].shot] = d
  <2>1. CASE d = c
    BY <1>1, <2>1 DEF ShotsNumbered
  <2>2. CASE d # c
    BY <1>1, <2>2 DEF ShotsNumbered
  <2> QED BY <2>1, <2>2
<1>5. \A d, e \in Numbered : browserCall'[d].shot = browserCall'[e].shot => d = e
  BY <1>2 DEF ShotsNumbered, Numbered
<1> QED BY <1>3, <1>4, <1>5 DEF ShotsNumbered

(* One after which the call neither launches nor closes, and the session,   *)
(* with the browsers that run, is what it was.                              *)
LEMMA OpeningKept ==
  ASSUME BrowserKinds, OneOpening, NEW c \in Browsing, NEW r,
         browserCall' = [browserCall EXCEPT ![c] = r], UNCHANGED <<browser, crowded>>,
         open' \subseteq open \cup spilled', spilled \subseteq spilled',
         r.at \notin {"launching", "closing"}
  PROVE  OneOpening'
<1>1. browserCall'[c] = r /\ \A d \in Browsing \ {c} : browserCall'[d] = browserCall[d]
  BY DEF BrowserKinds
<1>2. B!Opening' \subseteq B!Opening
  BY <1>1 DEF B!Opening
<1>3. \A d \in Browsing :
        browserCall'[d].at \in {"launching", "closing"} => d # c /\ browserCall'[d] = browserCall[d]
  BY <1>1
<1> QED BY <1>2, <1>3 DEF OneOpening

LEMMA BrowserKindsKept ==
  ASSUME BrowserKinds, NEW c \in Browsing, NEW r,
         browserCall' = [browserCall EXCEPT ![c] = r], UNCHANGED <<launched, shots, shotFile>>,
         r \in BrowserCalls(launched, shots), browser' \in 0..launched, crowded' \in BOOLEAN,
         open' \subseteq open, spilled' = spilled
  PROVE  BrowserKinds'
<1>1. browserCall' \in [Browsing -> BrowserCalls(launched, shots)]
  BY DEF BrowserKinds
<1> QED BY <1>1 DEF BrowserKinds, B!Shots

(* A call with some fields changed.                                         *)
LEMMA MovedAt ==
  ASSUME NEW n, NEW m, NEW k \in BrowserCalls(n, m), NEW at \in Places
  PROVE  LET r == [k EXCEPT !.at = at]
         IN  r \in BrowserCalls(n, m) /\ r.at = at /\ r.browser = k.browser /\ r.shot = k.shot
BY DEF BrowserCalls

(* A call that is elsewhere, with its browser or another.                   *)
LEMMA MovesAt ==
  ASSUME BrowserKinds, NEW c \in Browsing, NEW at \in Places,
         browserCall' = [browserCall EXCEPT ![c].at = at]
  PROVE  \E r \in BrowserCalls(launched, shots) :
           /\ browserCall' = [browserCall EXCEPT ![c] = r]
           /\ r.at = at /\ r.browser = browserCall[c].browser /\ r.shot = browserCall[c].shot
<1>1. /\ browserCall \in [Browsing -> BrowserCalls(launched, shots)]
      /\ browserCall[c] \in BrowserCalls(launched, shots)
  BY DEF BrowserKinds
<1> DEFINE r == [browserCall[c] EXCEPT !.at = at]
<1>2. /\ r \in BrowserCalls(launched, shots)
      /\ r.at = at /\ r.browser = browserCall[c].browser /\ r.shot = browserCall[c].shot
  BY <1>1, MovedAt
<1>3. browserCall' = [browserCall EXCEPT ![c] = r]
  OBVIOUS
<1> HIDE DEF r
<1> QED BY <1>2, <1>3

LEMMA MovesWith ==
  ASSUME BrowserKinds, NEW c \in Browsing, NEW at \in Places, NEW b \in 0..launched,
         browserCall' = [browserCall EXCEPT ![c].at = at, ![c].browser = b]
  PROVE  \E r \in BrowserCalls(launched, shots) :
           /\ browserCall' = [browserCall EXCEPT ![c] = r]
           /\ r.at = at /\ r.browser = b /\ r.shot = browserCall[c].shot
<1>1. /\ browserCall \in [Browsing -> BrowserCalls(launched, shots)]
      /\ browserCall[c] \in BrowserCalls(launched, shots)
  BY DEF BrowserKinds
<1> DEFINE r == [browserCall[c] EXCEPT !.at = at, !.browser = b]
<1>2. r \in BrowserCalls(launched, shots) /\ r.at = at /\ r.browser = b /\ r.shot = browserCall[c].shot
  BY <1>1 DEF BrowserCalls
<1>3. browserCall' = [browserCall EXCEPT ![c] = r]
  BY <1>1
<1> HIDE DEF r
<1> QED BY <1>2, <1>3

(* A call that goes on, where nothing is launched, closed or captured.      *)
LEMMA GoesOn ==
  ASSUME BrowserInv, NEW c \in Browsing, NEW at \in Places, NEW b \in 0..launched,
         \/ browserCall' = [browserCall EXCEPT ![c].at = at] /\ b = browserCall[c].browser
         \/ browserCall' = [browserCall EXCEPT ![c].at = at, ![c].browser = b],
         UNCHANGED <<browser, launched, open, shots, shotFile, crowded, spilled>>,
         at \in {"asking", "moving", "reading", "over"},
         at # "over" => browserCall[c].at \notin {"capturing", "shown", "over"}
  PROVE  BrowserInv'
<1>1. PICK r \in BrowserCalls(launched, shots) :
        /\ browserCall' = [browserCall EXCEPT ![c] = r]
        /\ r.at = at /\ r.browser = b /\ r.shot = browserCall[c].shot
  BY MovesAt, MovesWith DEF BrowserInv
<1>2. browser' \in 0..launched /\ crowded' \in BOOLEAN
  BY DEF BrowserInv, BrowserKinds
<1>3. BrowserKinds'
  BY <1>1, <1>2, BrowserKindsKept DEF BrowserInv
<1>4. ShotsNumbered'
  BY <1>1, ShotsKept DEF BrowserInv
<1>5. OneOpening'
  BY <1>1, OpeningKept DEF BrowserInv
<1> QED BY <1>3, <1>4, <1>5 DEF BrowserInv

LEMMA AskingKeeps ==
  ASSUME BrowserInv, NEW c \in Browsing, B!Start(c) \/ B!Denied(c) \/ B!Act(c) \/ B!Throws(c)
  PROVE  BrowserInv'
<1>1. /\ UNCHANGED <<browser, launched, open, shots, shotFile, crowded, spilled>>
      /\ browser \in 0..launched /\ browserCall[c].browser \in 0..launched
      /\ {"asking", "moving", "over"} \subseteq Places
  BY DEF B!Start, B!Denied, B!Act, B!Throws, BrowserInv, BrowserKinds, BrowserCalls, Places
<1>2. CASE B!Goes(c, "over")
  BY <1>1, <1>2, GoesOn DEF B!Goes
<1>3. CASE B!Goes(c, "asking") /\ browserCall[c].at = "idle"
  BY <1>1, <1>3, GoesOn DEF B!Goes
<1>4. CASE /\ browserCall' = [browserCall EXCEPT ![c].at = "moving", ![c].browser = browser]
           /\ browserCall[c].at = "asking"
  BY <1>1, <1>4, GoesOn
<1> QED BY <1>2, <1>3, <1>4 DEF B!Start, B!Denied, B!Act, B!Throws

(* A launch or a close that begins is alone, or crowded from here on.       *)
LEMMA OpensAlone ==
  ASSUME BrowserKinds, OneOpening, NEW c \in Browsing, NEW r,
         browserCall' = [browserCall EXCEPT ![c] = r], UNCHANGED <<browser, open, spilled>>,
         crowded' = (crowded \/ B!Opening # {}),
         r.at = "launching" => browser = 0,
         r.at = "closing" => r.browser = browser
  PROVE  OneOpening'
<1>1. browserCall'[c] = r /\ \A d \in Browsing \ {c} : browserCall'[d] = browserCall[d]
  BY DEF BrowserKinds
<1>2. SUFFICES ASSUME ~crowded' PROVE OneOpening'
  BY DEF OneOpening
<1>3. ~crowded /\ B!Opening = {}
  BY <1>2
<1>4. \A d \in Browsing : browserCall[d].at \notin {"launching", "closing"}
  BY <1>3 DEF B!Opening
<1>5. \A d \in Browsing : browserCall'[d].at \in {"launching", "closing"} => d = c
  BY <1>1, <1>4
<1>6. \A d, e \in B!Opening' : d = e
  BY <1>5 DEF B!Opening
<1> QED BY <1>1, <1>3, <1>5, <1>6 DEF OneOpening

LEMMA OpensKeeps ==
  ASSUME BrowserInv, NEW c \in Browsing, NEW at \in {"launching", "closing"}, NEW b \in 0..launched,
         \/ browserCall' = [browserCall EXCEPT ![c].at = at] /\ b = browserCall[c].browser
         \/ browserCall' = [browserCall EXCEPT ![c].at = at, ![c].browser = b],
         UNCHANGED <<browser, launched, open, shots, shotFile, spilled>>,
         crowded' = (crowded \/ B!Opening # {}),
         browserCall[c].at \in {"idle", "asking"},
         at = "launching" => browser = 0,
         at = "closing" => b = browser
  PROVE  BrowserInv'
<1>1. at \in Places
  BY DEF Places
<1>2. PICK r \in BrowserCalls(launched, shots) :
        /\ browserCall' = [browserCall EXCEPT ![c] = r]
        /\ r.at = at /\ r.browser = b /\ r.shot = browserCall[c].shot
  BY <1>1, MovesAt, MovesWith DEF BrowserInv
<1>3. browser' \in 0..launched /\ crowded' \in BOOLEAN
  BY DEF BrowserInv, BrowserKinds
<1>4. BrowserKinds'
  BY <1>2, <1>3, BrowserKindsKept DEF BrowserInv
<1>5. ShotsNumbered'
  BY <1>2, ShotsKept DEF BrowserInv
<1>6. OneOpening'
  BY <1>2, OpensAlone DEF BrowserInv
<1> QED BY <1>4, <1>5, <1>6 DEF BrowserInv

LEMMA EnsureKeeps == ASSUME BrowserInv, NEW c \in Browsing, B!Ensure(c) PROVE BrowserInv'
<1>1. /\ UNCHANGED <<browser, launched, open, shots, shotFile, spilled>>
      /\ browser \in 0..launched /\ browserCall[c].browser \in 0..launched
      /\ browserCall[c].at = "asking" /\ "moving" \in Places
  BY DEF B!Ensure, BrowserInv, BrowserKinds, BrowserCalls, Places
<1>2. CASE browserCall' = [browserCall EXCEPT ![c].at = "moving", ![c].browser = browser] /\ UNCHANGED crowded
  BY <1>1, <1>2, GoesOn
<1>3. CASE browser = 0 /\ B!Goes(c, "launching") /\ crowded' = (crowded \/ B!Opening # {})
  BY <1>1, <1>3, OpensKeeps DEF B!Goes
<1> QED BY <1>2, <1>3 DEF B!Ensure

LEMMA CloseStartsKeeps == ASSUME BrowserInv, NEW c \in Browsing, B!CloseStarts(c) PROVE BrowserInv'
<1>1. /\ UNCHANGED <<browser, launched, open, shots, shotFile, spilled>>
      /\ browser \in 0..launched /\ browserCall[c].browser \in 0..launched
      /\ browserCall[c].at = "idle" /\ "over" \in Places
  BY DEF B!CloseStarts, BrowserInv, BrowserKinds, BrowserCalls, Places
<1>2. CASE B!Goes(c, "over") /\ UNCHANGED crowded
  BY <1>1, <1>2, GoesOn DEF B!Goes
<1>3. CASE /\ browserCall' = [browserCall EXCEPT ![c].at = "closing", ![c].browser = browser]
           /\ crowded' = (crowded \/ B!Opening # {})
  BY <1>1, <1>3, OpensKeeps
<1> QED BY <1>2, <1>3 DEF B!CloseStarts

LEMMA MoreCalls ==
  ASSUME NEW n \in Nat, NEW m \in Nat, NEW k \in Nat, NEW l \in Nat, n <= k, m <= l
  PROVE  BrowserCalls(n, m) \subseteq BrowserCalls(k, l)
<1>1. 0..n \subseteq 0..k /\ 0..m \subseteq 0..l
  OBVIOUS
<1> QED BY <1>1 DEF BrowserCalls

LEMMA LaunchedKeeps == ASSUME BrowserInv, NEW c \in Browsing, B!Launched(c) PROVE BrowserInv'
<1> DEFINE b == launched + 1
<1>1. /\ browserCall \in [Browsing -> BrowserCalls(launched, shots)] /\ launched \in Nat /\ shots \in Nat
      /\ b \in Nat /\ launched <= b /\ b \in 0..b /\ 0..launched \subseteq 0..b /\ 1..launched \subseteq 1..b
      /\ b \in 1..b /\ b # 0
  BY DEF BrowserInv, BrowserKinds
<1>2. /\ launched' = b /\ open' = open \cup {b} /\ browser' = b /\ browserCall[c].at = "launching"
      /\ browserCall' = [browserCall EXCEPT ![c].at = "moving", ![c].browser = b]
      /\ UNCHANGED <<shots, shotFile, crowded, spilled>>
  BY DEF B!Launched
<1> HIDE DEF b
<1>3. BrowserCalls(launched, shots) \subseteq BrowserCalls(b, shots)
  BY <1>1, MoreCalls
<1> DEFINE r == [browserCall[c] EXCEPT !.at = "moving", !.browser = b]
<1>4. r \in BrowserCalls(b, shots) /\ r.at = "moving" /\ r.shot = browserCall[c].shot
  <2>1. browserCall[c] \in BrowserCalls(b, shots) /\ b \in 0..b /\ "moving" \in Places
    BY <1>1, <1>3 DEF Places
  <2> QED BY <2>1 DEF BrowserCalls
<1>5. browserCall' = [browserCall EXCEPT ![c] = r]
  BY <1>1, <1>2
<1> HIDE DEF r
<1>6. BrowserKinds'
  <2>1. browserCall' \in [Browsing -> BrowserCalls(b, shots)]
    BY <1>1, <1>3, <1>4, <1>5
  <2>2. open' \subseteq 1..b /\ spilled' \subseteq 1..b
    BY <1>1, <1>2 DEF BrowserInv, BrowserKinds
  <2>3. crowded' \in BOOLEAN /\ shotFile' \in [B!Shots' -> Browsing \cup {"nobody"}]
    BY <1>2 DEF BrowserInv, BrowserKinds, B!Shots
  <2>4. launched' = b /\ browser' = b /\ shots' = shots
    BY <1>2
  <2> QED BY <1>1, <2>1, <2>2, <2>3, <2>4 DEF BrowserKinds
<1>7. ShotsNumbered'
  BY <1>2, <1>4, <1>5, ShotsKept DEF BrowserInv
<1>8. OneOpening'
  <2>1. browserCall'[c] = r /\ \A d \in Browsing \ {c} : browserCall'[d] = browserCall[d]
    BY <1>1, <1>5
  <2>2. SUFFICES ASSUME ~crowded' PROVE OneOpening'
    BY DEF OneOpening
  <2>3. ~crowded
    BY <1>2, <2>2
  <2>4. open \subseteq spilled
    BY <1>2, <2>3 DEF BrowserInv, OneOpening, BrowserKinds
  <2>5. \A d \in Browsing : browserCall[d].at \in {"launching", "closing"} => d = c
    BY <1>2, <2>3 DEF BrowserInv, OneOpening, B!Opening
  <2>6. \A d \in Browsing : browserCall'[d].at \notin {"launching", "closing"}
    BY <1>4, <2>1, <2>5
  <2> QED BY <1>2, <2>4, <2>6 DEF OneOpening, B!Opening
<1> QED BY <1>6, <1>7, <1>8 DEF BrowserInv

LEMMA LaunchFailsKeeps == ASSUME BrowserInv, NEW c \in Browsing, B!LaunchFails(c) PROVE BrowserInv'
<1> DEFINE b == launched + 1
<1>1. /\ browserCall \in [Browsing -> BrowserCalls(launched, shots)] /\ launched \in Nat /\ shots \in Nat
      /\ b \in Nat /\ launched <= b /\ 0..launched \subseteq 0..b /\ 1..launched \subseteq 1..b /\ b \in 1..b
      /\ "over" \in Places /\ BrowserKinds
  BY DEF BrowserInv, BrowserKinds, Places
<1>2. browserCall' = [browserCall EXCEPT ![c].at = "over"] /\ UNCHANGED <<browser, shots, shotFile, crowded>>
  BY DEF B!LaunchFails, B!Goes
<1>3. CASE UNCHANGED <<launched, open, spilled>>
  BY <1>1, <1>2, <1>3, GoesOn DEF BrowserInv, BrowserKinds, BrowserCalls
<1>4. CASE launched' = b /\ open' = open \cup {b} /\ spilled' = spilled \cup {b}
  <2> DEFINE r == [browserCall[c] EXCEPT !.at = "over"]
  <2>1. r \in BrowserCalls(launched, shots) /\ r.at = "over" /\ r.shot = browserCall[c].shot
    BY <1>1 DEF BrowserCalls
  <2>2. browserCall' = [browserCall EXCEPT ![c] = r]
    BY <1>1, <1>2
  <2> HIDE DEF b, r
  <2>3. BrowserCalls(launched, shots) \subseteq BrowserCalls(b, shots)
    BY <1>1, MoreCalls
  <2>4. BrowserKinds'
    <3>1. browserCall' \in [Browsing -> BrowserCalls(b, shots)]
      BY <1>1, <2>1, <2>2, <2>3
    <3>2. open' \subseteq 1..b /\ spilled' \subseteq 1..b /\ browser' \in 0..b
      BY <1>1, <1>2, <1>4 DEF BrowserKinds
    <3>3. crowded' \in BOOLEAN /\ shotFile' \in [B!Shots' -> Browsing \cup {"nobody"}]
      BY <1>2 DEF BrowserInv, BrowserKinds, B!Shots
    <3>4. launched' = b /\ shots' = shots
      BY <1>2, <1>4
    <3> QED BY <1>1, <3>1, <3>2, <3>3, <3>4 DEF BrowserKinds
  <2>5. ShotsNumbered'
    BY <1>1, <1>2, <2>1, <2>2, ShotsKept DEF BrowserInv
  <2>6. OneOpening'
    <3>1. browserCall'[c] = r /\ \A d \in Browsing \ {c} : browserCall'[d] = browserCall[d]
      BY <1>1, <2>2
    <3>2. B!Opening' \subseteq B!Opening
      BY <2>1, <3>1 DEF B!Opening
    <3>3. \A d \in Browsing :
            browserCall'[d].at \in {"launching", "closing"} => browserCall'[d] = browserCall[d]
      BY <2>1, <3>1
    <3> QED BY <1>2, <1>4, <3>2, <3>3 DEF BrowserInv, OneOpening
  <2> QED BY <2>4, <2>5, <2>6 DEF BrowserInv
<1> QED BY <1>3, <1>4 DEF B!LaunchFails

LEMMA ClosedKeeps == ASSUME BrowserInv, NEW c \in Browsing, B!Closed(c) PROVE BrowserInv'
<1>1. /\ browserCall \in [Browsing -> BrowserCalls(launched, shots)] /\ launched \in Nat /\ "over" \in Places
      /\ BrowserKinds /\ crowded \in BOOLEAN
  BY DEF BrowserInv, BrowserKinds, Places
<1>2. /\ browserCall' = [browserCall EXCEPT ![c].at = "over"] /\ browserCall[c].at = "closing"
      /\ open' = open \ {browserCall[c].browser} /\ browser' = 0
      /\ UNCHANGED <<launched, shots, shotFile, crowded, spilled>>
  BY DEF B!Closed, B!Goes
<1>3. PICK r \in BrowserCalls(launched, shots) :
        browserCall' = [browserCall EXCEPT ![c] = r] /\ r.at = "over" /\ r.shot = browserCall[c].shot
  <2> DEFINE r == [browserCall[c] EXCEPT !.at = "over"]
  <2>1. r \in BrowserCalls(launched, shots) /\ r.at = "over" /\ r.shot = browserCall[c].shot
    BY <1>1 DEF BrowserCalls
  <2>2. browserCall' = [browserCall EXCEPT ![c] = r]
    BY <1>1, <1>2
  <2> HIDE DEF r
  <2> QED BY <2>1, <2>2
<1>4. BrowserKinds'
  <2>1. browser' \in 0..launched /\ crowded' \in BOOLEAN /\ open' \subseteq open
    BY <1>1, <1>2
  <2> QED BY <1>1, <1>2, <1>3, <2>1, BrowserKindsKept
<1>5. ShotsNumbered'
  BY <1>1, <1>2, <1>3, ShotsKept DEF BrowserInv
<1>6. OneOpening'
  <2>1. browserCall'[c] = r /\ \A d \in Browsing \ {c} : browserCall'[d] = browserCall[d]
    BY <1>1, <1>3
  <2>2. SUFFICES ASSUME ~crowded' PROVE OneOpening'
    BY DEF OneOpening
  <2>3. ~crowded
    BY <1>2, <2>2
  <2>4. open' \subseteq spilled
    BY <1>2, <2>3 DEF BrowserInv, OneOpening
  <2>5. \A d \in Browsing : browserCall[d].at \in {"launching", "closing"} => d = c
    BY <1>2, <2>3 DEF BrowserInv, OneOpening, B!Opening
  <2>6. \A d \in Browsing : browserCall'[d].at \notin {"launching", "closing"}
    BY <1>3, <2>1, <2>5
  <2> QED BY <1>2, <2>4, <2>6 DEF OneOpening, B!Opening
<1> QED BY <1>4, <1>5, <1>6 DEF BrowserInv

LEMMA ShotsAreNumbers == B!Shots = 1..Cardinality(Browsing)
<1>1. B!Cardinality(Browsing) = Cardinality(Browsing)
  BY DEF B!Cardinality, Cardinality
<1> QED BY <1>1 DEF B!Shots

(* The number a call is given is one of as many as there are calls.         *)
LEMMA EnoughShots ==
  ASSUME BrowserKinds, ShotsNumbered
  PROVE  shots <= Cardinality(Browsing) /\ Cardinality(Browsing) \in Nat
<1>1. Numbered \subseteq Browsing
  BY DEF Numbered
<1>2. Cardinality(Numbered) <= Cardinality(Browsing)
  BY <1>1, FS_Subset, BrowsingAssumption
<1>3. Cardinality(Browsing) \in Nat
  BY FS_CardinalityType, BrowsingAssumption
<1> QED BY <1>2, <1>3 DEF ShotsNumbered

LEMMA MovedKeeps == ASSUME BrowserInv, NEW c \in Browsing, B!Moved(c) PROVE BrowserInv'
<1> DEFINE b == B!Active(c)
           m == shots + 1
<1>1. /\ browserCall \in [Browsing -> BrowserCalls(launched, shots)] /\ launched \in Nat /\ shots \in Nat
      /\ browserCall[c] \in BrowserCalls(launched, shots)
      /\ BrowserKinds /\ m \in Nat /\ shots <= m /\ m \in 0..m /\ m # 0 /\ m \notin 0..shots
  BY DEF BrowserInv, BrowserKinds
<1>2. b \in 0..launched
  BY <1>1 DEF B!Active, BrowserKinds, BrowserCalls
<1>3. UNCHANGED <<browser, launched, open, shotFile, crowded, spilled>>
  BY DEF B!Moved
<1> HIDE DEF b, m
<1>4. CASE /\ browserCall[c].at = "moving" /\ shots' = shots
           /\ browserCall' = [browserCall EXCEPT ![c].at = "reading", ![c].browser = b]
  <2>1. "reading" \in Places
    BY DEF Places
  <2> QED BY <1>2, <1>3, <1>4, <2>1, GoesOn
<1>5. CASE /\ browserCall[c].at = "reading" /\ shots' = m
           /\ browserCall' = [browserCall EXCEPT ![c].at = "capturing", ![c].browser = b, ![c].shot = m]
  <2> DEFINE r == [browserCall[c] EXCEPT !.at = "capturing", !.browser = b, !.shot = m]
  <2>1. BrowserCalls(launched, shots) \subseteq BrowserCalls(launched, m)
    BY <1>1, MoreCalls
  <2>2. r \in BrowserCalls(launched, m) /\ r.at = "capturing" /\ r.shot = m
    <3>1. browserCall[c] \in BrowserCalls(launched, m) /\ "capturing" \in Places
      BY <1>1, <2>1 DEF Places
    <3> QED BY <1>1, <1>2, <3>1 DEF BrowserCalls
  <2>3. browserCall' = [browserCall EXCEPT ![c] = r]
    BY <1>1, <1>5
  <2> HIDE DEF r
  <2>4. browserCall'[c] = r /\ \A d \in Browsing \ {c} : browserCall'[d] = browserCall[d]
    BY <1>1, <2>3
  <2>5. BrowserKinds'
    <3>1. browserCall' \in [Browsing -> BrowserCalls(launched, m)]
      BY <1>1, <2>1, <2>2, <2>3
    <3>2. shotFile' \in [B!Shots' -> Browsing \cup {"nobody"}]
      BY <1>1, <1>3 DEF BrowserKinds, B!Shots
    <3> QED BY <1>1, <1>3, <1>5, <3>1, <3>2 DEF BrowserKinds
  <2>6. c \notin Numbered /\ Numbered' = Numbered \cup {c}
    <3>1. c \notin Numbered
      BY <1>5 DEF BrowserInv, ShotsNumbered
    <3>2. \A d \in Browsing : browserCall'[d].shot # 0 <=> d = c \/ browserCall[d].shot # 0
      BY <1>1, <2>2, <2>4
    <3> QED BY <3>1, <3>2 DEF Numbered
  <2>7. IsFiniteSet(Numbered') /\ Cardinality(Numbered') = m
    <3>1. IsFiniteSet(Numbered) /\ Cardinality(Numbered) = shots
      BY DEF BrowserInv, ShotsNumbered
    <3>2. IsFiniteSet(Numbered \cup {c}) /\ Cardinality(Numbered \cup {c}) = Cardinality(Numbered) + 1
      BY <2>6, <3>1, FS_AddElement
    <3> QED BY <2>6, <3>1, <3>2 DEF m
  <2>8. \A d \in Numbered : d # c /\ browserCall'[d] = browserCall[d] /\ browserCall[d].shot # m
    <3>1. \A d \in Browsing : browserCall[d].shot \in 0..shots
      BY <1>1 DEF BrowserCalls
    <3>2. Numbered \subseteq Browsing
      BY DEF Numbered
    <3> QED BY <1>1, <2>4, <2>6, <3>1, <3>2
  <2>9. \A d, e \in Numbered' : browserCall'[d].shot = browserCall'[e].shot => d = e
    <3> TAKE d, e \in Numbered'
    <3>1. d \in Numbered \cup {c} /\ e \in Numbered \cup {c}
      BY <2>6
    <3> QED BY <2>2, <2>4, <2>8, <3>1 DEF BrowserInv, ShotsNumbered
  <2>10. \A d \in Browsing :
           /\ browserCall'[d].at \in {"capturing", "shown"} => d \in Numbered'
           /\ browserCall'[d].at \notin {"capturing", "shown", "over"} => d \notin Numbered'
           /\ browserCall'[d].at = "shown" => shotFile'[browserCall'[d].shot] = d
    <3> TAKE d \in Browsing
    <3>1. CASE d = c
      BY <2>2, <2>4, <2>6, <3>1
    <3>2. CASE d # c
      BY <1>3, <2>4, <2>6, <3>2 DEF BrowserInv, ShotsNumbered
    <3> QED BY <3>1, <3>2
  <2>11. ShotsNumbered'
    BY <1>5, <2>7, <2>9, <2>10 DEF ShotsNumbered
  <2>12. OneOpening'
    BY <1>1, <1>3, <2>2, <2>3, OpeningKept DEF BrowserInv
  <2> QED BY <2>5, <2>11, <2>12 DEF BrowserInv
<1> QED BY <1>4, <1>5 DEF B!Moved, b, m

LEMMA CapturedKeeps == ASSUME BrowserInv, NEW c \in Browsing, B!Captured(c) PROVE BrowserInv'
<1> DEFINE n == browserCall[c].shot
<1>1. /\ browserCall \in [Browsing -> BrowserCalls(launched, shots)] /\ BrowserKinds /\ ShotsNumbered
      /\ browserCall[c] \in BrowserCalls(launched, shots) /\ shots \in Nat /\ "shown" \in Places
  BY DEF BrowserInv, BrowserKinds, Places
<1>2. /\ browserCall[c].at = "capturing" /\ shotFile' = [shotFile EXCEPT ![n] = c]
      /\ browserCall' = [browserCall EXCEPT ![c].at = "shown"]
      /\ UNCHANGED <<browser, launched, open, shots, crowded, spilled>>
  BY DEF B!Captured, B!Goes
<1>3. c \in Numbered
  BY <1>1, <1>2 DEF ShotsNumbered
<1>4. n \in B!Shots
  <2>1. n \in 0..shots /\ n # 0
    BY <1>1, <1>3 DEF BrowserCalls, Numbered
  <2>2. shots <= Cardinality(Browsing) /\ Cardinality(Browsing) \in Nat
    BY <1>1, EnoughShots
  <2> HIDE DEF n
  <2> QED BY <1>1, <2>1, <2>2, ShotsAreNumbers
<1>5. /\ shotFile' \in [B!Shots -> Browsing \cup {"nobody"}] /\ shotFile'[n] = c
      /\ \A k \in B!Shots \ {n} : shotFile'[k] = shotFile[k]
  BY <1>1, <1>2, <1>4 DEF BrowserKinds
<1> DEFINE r == [browserCall[c] EXCEPT !.at = "shown"]
<1>6. r \in BrowserCalls(launched, shots) /\ r.at = "shown" /\ r.shot = n
  BY <1>1, MovedAt
<1>7. browserCall' = [browserCall EXCEPT ![c] = r]
  BY <1>2
<1> HIDE DEF n, r
<1>8. browserCall'[c] = r /\ \A d \in Browsing \ {c} : browserCall'[d] = browserCall[d]
  BY <1>1, <1>7
<1>9. BrowserKinds'
  <2>1. browserCall' \in [Browsing -> BrowserCalls(launched, shots)]
    BY <1>1, <1>6, <1>7
  <2> QED BY <1>1, <1>2, <1>5, <2>1 DEF BrowserKinds, B!Shots
<1>10. \A d \in Browsing : browserCall'[d].shot = browserCall[d].shot
  BY <1>6, <1>8 DEF n
<1>11. Numbered' = Numbered
  BY <1>10 DEF Numbered
<1>12. \A d \in Browsing :
         /\ browserCall'[d].at \in {"capturing", "shown"} => d \in Numbered
         /\ browserCall'[d].at \notin {"capturing", "shown", "over"} => d \notin Numbered
         /\ browserCall'[d].at = "shown" => shotFile'[browserCall'[d].shot] = d
  <2> TAKE d \in Browsing
  <2>1. CASE d = c
    BY <1>3, <1>5, <1>6, <1>8, <2>1
  <2>2. CASE d # c
    <3>1. browserCall'[d] = browserCall[d]
      BY <1>8, <2>2
    <3>2. ASSUME browserCall[d].at = "shown" PROVE shotFile'[browserCall[d].shot] = d
      <4>1. d \in Numbered /\ browserCall[d].shot # n /\ shotFile[browserCall[d].shot] = d
        BY <1>1, <1>3, <2>2, <3>2 DEF ShotsNumbered, n
      <4>2. browserCall[d].shot \in B!Shots
        <5>1. browserCall[d].shot \in 0..shots /\ browserCall[d].shot # 0
          BY <1>1, <4>1 DEF BrowserCalls, Numbered
        <5>2. shots <= Cardinality(Browsing) /\ Cardinality(Browsing) \in Nat
          BY <1>1, EnoughShots
        <5> QED BY <1>1, <5>1, <5>2, ShotsAreNumbers
      <4> QED BY <1>5, <4>1, <4>2
    <3> QED BY <1>1, <3>1, <3>2 DEF ShotsNumbered
  <2> QED BY <2>1, <2>2
<1>13. ShotsNumbered'
  <2>1. \A d, e \in Numbered : browserCall'[d].shot = browserCall'[e].shot => d = e
    BY <1>1, <1>10 DEF ShotsNumbered, Numbered
  <2> QED BY <1>1, <1>2, <1>11, <1>12, <2>1 DEF ShotsNumbered
<1>14. OneOpening'
  BY <1>1, <1>2, <1>6, <1>7, OpeningKept DEF BrowserInv
<1> QED BY <1>9, <1>13, <1>14 DEF BrowserInv

LEMMA BrowserNextKeeps == BrowserInv /\ [B!Next]_browserVars => BrowserInv'
<1> SUFFICES ASSUME BrowserInv, [B!Next]_browserVars PROVE BrowserInv'
  OBVIOUS
<1>1. ASSUME NEW c \in Browsing,
             \/ B!Start(c) \/ B!Denied(c) \/ B!Ensure(c) \/ B!Launched(c) \/ B!LaunchFails(c) \/ B!Act(c)
             \/ B!Moved(c) \/ B!Captured(c) \/ B!Throws(c) \/ B!CloseStarts(c) \/ B!Closed(c)
      PROVE  BrowserInv'
  BY <1>1, AskingKeeps, EnsureKeeps, LaunchedKeeps, LaunchFailsKeeps, MovedKeeps, CapturedKeeps,
     CloseStartsKeeps, ClosedKeeps
<1>2. CASE UNCHANGED browserVars
  <2>1. BrowserKinds'
    BY <1>2 DEF BrowserInv, BrowserKinds, browserVars, B!Shots
  <2>2. ShotsNumbered' /\ OneOpening'
    BY <1>2 DEF BrowserInv, ShotsNumbered, OneOpening, browserVars, Numbered, B!Opening
  <2> QED BY <2>1, <2>2 DEF BrowserInv
<1> QED BY <1>1, <1>2 DEF B!Next

LEMMA BrowserInvHolds == B!Spec => []BrowserInv
<1>1. BrowserInv /\ [B!Next]_(B!vars) => BrowserInv'
  BY BrowserNextKeeps DEF B!vars, browserVars
<1> QED BY BrowserBegins, <1>1, PTL DEF B!Spec

-----------------------------------------------------------------------------
(* The three together.                                                      *)
LEMMA EachBegins == ExternalInit => Init /\ C!Init /\ B!Init
BY DEF ExternalInit, Begins

LEMMA EachSteps ==
  [McpSteps \/ ConnectorSteps \/ BrowserSteps]_<<inUse, vars, connectorVars, browserVars>> =>
    [Next]_vars /\ [C!Next]_(C!vars) /\ [B!Next]_(B!vars)
<1>1. C!vars = connectorVars /\ B!vars = browserVars
  BY DEF C!vars, connectorVars, B!vars, browserVars
<1>2. McpSteps => Next /\ UNCHANGED C!vars /\ UNCHANGED B!vars
  BY DEF McpSteps, C!vars, connectorVars, B!vars, browserVars
<1>3. ConnectorSteps => C!Next /\ UNCHANGED vars /\ UNCHANGED B!vars
  BY DEF ConnectorSteps, B!vars, browserVars
<1>4. BrowserSteps => B!Next /\ UNCHANGED vars /\ UNCHANGED C!vars
  BY DEF BrowserSteps, C!vars, connectorVars
<1>5. UNCHANGED <<inUse, vars, connectorVars, browserVars>> =>
        UNCHANGED vars /\ UNCHANGED C!vars /\ UNCHANGED B!vars
  BY DEF C!vars, connectorVars, B!vars, browserVars
<1> QED BY <1>2, <1>3, <1>4, <1>5

(* manager.ts, build: a session's external tools share no state, so a       *)
(* behaviour of the three is a behaviour of each of them.                   *)
THEOREM ToolsKeepTheirOwn == ExternalSpec => Spec /\ C!Spec /\ B!Spec
BY EachBegins, EachSteps, PTL DEF ExternalSpec, Spec, C!Spec, B!Spec

(* The MCP tools keep among the others what they keep alone.                *)
THEOREM McpIsApproved ==
  ExternalSpec => [](OnlyApprovedRun /\ PinsWereShown /\ ApprovalsSurvive /\ SearchTellsTruth)
BY ToolsKeepTheirOwn, CallsAreApproved, ApprovalsWereShown, FileHasThePins, SearchIsHonest, PTL

(* oauth.ts, refreshAccessToken: whatever calls refresh at once, a          *)
(* connection that began with a refresh token has one that is accepted,     *)
(* unless a rotated one was lost on its way.                                *)
THEOREM ConnectionsLast == ExternalSpec => []ConnectionLasts
<1>1. ConnectorInv => ConnectionLasts
  BY DEF ConnectorInv, Connected, ConnectionLasts, C!ConnectionLasts
<1> QED BY <1>1, ConnectorInvHolds, ToolsKeepTheirOwn, PTL

(* tools.ts, gmailSend and slackPost: what was sent was asked about.        *)
THEOREM SendsWereAllowed == ExternalSpec => []SendsAreAllowed
<1>1. ConnectorInv => SendsAreAllowed
  BY DEF ConnectorInv, Asked, SendsAreAllowed, C!SendsAreAllowed
<1> QED BY <1>1, ConnectorInvHolds, ToolsKeepTheirOwn, PTL

(* tools-browser.ts, ensure, browserClose and capture: a browser that runs  *)
(* is the session's or was lost in its launch, unless two calls were        *)
(* launching or closing at a time; and every result shows its own call's    *)
(* screenshot, however the calls interleave.                                *)
THEOREM BrowsersAreAccountedFor == ExternalSpec => []BrowserIsAccountedFor
<1>1. BrowserInv => BrowserIsAccountedFor
  BY DEF BrowserInv, OneOpening, ShotsNumbered, BrowserIsAccountedFor, B!BrowsersCanBeClosed,
         B!ShotsAreTheirOwn
<1> QED BY <1>1, BrowserInvHolds, ToolsKeepTheirOwn, PTL
==============================================================================
