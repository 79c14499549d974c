------------------------------- MODULE McpTools -------------------------------
(***************************************************************************)
(* Tools of MCP servers: what a server describes, what the user approves,  *)
(* what a restart remembers and what a turn may call.                      *)
(*   packages/mcp/src/registry.ts, toolset.ts, client.ts                   *)
(*   packages/session/src/connectors.ts   initConnectors                   *)
(*   apps/web/app/api/mcp/route.ts, components/ConnectorPanel.tsx          *)
(*                                                                         *)
(* What a server says of a tool (its description and its input schema) is  *)
(* one member of Versions, and so is the hash of both that a pin keeps.    *)
(* The panel is given the description and no schema: several versions can  *)
(* read alike.  Servers are asked for their tools once in a process's life *)
(* and discovered changes only when the process starts.  A page keeps the  *)
(* list it was shown through a restart of the server.                      *)
(* fsp.writeFile opens the approvals file, which empties it, and writes    *)
(* later; a file that does not parse reads as no approvals at all, so      *)
(* NoPins stands for the empty, the torn and the absent file.              *)
(***************************************************************************)
EXTENDS Naturals, FiniteSets

CONSTANTS
  Tools,          \* by qualified name
  Servers, ServerOf,
  Versions,       \* of a tool: a description and an input schema
  Texts, TextOf,  \* the descriptions, and that of a tool's version
  None,
  Pages, Sessions,
  SearchLimit,
  MaxStarts,      \* starts of the process (bound)
  MaxChanges      \* changes of a tool's version (bound)

ASSUME McpAssumption ==
  /\ None \notin Versions \cup Texts /\ TextOf \in [Tools -> [Versions -> Texts]]
  /\ ServerOf \in [Tools -> Servers] /\ IsFiniteSet(Tools)
  /\ {SearchLimit, MaxStarts, MaxChanges} \subseteq Nat

VARIABLES
  offered,        \* the versions that the servers offer
  changes,
  process,        \* which start of the process this is, 0 while it is down
  starts,
  discovered,     \* McpToolset.discovered
  pinned,         \* ToolApprovals.pinned
  loaded,         \* McpToolset.loaded, one set for every session
  file,           \* what reading approvalsPath would give
  saving,         \* a page's POST, waiting for save()
  page,           \* the list ConnectorPanel shows, and the process it came from
  turn,           \* a session's turn: the ToolSet it was given
  told,           \* history variable: what search announced to the turn
  late,           \* history variable: what was approved since the turn began
  agreed,         \* history variable: versions approved by a page that showed their description
  blind,          \* history variable: ... by a page older than the process
  unsaved         \* history variable: a save failed, was cut off or met another

historyVars == <<told, late, agreed, blind, unsaved>>
vars == <<offered, changes, process, starts, discovered, pinned, loaded, file, saving, page, turn,
          historyVars>>

Pins == [Tools -> Versions \cup {None}]
NoPins == [t \in Tools |-> None]
NotSaving == [at |-> "no", pins |-> NoPins]
NoTurn == [on |-> FALSE, tools |-> NoPins]

TypeOK ==
  /\ offered \in [Tools -> Versions]
  /\ changes \in Nat /\ process \in Nat /\ starts \in Nat
  /\ discovered \in Pins /\ pinned \in Pins /\ file \in Pins
  /\ loaded \subseteq Tools
  /\ saving \in [Pages -> [at : {"no", "opening", "writing"}, pins : Pins]]
  /\ page \in [Pages -> [process : Nat, pending : [Tools -> Texts \cup {None}]]]
  /\ turn \in [Sessions -> [on : BOOLEAN, tools : Pins]]
  /\ told \in [Sessions -> SUBSET Tools] /\ late \in [Sessions -> SUBSET Tools]
  /\ agreed \in [Tools -> SUBSET Versions] /\ blind \in [Tools -> SUBSET Versions]
  /\ unsaved \in BOOLEAN

Init ==
  /\ offered \in [Tools -> Versions] /\ changes = 0
  /\ process = 0 /\ starts = 0
  /\ discovered = NoPins /\ pinned = NoPins /\ file = NoPins /\ loaded = {}
  /\ saving = [p \in Pages |-> NotSaving]
  /\ page = [p \in Pages |-> [process |-> 0, pending |-> NoPins]]
  /\ turn = [s \in Sessions |-> NoTurn]
  /\ told = [s \in Sessions |-> {}] /\ late = [s \in Sessions |-> {}]
  /\ agreed = [t \in Tools |-> {}] /\ blind = [t \in Tools |-> {}]
  /\ unsaved = FALSE

-----------------------------------------------------------------------------
(* Mutant: a pin approves a tool by its name, whatever its version.         *)
StatusByName(t) ==
  IF discovered[t] = None THEN "absent" ELSE IF pinned[t] = None THEN "unapproved" ELSE "approved"

(* A tool's status; "absent" if no server that was reached has it.          *)
Status(t) ==
  IF discovered[t] = None THEN "absent"
  ELSE IF pinned[t] = None THEN "unapproved"
  ELSE IF pinned[t] = discovered[t] THEN "approved" ELSE "changed"

Callable == {t \in Tools : Status(t) = "approved"}
NeedingApproval == {t \in Tools : Status(t) \in {"unapproved", "changed"}}

(* Mutant: the version pinned is the one the server offers by now.          *)
ApproveAsOffered(T) == [t \in Tools |-> IF t \in T THEN offered[t] ELSE pinned[t]]

(* approve: the pins, with the tools of T at their discovered versions.     *)
Approve(T) == [t \in Tools |-> IF t \in T THEN discovered[t] ELSE pinned[t]]

(* Mutant: save exports the pins before the route approves.                 *)
ExportBefore(T) == pinned

(* export, once the tools of T are approved.                                *)
Export(T) == Approve(T)

-----------------------------------------------------------------------------
(* A server's new release has another description of a tool, or the same    *)
(* with another schema.                                                     *)
ServerChanges(t, v) ==
  /\ changes < MaxChanges /\ v # offered[t]
  /\ offered' = [offered EXCEPT ![t] = v] /\ changes' = changes + 1
  /\ UNCHANGED <<process, starts, discovered, pinned, loaded, file, saving, page, turn, historyVars>>

(* The first session brings connectors up: the approvals file is read, and  *)
(* the servers that answer are asked for their tools.                       *)
InitConnectors(reached) ==
  /\ process = 0 /\ starts < MaxStarts
  /\ starts' = starts + 1 /\ process' = starts + 1
  /\ pinned' = file
  /\ discovered' = [t \in Tools |-> IF ServerOf[t] \in reached THEN offered[t] ELSE None]
  /\ loaded' = {} /\ unsaved' = FALSE
  /\ UNCHANGED <<offered, changes, file, saving, page, turn, told, late, agreed, blind>>

(* The process ends, by a crash or an orderly stop: no save is waited for.  *)
Exit ==
  /\ process # 0 /\ process' = 0
  /\ discovered' = NoPins /\ pinned' = NoPins /\ loaded' = {}
  /\ saving' = [p \in Pages |-> NotSaving]
  /\ turn' = [s \in Sessions |-> NoTurn]
  /\ told' = [s \in Sessions |-> {}] /\ late' = [s \in Sessions |-> {}]
  /\ UNCHANGED <<offered, changes, starts, file, page, agreed, blind, unsaved>>

-----------------------------------------------------------------------------
(* GET /api/mcp: the panel lists what needs approval, by its description.   *)
Refresh(p) ==
  /\ process # 0
  /\ page' = [page EXCEPT ![p] = [process |-> process,
                pending |-> [t \in Tools |-> IF t \in NeedingApproval THEN TextOf[t][discovered[t]] ELSE None]]]
  /\ UNCHANGED <<offered, changes, process, starts, discovered, pinned, loaded, file, saving, turn, historyVars>>

Listed(p) == {t \in Tools : page[p].pending[t] # None}

(* POST /api/mcp: approves the tools asked for that need it, as they were   *)
(* discovered, exports every pin and starts to save.                        *)
Post(p, asked) ==
  LET targets == asked \cap NeedingApproval
  IN  /\ process # 0 /\ saving[p].at = "no" /\ targets # {}
      /\ pinned' = Approve(targets)
      /\ saving' = [saving EXCEPT ![p] = [at |-> "opening", pins |-> Export(targets)]]
      /\ unsaved' = (unsaved \/ \E q \in Pages : saving[q].at # "no")
      /\ late' = [s \in Sessions |-> late[s] \cup targets]
      /\ agreed' = [t \in Tools |-> IF t \in targets /\ page[p].pending[t] = TextOf[t][discovered[t]]
                                   THEN agreed[t] \cup {discovered[t]} ELSE agreed[t]]
      /\ blind' = [t \in Tools |-> IF t \in targets /\ page[p].process # process
                                   THEN blind[t] \cup {discovered[t]} ELSE blind[t]]
      /\ UNCHANGED <<offered, changes, process, starts, discovered, loaded, file, page, turn, told>>

(* The user approves one tool of the list, or all that is pending by now.   *)
ApproveOne(p) == \E t \in Listed(p) : Post(p, {t})
ApproveAll(p) == Listed(p) # {} /\ Post(p, Tools)

(* The file is opened for writing, which empties it.                        *)
SaveOpens(p) ==
  /\ saving[p].at = "opening"
  /\ saving' = [saving EXCEPT ![p].at = "writing"]
  /\ file' = NoPins
  /\ UNCHANGED <<offered, changes, process, starts, discovered, pinned, loaded, page, turn, historyVars>>

Size(pins) == Cardinality({t \in Tools : pins[t] # None})

(* It is written from its start: over a longer text that another save wrote *)
(* meanwhile, the end of that text stays and the file does not parse.       *)
SaveWrites(p) ==
  /\ saving[p].at = "writing"
  /\ file' = IF Size(saving[p].pins) < Size(file) THEN NoPins ELSE saving[p].pins
  /\ saving' = [saving EXCEPT ![p] = NotSaving]
  /\ UNCHANGED <<offered, changes, process, starts, discovered, pinned, loaded, page, turn, historyVars>>

(* The disk refuses: the route fails, and the approval stands until an exit. *)
SaveFails(p) ==
  /\ saving[p].at # "no"
  /\ saving' = [saving EXCEPT ![p] = NotSaving]
  /\ unsaved' = TRUE
  /\ UNCHANGED <<offered, changes, process, starts, discovered, pinned, loaded, file, page, turn, told, late, agreed, blind>>

-----------------------------------------------------------------------------
(* A turn begins: aiTools registers what is callable then.                  *)
Send(s) ==
  /\ process # 0 /\ ~turn[s].on
  /\ turn' = [turn EXCEPT ![s] = [on |-> TRUE,
                tools |-> [t \in Tools |-> IF t \in Callable THEN discovered[t] ELSE None]]]
  /\ told' = [told EXCEPT ![s] = {}] /\ late' = [late EXCEPT ![s] = {}]
  /\ UNCHANGED <<offered, changes, process, starts, discovered, pinned, loaded, file, saving, page, agreed, blind, unsaved>>

(* Mutant: search looks through every tool discovered.                      *)
SearchAll(s) ==
  \E found \in SUBSET {t \in Tools : Status(t) # "absent"} :
    /\ turn[s].on /\ Cardinality(found) <= SearchLimit
    /\ loaded' = loaded \cup found
    /\ told' = [told EXCEPT ![s] = @ \cup found]
    /\ UNCHANGED <<offered, changes, process, starts, discovered, pinned, file, saving, page, turn, late, agreed, blind, unsaved>>

(* The search tool loads what it finds among the callable tools of now and  *)
(* tells the model to call them directly.                                   *)
Search(s) ==
  \E found \in SUBSET Callable :
    /\ turn[s].on /\ Cardinality(found) <= SearchLimit
    /\ loaded' = loaded \cup found
    /\ told' = [told EXCEPT ![s] = @ \cup found]
    /\ UNCHANGED <<offered, changes, process, starts, discovered, pinned, file, saving, page, turn, late, agreed, blind, unsaved>>

(* What the model's next step may call: active and registered.              *)
Reachable(s) == {t \in loaded : turn[s].on /\ turn[s].tools[t] # None}

TurnEnds(s) ==
  /\ turn[s].on /\ turn' = [turn EXCEPT ![s] = NoTurn]
  /\ told' = [told EXCEPT ![s] = {}] /\ late' = [late EXCEPT ![s] = {}]
  /\ UNCHANGED <<offered, changes, process, starts, discovered, pinned, loaded, file, saving, page, agreed, blind, unsaved>>

Next ==
  \/ \E t \in Tools, v \in Versions : ServerChanges(t, v)
  \/ \E reached \in SUBSET Servers : InitConnectors(reached)
  \/ Exit
  \/ \E p \in Pages :
       Refresh(p) \/ ApproveOne(p) \/ ApproveAll(p) \/ SaveOpens(p) \/ SaveWrites(p) \/ SaveFails(p)
  \/ \E s \in Sessions : Send(s) \/ Search(s) \/ TurnEnds(s)

Spec == Init /\ [][Next]_vars

-----------------------------------------------------------------------------
Approved(t) == agreed[t] \cup blind[t]

(* A turn can only call a tool in a version that somebody approved, its     *)
(* schema included (toolset.ts callable, "Only approved tools are ever      *)
(* callable"), in this process or an earlier one, however the server has    *)
(* changed the tool since and whatever became of the file.                  *)
OnlyApprovedRun ==
  \A s \in Sessions, t \in Tools : turn[s].tools[t] # None => turn[s].tools[t] \in Approved(t)

(* ConnectorPanel: "the description IS the thing being approved".  The      *)
(* description of what is pinned was shown by the page that approved it -   *)
(* or the page's list came from an earlier process, and the server may have *)
(* changed the tool before this one started.  The schema, which the pin     *)
(* covers with it, no page shows.                                           *)
PinsWereShown == \A t \in Tools : pinned[t] # None => pinned[t] \in Approved(t)

(* "Persists approvals so a restart does not silently re-trust": between    *)
(* saves the file has exactly the pins, unless a save failed, or met        *)
(* another, since the process started.                                      *)
ApprovalsSurvive ==
  (process # 0 /\ ~unsaved /\ \A p \in Pages : saving[p].at = "no") => file = pinned

(* "These tools are now available. Call them directly": a tool that search  *)
(* has announced can be called on the turn's next step, unless it was       *)
(* approved after the turn's tools were built.                              *)
SearchTellsTruth == \A s \in Sessions : told[s] \subseteq Reachable(s) \cup late[s]
==============================================================================
