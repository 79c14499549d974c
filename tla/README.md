# A TLA+ model of the agentic workspace

This directory holds a formal model of the agentic workspace: a chat application
in which an agent runs model turns with tools against a per-thread workspace,
asks a human before irreversible actions, keeps its threads in SQLite, meters
what it spends, and can be wrapped in a Mac app that supervises the server.
The modules are written from the source code; where a document of the
repository and the code disagree, the modules follow the code and a run
demonstrates the disagreement.

## The system

| Component | Source | State it keeps | Operations | What is hard |
|---|---|---|---|---|
| Approval gate | `packages/session/src/approvals.ts` | pending map, timers, standing grants, promises | request, resolve, revokeScope, timeout, denyAll | answers, timeouts and shutdown in any order |
| Approval prompts | `apps/web/app/page.tsx`, `components/ApprovalPrompt.tsx`, `api/chat`, `api/approve` | one prompt slot per page, an event stream, POSTs in flight | applyEvent, resolveApproval, thread switch | several pages, late responses, missed events |
| Agent loop | `packages/core/src/agent.ts` | history, current alias, a turn's step and usage | send, prepareStep, switchModel | two turns on one agent; failures after paid steps |
| Budget, meter, gateway | `packages/gateway-model/src` | run and session totals | assertCanProceed, record, startRun, resolve | check long before record |
| Subagents | `packages/subagents/src` | a gateway per scout | spawnSubagents | partial failure after spend |
| Image tool | `packages/session/src/tools-image.ts` | none | generateImage | spend beside the meter |
| Workspace file tools | `packages/session/src/tools.ts`, `tools-edit.ts`, `checkpoints.ts` | files and snapshots | writeFile, editFile, restoreFile | awaits between look, snapshot and write |
| Session manager | `packages/session/src/manager.ts`, `connectors.ts` | live sessions, cached connector promise | get, peek, deleteThread, dispose | cold starts together, deletion meanwhile |
| Store | `packages/store/src` | threads, messages, cost entries | createThread, appendMessages, loadMessages, recordCost | restarts |
| Mac shell supervisor | `apps/mac-shell/Sources/MacShell/SidecarController.swift` | process, generation, failure count, tasks | start, restartNow, stopBlocking, callbacks | late callbacks, hung children, crash loops |
| Sidecar server | `apps/sidecar/server.mjs` | token, shutdown flag | prepare, listen, shutdown | stop signals, orphaning |
| Compaction, adapter | `packages/core/src/condenser.ts`, `adapter.ts`, `tokens.ts`, `pinning.ts` | none; the agent's history and the SDK's array | condense, toModelMessages, fromModelMessages | call/result pairs, what a lossy pass may lose |
| Catalog, artifacts | `packages/gateway-model/src/catalog.ts`, `artifacts.ts` | none (pure) | resolve, permits, prepareForProvider | vendor switches |
| MCP | `packages/mcp/src`, `packages/session/src/connectors.ts` | discovered tools, approvals by hash and their file, a turn's active tools | refresh, approve, save, search | a tool that changes after approval, restarts, saves that overlap |
| OAuth connectors | `packages/connectors/src` | the token's row, pending authorizations | begin, complete, refresh, the tools' requests | concurrent refresh, rotation, disconnect meanwhile |
| Browser tool | `packages/session/src/tools-browser.ts` | one browser, numbered screenshots | browse, browserAct, browserClose | calls of one step that launch and close together |
| Python tool | `packages/session/src/tools-python.ts` | scripts in the workspace | runPython | two calls of one label; whose files are whose |
| Documents | `packages/documents/src`, `packages/session/src/tools-documents.ts` | `/.render` | build, three gates, judge | one name space of pictures for all documents |
| Workspace seam | `packages/workspace/src` | a directory or a container, its commands | start, exec, suspend, dispose | timeouts that must kill whole groups |
| Search, skills, protocol, other pages | see `PROJECT.json` | | | mostly pure or I/O |

How they interact: a page POSTs to `/api/chat`; the route gets the thread's
session from the manager, adds a listener for its events and runs
`agent.send`. The turn's steps check the budget, ask the model and run tools; a
tool that needs consent awaits the gate, whose events reach every page through
its open stream, and a page answers through `/api/approve`. Messages and costs
go to the store through callbacks as they happen. Nothing locks a session: two
POSTs run two turns on the same agent, meter, gate and workspace. In the Mac app
all of this runs in a Node child that the shell launches and watches.

## The modules

| Module | Models | Checked with |
|---|---|---|
| `Consent` | what the gate promises: an abstract specification | as a property of `ApprovalGate` |
| `ApprovalGate` | the gate, one action per method or callback | `MCApprovalGate`, proofs in `ApprovalGate_proofs` |
| `ApprovalShells` | the gate with the web pages that answer it (extends `ApprovalGate`) | `MCApprovalShells`, proofs in `ApprovalShells_proofs` |
| `AgentTurn` | turns, steps, tools that spend, meter and ledger | `MCAgentTurn`, proofs in `AgentTurn_proofs` |
| `Condenser` | compaction, the adapter and the vendor checks, as operators on messages | through `Transcript` |
| `Transcript` | the agent's history and what each request of a turn holds (extends `Condenser`) | `MCTranscript`, proofs in `Transcript_proofs` |
| `SessionManager` | one thread's rows, directory and live session under concurrent POSTs | `MCSessionManager`, proofs in `SessionManager_proofs` |
| `Sidecar` | the Mac shell's supervisor with the server's life | `MCSidecar`, proofs in `Sidecar_proofs` |
| `FileTools` | the file tools and snapshots, await by await | `MCFileTools`, proofs in `WorkspaceTools_proofs` |
| `Documents` | building, the gates, `/.render` and the reviewer | through `WorkspaceTools`, proofs there |
| `Python` | runPython, call by call | through `WorkspaceTools`, proofs there |
| `Exec` | commands, their timeouts and their processes | through `WorkspaceTools`, proofs there |
| `WorkspaceTools` | the tools of a workspace (extends `FileTools`, instantiates the other three) | `MCWorkspaceTools`, proofs in `WorkspaceTools_proofs` |
| `McpTools` | MCP servers, the registry, its file, turns and the panel | through `ExternalTools`, proofs there |
| `Connectors` | one OAuth connection and the tools that use it | through `ExternalTools`, proofs there |
| `Browser` | the browser tools around their one session | through `ExternalTools`, proofs there |
| `ExternalTools` | the tools that reach outside (extends `McpTools`, instantiates the other two) | `MCExternalTools`, proofs in `ExternalTools_proofs` |

Variables and actions keep the source's names where they have one; the header of
each module names its sources, and `map` in `PROJECT.json` gives the lines each
definition stands for. The operators marked "Mutant" are not part of any
specification: each is a plausible bug of the definition after it, kept to show
that a property would notice.

**ApprovalGate.** JavaScript runs each method to completion, so `RequestGranted`,
`RequestPrompt`, `Resolve`, `RevokeScope`, `DenyAll` and `Timeout` (the
`setTimeout` callback) are atomic, and what interleaves is their order. A request
stands for one call, its id and its promise. `emitted` is the sequence of events
handed to `emit`. `Resolve` of an unknown id changes nothing and is not an action.

**ApprovalShells.** A page is its prompt slot, the position of its stream in the
gate's events, whether it has moved to another thread, and the POSTs it awaits. A
POST is served and answered in two steps, either of which can fail. While the
prompt shows, its overlay covers the sidebar, but a thread being created then opens
with the prompt still on the page; a return to the thread while a prompt shows, which
only the keyboard could make, is left out. The gate's `RevokeScope` is called by no
route and is left out here (the gate's own run has it).

**AgentTurn.** A sender is a chat POST; a turn goes `preparing` (the ceiling is
checked), `asking` (a model request is in flight), `calling` (its tools run),
`ending` (usage awaited), and ends with one of the three verdicts of `TurnResult`.
Money is integer: a token costs `Rate[alias]`. `session`, `run` are the meter;
`ledger` sums the store's cost entries. `billed`, `lost`, `imageBilled`,
`repriced` are history variables that say what providers charged and what the
code drops. Message content, reasoning effort and attachments are abstracted away.

**FileTools.** One file; a call is a record of where it is and of its locals. The
look at the file and the refusals are one step (nothing deletes the file, so the
separate awaits of `exists` and `read` differ only if a write falls between
them, which the later awaits show as well); then the snapshot's name, its read, its write, and
the tool's own write are a step each. A text is a word per line so that a search
string may occur never, once or twice. `overlapped` and `collided` record the two
circumstances in which snapshots may not hold everything.

**SessionManager.** `get` is cut at its awaits: `Post` (row created, messages
loaded), `Started` (directory made, connectors joined or started), `Built` (session
object built and put in the map). Session objects are numbered so that one a turn
still runs on can differ from the live one. `Ask` and `Answer` are the two points at
which a turn appends a message: the agent's history has it first, and then
the store, whose transaction may be rolled back and throw, and always does when the
thread's row is gone (`Say`). `unkept` records the messages whose append failed. A
restart clears the process's maps and keeps rows and directories.

**Sidecar.** Each main-actor method is a step. The pipe reader and the termination
handler put tasks on the main actor's queue, which is first in, first out; a ready
line still in the pipe when the process is torn down is dropped with its handler.
`Launch` may find nothing to run, throw in `run()`, or start a child. A child can
crash at any time, hang before or after it listens (`Wedge`), or shut down when
told. `stopBlocking` is called only when the app terminates and ends with the child
dead, so it is one action after which nothing of the app runs; the branch of
`handleExit` for a stop without a relaunch is reached only then and is left out.

**Condenser and Transcript.** A message is its role and the set of its parts; a
part is its kind and whose it is, and an output's kind is its size ("small", "big",
or the "note" that stands for it once it is in a file). `Condense` is the two passes
of `condense` in their order, `ElideToolOutputs` and then `SummariseMiddle`, both
behind `RecentBoundary`, with the estimate of tokens.ts between them. The operators
are not recursive, so that proofs can use them. `Transcript` has the agent's
`history`, the `array` that the AI SDK keeps for the turn under way and the
`request` that the step hook makes of it: each step condenses the whole array anew,
because the SDK does not take the hook's messages back. A turn can end at any step;
the model and so the vendor can change between turns. Attachments are read anew at
the start of every turn, and any of these reads can fail, that of the question's own
attachment too: a note then takes its place. The file an elided output goes to can be
unwritable.

**McpTools.** A tool's definition, description and schema, and its hash are one member
of `Versions`; `TextOf` is the description alone, which is what the route gives a page
and a page shows, so two versions may read alike. The process starts
(`InitConnectors`), asks each server for its tools, reads the approvals file; a page
lists tools and posts the names it approves; `approve` pins by hash what has been
discovered by then, and saves
in two steps (the open that truncates, the write), so that a save can crash between
them or meet another. A turn takes its tools when it begins, and `Search` adds to
the active ones. Versions change between starts.

**Connectors.** `usableAccessToken` reads the row, awaits the provider and puts the
answer: `UseToken`, `ProviderAnswers`, `RefreshArrives`, each of which other calls,
a new sign-in, an expiry or a disconnect can come between. The provider is one of
the three the source configures, with what its answers may hold: whether it gives
refresh tokens and whether it rotates them. A tool is the sequence of its requests,
with `confirm` before the one that sends.

**Browser.** Each call is where it is among its awaits; what calls share is the one
browser session.

**Python.** What calls share is the workspace's files, the scripts of all labels among
them: a listing has every script, and a call leaves out only its own of what it claims.
Whatever code runs, other tools and the user make and remove files and scripts at any
time, and a listing may miss part of the workspace, because a directory that cannot be
listed counts as empty. `shared`, `busy` and `blurred` record the calls whose label,
listings or files others touched.

**Documents.** The pictures under `/.render` are known by base name and page number.
Pages are found by their prefix, `<base>-page`, so a base name shares its pictures with
every longer one in `Longer`: the two are of one family. Removing the previous PDF or
pages may fail, in part or in whole, and nobody notices; LibreOffice may write nothing;
pdftoppm may stop early; a listing may fail. `met`, `stale` and `cut` record the calls
that met another of their family, could not remove what they found, or did not get all
their pages. Base names that end in a number, and could be one of another's pages, are
left out.

**Exec.** A process of a command is in its group or has escaped it (setsid), and holds
the pipe or is quiet (its output redirected). On the host the timer kills the group and
exec returns when nobody holds the pipe; a shell or a docker client that cannot be
spawned ends the call at once. For a container the timer kills the docker client only;
`Remove` and `Forget` are the two halves of `dispose`, of which the first may fail with
nobody looking, and a start is refused while a container of the name is there.

**WorkspaceTools and ExternalTools.** A session gives its agent all of these tools,
and they share no state that more than one of them reads. `inUse` picks one, chosen
in the initial state; the calls of that tool interleave and the others stand still.
One run so checks each module over its own interleavings: its states are the sum of
the modules' and not their product.

## The runs

Every bound is a CONSTANT of a cfg or a definition of an MC module.

| Run | Shows | Bounds, and why they suffice |
|---|---|---|
| `gate` | `WaiterIsReachable`, `ToldTruth`, `ImplementsConsent`, `EveryRequestSettles` | 3 requests, 2 scopes: two of one scope pending while a third uses or loses the grant |
| `shells` | `AnswersAreClicks`, `AnsweredPromptClears` | 2 requests, 2 pages, 1 scope, one POST in flight per page, 2 distinct clicks; one page may change threads |
| `stale_prompt` (violated) | `SettledPromptClears`: a timed-out request's prompt stays on the page | as `shells` |
| `agent_turn` | `OvershootBounded`, `LedgerMatchesBill`, `EveryTurnGetsVerdict` | 2 senders, 2 turns, 2 steps each, 3 aliases (cheap, dear, forbidden), ceilings of 1 and 2, one restart |
| `transcript` | `CallsKeepResults`, `EndsAreVerbatim`, `OutputsSurvive`, `AttachmentsArrive` | 3 messages of the user, 3 tool calls of which 2 in one step; a tail of 3 messages and a limit of 8, so that requests pass it after one big output, and each pass alone or both are needed; 2 vendors, one of them strict about its reasoning |
| `lost_question` (violated) | `QuestionIsKept` | as `transcript` |
| `session` | `HistoryIsStored`, `NothingSaidIsLost`, `LiveThreadIsWhole`, `ConnectorsStartOnce`, `PromptsAreAnswerable` | 2 POSTs together, 4 in all, one deletion, one restart |
| `sidecar` | `TypeOK`, `OneSidecar`, `DeathsAreNoticed`, `EndpointIsCurrent`, `CrashLoopEnds`, `WindowSettles`, `RestartHappens`, `NoOrphan` | a failure budget of 2 (5 in the code), one restart by the user, one healthy run; all launches these allow fit |
| `files` | `UndoHoldsEverything`, `OriginalIsKept`, `UndoIsTheLastChange`, `OverwritesAreAsked`; `PassIsEarned`; `AnswersForItsCode`; `CommandsAreBounded` | files: 2 calls together, 3 in all, 2 lines of 2 words, 3 instants of the clock; documents: 2, at three paths, of which two have one base name and the third one that begins as the first's pages do, of 1 or 3 pages, with 2 pages drawn and judged at most, so that a document is shorter than its predecessor and one is longer than what is judged; 2 Python calls and labels, and a file beside the scripts; 2 commands, each with processes of all four kinds (in the group or not, on the pipe or not) |
| `lost_edit` (violated) | `EditsAreUndoable` with two edits in one step | the files of `files` |
| `stale_page` (violated) | `JudgedOnItsOwn` without pdftoppm | the documents of `files`, `CanRasterise` false |
| `external` | `OnlyApprovedRun`, `PinsWereShown`, `ApprovalsSurvive`, `SearchTellsTruth`; `ConnectionLasts`, `SendsAreAllowed`; `BrowserIsAccountedFor` | 2 tools of 2 servers, 2 versions of each, of which one tool's read alike and the other's differently, 2 pages, 1 session, 2 starts; 2 connector calls, 1 flow that can run twice, 3 tokens issued, 2 expiries (two calls refresh the same token, and one token after the other); 3 browser calls (two that launch together and one that closes) |

Deadlock is not checked: every one of these systems may come to rest (all requests
settled, all turns ended, all calls over, the app gone).

Symmetry is used in the safety runs where identities are interchangeable: requests of
`shells`, POSTs of `session`, file calls, lines and words of `files`, and in `external`
pages, and the versions swapped together with what they read.

Some properties are conditional on history variables, and the condition is the
finding: `HistoryIsStored` says that memory and store have the same messages in the same
order, but for those whose append failed, unless a second session was built for the
thread or a deletion overlapped a POST; `LedgerMatchesBill` is exact
unless a turn ended at another model's rate; `UndoHoldsEverything` holds unless two
calls overlapped or two snapshots fell in one millisecond; `ConnectionLasts` unless
a rotated token was lost on its way; a browser can be closed unless two calls were
launching or closing at a time; a Python call runs its own code unless another call had
its label, and claims what that made where its listings were whole and nothing was
removed while it ran, and nothing else unless somebody else made a file or a script
meanwhile; a document's pass is earned unless another of its family was in work, a
removal failed, or pages were not made or found; a file has the approvals unless a
save failed or met another. `EveryTurnGetsVerdict` has a temporal condition: the
sender does not wait for ever for a request or for the tools of one step. The violated
runs drop the condition that a document does not mention.

### Fairness

- `ApprovalGate`: the event loop runs a timer that is due. Nobody has to answer.
- `AgentTurn`: only the loop's own steps are fair, the step hook and what follows the
  last answer. A model request has no timeout (`streamText` is given none) and a local
  exec waits as long as an escaped process holds its pipe, so either may never come
  back; `EveryTurnGetsVerdict` says that a turn ends if what it asks for and calls does.
- `Sidecar`: the main actor serves its queue, sleeps end, and a server that was
  told to stop and whose event loop runs exits (server.mjs exits by a timer of its own
  after five seconds). A server may hang for ever, listen never, and crash or not;
  no user has to act.
- The other modules check safety only: their calls wait for users, providers and
  commands that need not answer.

### What the violated runs found

1. A timeout and `denyAll` settle a request without an event, so pages keep the
   prompt (`approvals.ts:82`, against `api/approve/route.ts:14-15`).
2. Two edits in one model step lose text that no snapshot holds (`tools-edit.ts:76`,
   against `README.md:56-57`).
3. From the second turn on, a long turn's own question can be summarised away: the
   head that the lossy pass keeps is the thread's first message (`condenser.ts:153`,
   against `condenser.ts:25-26`).
4. Without pdftoppm, a document whose picture cannot be drawn is judged on the one
   left by an earlier document of its base name (`render.ts:216`, against
   `render.ts:182-192`).

### What else was seen while modelling

These have no run, because no property of the model is about them or because the
condition of a property above already says it.

- One turn's overshoot is all of its steps (`agent.ts:424`), where
  `budget.ts:53-54` speaks of one; `OvershootBounded` states the bound that holds.
- Images are paid for outside the meter (`tools-image.ts:63`, against
  `gateway.ts:112-113`).
- A thread deleted while its session is built leaves the session live
  (`manager.ts:427`, against `manager.ts:438-442`): `crossed` in `SessionManager`.
- A ready line handled after its own server's exit makes the Mac window show a dead
  port, for good when it was the last attempt (`SidecarController.swift:244`).
- A message whose append failed stays in the live session's history, so the next turn's
  model sees it and a reload does not show it (`agent.ts:197`, `agent.ts:442`,
  `store.ts:186-189`).
- The pin of an MCP tool covers its input schema, which neither the route nor the panel
  shows (`route.ts:25-31`); a tool of which only the schema changed is announced as
  "description changed" and reads as before.
- In a container a timed-out exec kills the docker client and not the command, where
  `types.ts:28` says of the timeout that the command is killed. A failed `docker rm -f`
  leaves the container and its commands running, and the workspace that forgot it can
  no longer be started, because the name is taken. On the host, processes that left the
  group and sent their output elsewhere outlive any timeout.
- A Python call claims the script that another call wrote meanwhile as a file its own
  code created (`tools-python.ts:110`, `171-190`).
- A failed removal under `/.render` is swallowed (`render.ts:118`, `236`), and the
  reviewer may be handed what was to be removed.
- `fromModelMessages` labels every reasoning part's provider unknown
  (`adapter.ts:140`), so a vendor's own reasoning is stripped with the foreign, and
  `assertReplayable` has nothing to refuse. A tool result's error flag is not carried
  over either.
- The reviewer of a document is shown 8 pages of the 20 drawn; a document whose base
  name is another's followed by "-page" shares its pictures; LibreOffice once not
  found is never looked for again.
- The browser is not closed when its session is disposed of, and a browserAct can
  land on another page than the one its approval was about.
- A disconnect is undone by a refresh whose answer comes later.
- A server whose discovery fails hides the tools of the servers after it.

## The proofs

`tlapm` checks every proof to its last leaf; the assumptions are those named in
the modules (`NoScopeIsNoScope`, `AgentAssumption`, `SidecarAssumption`,
`McpAssumption`, `KeepAssumption`, `TranscriptAssumption`, `FileAssumption`,
`DocumentAssumption`, `PythonAssumption`, `BrowsingAssumption`; the last three say that a
document has a page at least and a base name, that scripts are in a directory of their
own, and that the browser calls are finitely many), and TLC
evaluates them in the runs. Every invariant of a passing run is a theorem, for every value of
the constants.

- `ApprovalGate_proofs`: `TypeCorrect`; `WaitersReachable`; `ToldOnlyTruth`;
  `GateImplementsConsent`. Reachability is inductive with the types alone: each
  action moves promise, map entry and timer together. Truth follows from two action
  lemmas: a settled promise never changes, and only `Resolve` reports, of a promise
  it settles in the same step. The refinement maps each gate action to one Consent
  action (a timeout and `DenyAll` to `Refuse`); it needs reachability, because the
  gate looks at the map where Consent looks at the wait.
- `ApprovalShells_proofs`: `GateIsTheGate` first. A step of the pages is a step of
  the gate's own `Next` or leaves the gate alone, so all that is proved of the gate
  holds with any number of pages. `AnswersWereClicked`, `AllowsWereClicked`,
  `AnsweredPromptsClear` rest on three more parts. `Traced`: every event, prompt and
  click is of a request that was made, and every POST under way has its click.
  `Announced`: no request is announced after its answer was. `Shown`: no page shows a
  prompt that was answered in the events it has applied, which for a page that is level
  with the gate means none that was answered at all. `AllowsWereClicked`
  says more than the run: a granted tool goes back to a click on its own prompt or to a
  click of "this session" on a prompt of the same scope.
- `AgentTurn_proofs`: `TypeCorrect`, which bounds a turn's usage by its steps and its
  steps by `MaxSteps`; `OvershootIsBounded`; `LedgerIsTheBill`. `OvershootBounded` is
  not inductive: a turn that passed the check may still record a whole turn. The
  invariant `Headroom` adds what each turn may still record (`LateCost` while it asks
  or calls, `TurnCeiling` while it ends) to the session's total, and stays below the
  ceiling plus one `LateCost` per sender: a turn enters that sum only while the total
  is below `PerSession`, and every record is paid out of the turn's own share.
  `LedgerMatchesBill` is inductive on top of the types, but it is about a sum over the
  senders that a library operator folds along a recursive function. `TableExists` shows
  that function to exist on a finite set, `SumMoves` that a sum moves by what one of
  its terms moves (by a smallest counterexample among the subsets), and `LedgerKept`
  then weighs each action: what leaves a sender's debt enters the ledger, or stays
  owed.
- `Sidecar_proofs`: `TypeCorrect`, `NeverTwoSidecars`, `DeathsNoticed`, `LoopEnds`,
  `EndpointCurrent`. The invariant `IInv` joins the types with three parts that need
  each other. `Children`: only the held child lives, and no launch is due beside it.
  `News`: every exit in the queue is true and told once, one of the current generation
  is of the held process, and a held process that is dead has its news under way.
  `Budget`: failures leave room for the launch that is due, and launches never run
  ahead of the failures by more than the one held. A launch is safe because nothing is
  alive (`Children`), its number is new to the queue (`News`) and counted (`Budget`);
  `LaunchIInv` says so once for the four actions that launch, `DeathIInv` for the ways
  a child dies. `EndpointCurrent` is inductive on top of the types.
- `Transcript_proofs`: `RequestsArePaired`, `EndsStayVerbatim`, `OutputsAreSomewhere`,
  `AttachmentsAlwaysArrive`. The request is made anew from the array, so what is
  inductive is about the array. `ArrayIsPaired`: no message of the history has a call,
  and in the array a call's message is followed by its results. A request then is
  paired because every operator keeps pairs: the maps change parts without changing
  which calls a message has, and the lossy pass cuts at a boundary that is never between
  a call and its result, on either side of the summary, and after an opening message
  that has neither. For the rest, `Carries` says what one `Condense` may do to a list of
  messages: the first message and all after the boundary keep their content, the words
  of any other message stay together with the bytes beside them or go together, and a
  reference stands only for a large output before the boundary. The boundary lies no
  later than `KeepRecent` before the end, which gives the verbatim ends; outputs are
  written before they are referred to; and since the turn began the array has, beside the
  words of every message that came with a file, the file's bytes or the note in their
  place, as its read went, so no request has the words alone. `Lasts` joins these.
- `ExternalTools_proofs`: `ToolsKeepTheirOwn` says that a behaviour of the session's
  external tools is one of `McpTools`, of `Connectors` and of `Browser`, so each is
  proved by itself.
  - McpTools: `TypeCorrect`, `CallsAreApproved`, `ApprovalsWereShown`, `FileHasThePins`,
    `SearchIsHonest`. `Agreed` ties a turn's tools to the registry's pins,
    `PagesAreCurrent` what a page shows to the description of a version that was discovered, `SaveIsLatest`
    the save under way to the pins, and `TurnIsCurrent` what search has told to what the
    turn's next step has.
  - Connectors: `ConnectionsLast`, `SendsWereAllowed`. Of a token that was issued, at most
    one place has it that can still be put in the row: the row, or the call it was given
    to (`Tokens`). A connection whose row's token is no longer accepted so has a call on
    its way with the one that is (`Connected`), until it arrives or is lost. A call whose
    next request sends has asked (`Asked`).
  - Browser: `BrowsersAreAccountedFor`. A screenshot's number belongs to one call, and there
    are as many numbers as calls that have one (`ShotsNumbered`); as long as no launch or
    close meets another, a launch finds no session, a close has the session's browser,
    and what is open is that or was lost in its launch (`OneOpening`).
- `WorkspaceTools_proofs`: `ToolsKeepTheirOwn` here too, for the four modules.
  - FileTools: `TypeCorrect`, `UndosHoldEverything`, `OriginalsAreKept`,
    `UndosAreTheLastChange`, `OverwritesWereAsked`. While a call is alone, the copy it
    has taken is the file's text until it writes (`Fresh`), and the latest snapshot once
    it is kept (`Named`), so a write loses nothing and the latest snapshot is what it
    wrote over. With overlapping calls, what survives is the first text: before a
    snapshot has it, nobody can be about to write, and whoever keeps one has that text
    (`Found`).
  - Documents: `PassesAreEarned`. Two documents of one family at work are recorded as
    having met (`Solitary`); one that has met nobody and whose removals went through
    finds, at each of its stages, what it left there at the one before (`FindsItsOwn`):
    its own document, PDF and pictures, none of them left over from another, and sees
    those.
  - Python: `PythonAnswersForItsCode`. A call that shares its label with no other finds
    its own script under it, or none, until it has run (`Runs`); where its listings are
    whole and nothing is removed, what its run made is never in the listing taken before,
    and is all that is new beside its script unless others made files (`Claims`).
  - Exec: `CommandsWereBounded`. No process starts one in a group or at a pipe that it has
    left itself, so what a kill or a return finds gone stays gone (`LetsGo`); a command's
    processes are in the container that is there (`Contained`), and those called before a
    container was forgotten are in it still, or nowhere (`Older`), which is why a
    workspace that could be started has none of them.

What stays model-checked only: the liveness properties `EveryRequestSettles`,
`EveryTurnGetsVerdict`, `WindowSettles`, `RestartHappens` and `NoOrphan` (TLAPS does
not do fairness or ENABLED).

## Not modelled

Streaming text, titles, layout, logging, rendering, provider options, encryption of
tokens, the text of prompts and summaries, and the operating system beyond what is
said above. `pinning.ts` is not modelled, because no message of the agent's flow is
pinned. Of the components: search, web fetch and skills are stateless requests and
lookups; the Mac app's windows, keychain and Seatbelt profile are views and system
services; the AG-UI mapping is a change of notation. The components with status
`partly` say in `PROJECT.json` what is missing of them.

## Plan

1. (done) The gate with its pages, the agent's turn and its money, the session
   manager, the sidecar.
2. (done) The transcript and its compaction; MCP, connectors, browser; files,
   documents, Python, commands.
3. The scouts' own loops on their read-only workspace; `SessionManager` with several
   threads, `dispose` and a connector promise that is rejected; a rasteriser's pages of
   base names that end in numbers.
4. (done) Proofs of every invariant of the passing runs.
5. Proofs of action properties beside them: what one step of the session manager or of
   the connectors may never do; an abstract specification of the meter and its ledger
   with `AgentTurn` shown to implement it.
