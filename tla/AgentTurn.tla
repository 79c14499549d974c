------------------------------ MODULE AgentTurn ------------------------------
(***************************************************************************)
(* The agent loop of one session and what it costs:                        *)
(*   packages/core/src/agent.ts            send, prepareStep               *)
(*   packages/gateway-model/src            BudgetGuard, Meter, gateway     *)
(*   packages/subagents/src/spawn-tool.ts  scouts, paid from inside a turn *)
(*   packages/session/src/tools-image.ts   images, paid from inside a turn *)
(*   apps/web/app/api/chat/route.ts        a turn per POST, no lock        *)
(*                                                                         *)
(* A sender is a page's chat POST.  Nothing keeps two of them from running *)
(* turns on one Agent, one Meter and one currentAlias at once.             *)
(* A request's usage is known when its step finishes; the turn's usage is  *)
(* recorded once, at its end, at the rates of whatever model is selected   *)
(* by then.  Money is in whole units: Rate[a] is the price of one token.   *)
(***************************************************************************)
EXTENDS Integers, FiniteSets, Functions

CONSTANTS
  Senders,        \* chat POSTs that can be in flight together
  Aliases,        \* the catalog
  Permitted,      \* the aliases the session's role may use
  Rate, MaxRate,  \* the price of a token, and a bound on it
  MaxTokens,      \* what one model request may use, at most
  MaxSideCost,    \* what the scouts, or the image, of one step may cost
  MaxSteps,       \* stopWhen: stepCountIs(maxSteps)
  PerRun,         \* limits.perRunUsd
  PerSession,     \* limits.perSessionUsd
  MaxSends,       \* turns over the whole run (bound)
  MaxRestarts     \* times the host process dies (bound)

ASSUME AgentAssumption ==
  /\ IsFiniteSet(Senders)
  /\ Permitted \subseteq Aliases
  /\ MaxRate \in Nat /\ Rate \in [Aliases -> 0..MaxRate]
  /\ MaxTokens \in Nat /\ MaxSideCost \in Nat /\ MaxSteps \in Nat \ {0}
  /\ PerRun \in Nat /\ PerSession \in Nat \ {0}

VARIABLES
  pc,             \* pc[s]: where s's turn is
  alias,          \* alias[s]: the model resolve() gave the turn
  steps,          \* steps[s]: model requests the turn has finished
  tokens,         \* tokens[s]: what they used, not yet recorded
  currentAlias,   \* Agent.currentAlias
  run, session,   \* Meter.run and Meter.session
  ledger,         \* the sum of the thread's cost_entries, on disk
  sends, restarts,
  billed,         \* history: what providers charged for models and scouts
  lost,           \* history: lost[s]: what no record will ever hold of it
  imageBilled,    \* history: what providers charged for images
  repriced        \* history: a turn was recorded at another model's rate

turnVars == <<pc, alias, steps, tokens>>
meterVars == <<run, session, ledger>>
billVars == <<billed, lost, imageBilled, repriced>>
vars == <<turnVars, currentAlias, meterVars, sends, restarts, billVars>>

(* "preparing": the next prepareStep is due.  "asking": a model request is  *)
(* in flight.  "calling": its tools run.  "ending": the stream is over and  *)
(* its usage awaited.  The rest are the verdicts of a finished turn.        *)
Underway == {"preparing", "asking", "calling", "ending"}
Verdicts == {"complete", "budget_exceeded", "error"}
Active(s) == pc[s] \in Underway

Init ==
  /\ pc = [s \in Senders |-> "unsent"]
  /\ currentAlias \in Aliases
  /\ alias = [s \in Senders |-> currentAlias]
  /\ steps = [s \in Senders |-> 0] /\ tokens = [s \in Senders |-> 0]
  /\ run = 0 /\ session = 0 /\ ledger = 0
  /\ sends = 0 /\ restarts = 0
  /\ billed = 0 /\ lost = [s \in Senders |-> 0] /\ imageBilled = 0 /\ repriced = FALSE

(* BudgetGuard.assertCanProceed does not throw. *)
CanProceed(runTotal) == runTotal < PerRun /\ session < PerSession

(* What s has used and nobody has recorded. *)
Unrecorded(s) == tokens[s] * Rate[alias[s]]
Loses(s, cost) == lost' = [lost EXCEPT ![s] = @ + cost]

(* Meter.record, and the cost.updated event the session puts in the ledger. *)
Record(cost) ==
  /\ run' = run + cost
  /\ session' = session + cost
  /\ ledger' = ledger + cost

(* The turn's locals go with it. *)
End(s, verdict) ==
  /\ pc' = [pc EXCEPT ![s] = verdict]
  /\ steps' = [steps EXCEPT ![s] = 0]
  /\ tokens' = [tokens EXCEPT ![s] = 0]
  /\ UNCHANGED alias

(* POST /api/chat: the route switches the model if asked to, send() resets  *)
(* the run total, and resolve() refuses a spent session or a forbidden      *)
(* model, all before the first await.                                       *)
Send(s, a) ==
  /\ ~Active(s) /\ sends < MaxSends
  /\ sends' = sends + 1
  /\ currentAlias' = a
  /\ run' = 0
  /\ alias' = [alias EXCEPT ![s] = a]
  /\ pc' = [pc EXCEPT ![s] = IF ~CanProceed(0) THEN "budget_exceeded"
                             ELSE IF a \notin Permitted THEN "error" ELSE "preparing"]
  /\ UNCHANGED <<steps, tokens, session, ledger, restarts, billVars>>

(* Mutant: only the first step of a turn is checked. *)
PrepareStepUnchecked(s) ==
  /\ pc[s] = "preparing"
  /\ \/ (steps[s] > 0 \/ CanProceed(run)) /\ pc' = [pc EXCEPT ![s] = "asking"]
        /\ UNCHANGED <<alias, steps, tokens, lost>>
     \/ ~(steps[s] > 0 \/ CanProceed(run)) /\ End(s, "budget_exceeded") /\ Loses(s, Unrecorded(s))
  /\ UNCHANGED <<currentAlias, meterVars, sends, restarts, billed, imageBilled, repriced>>

(* Mutant: a refused step is swallowed, and its turn left as it was. *)
PrepareStepSwallows(s) ==
  /\ pc[s] = "preparing"
  /\ CanProceed(run) /\ pc' = [pc EXCEPT ![s] = "asking"] /\ UNCHANGED <<alias, steps, tokens, lost>>
  /\ UNCHANGED <<currentAlias, meterVars, sends, restarts, billed, imageBilled, repriced>>

(* prepareStep: the ceiling first.  What a turn stopped here has used is    *)
(* never recorded: the stream's usage rejects.                              *)
PrepareStep(s) ==
  /\ pc[s] = "preparing"
  /\ \/ CanProceed(run) /\ pc' = [pc EXCEPT ![s] = "asking"] /\ UNCHANGED <<alias, steps, tokens, lost>>
     \/ ~CanProceed(run) /\ End(s, "budget_exceeded") /\ Loses(s, Unrecorded(s))
  /\ UNCHANGED <<currentAlias, meterVars, sends, restarts, billed, imageBilled, repriced>>

(* A model request returns, priced for the trace only: the model called     *)
(* tools, or has said what it had to say.                                   *)
StepFinished(s, used, calls) ==
  /\ pc[s] = "asking"
  /\ steps' = [steps EXCEPT ![s] = @ + 1]
  /\ tokens' = [tokens EXCEPT ![s] = @ + used]
  /\ pc' = [pc EXCEPT ![s] = IF calls THEN "calling" ELSE "ending"]
  /\ billed' = billed + used * Rate[alias[s]]
  /\ UNCHANGED <<alias, currentAlias, meterVars, sends, restarts, lost, imageBilled, repriced>>

(* Where the SDK's loop goes once the tools of a step have returned. *)
ToolsDone(s) ==
  /\ pc[s] = "calling"
  /\ pc' = [pc EXCEPT ![s] = IF steps[s] < MaxSteps THEN "preparing" ELSE "ending"]
  /\ UNCHANGED <<alias, steps, tokens, currentAlias, sends, restarts, repriced>>

(* The step's tools cost nothing, or fail before they cost anything. *)
ToolsReturn(s) == ToolsDone(s) /\ UNCHANGED <<meterVars, billed, lost, imageBilled>>

(* Mutant: the scouts' cost is metered and no cost.updated event is sent. *)
ScoutsReturnUnlogged(s, cost) ==
  /\ ToolsDone(s)
  /\ run' = run + cost /\ session' = session + cost
  /\ billed' = billed + cost
  /\ UNCHANGED <<ledger, lost, imageBilled>>

(* spawnSubagents: the scouts ran on gateways of their own, their reports   *)
(* were written, and their spend joins the session's.                       *)
ScoutsReturn(s, cost) ==
  /\ ToolsDone(s)
  /\ Record(cost)
  /\ billed' = billed + cost
  /\ UNCHANGED <<lost, imageBilled>>

(* Writing one report failed: Promise.all rejects before the cost of any    *)
(* scout is recorded.                                                       *)
ScoutReportFails(s, cost) ==
  /\ ToolsDone(s)
  /\ billed' = billed + cost /\ Loses(s, cost)
  /\ UNCHANGED <<meterVars, imageBilled>>

(* generateImage asks the guard and then pays without recording. *)
ImageReturns(s, cost) ==
  /\ ToolsDone(s)
  /\ CanProceed(run)
  /\ imageBilled' = imageBilled + cost
  /\ UNCHANGED <<meterVars, billed, lost>>

(* The stream is over: the turn's usage is recorded, once. *)
Complete(s) ==
  /\ pc[s] = "ending"
  /\ Record(tokens[s] * Rate[currentAlias])
  /\ repriced' = (repriced \/ Rate[currentAlias] # Rate[alias[s]])
  /\ End(s, "complete")
  /\ UNCHANGED <<currentAlias, sends, restarts, billed, lost, imageBilled>>

(* The catch of send(): a failed request, compaction or usage.  What the    *)
(* turn has used stays unrecorded.                                          *)
Fail(s) ==
  /\ pc[s] \in {"preparing", "asking", "ending"}
  /\ End(s, "error")
  /\ Loses(s, Unrecorded(s))
  /\ UNCHANGED <<currentAlias, meterVars, sends, restarts, billed, imageBilled, repriced>>

(* The host process dies.  The thread's next get() builds a gateway whose   *)
(* meter starts from zero; only the ledger was on disk.                     *)
Restart ==
  /\ restarts < MaxRestarts
  /\ restarts' = restarts + 1
  /\ pc' = [s \in Senders |-> "unsent"]
  /\ steps' = [s \in Senders |-> 0] /\ tokens' = [s \in Senders |-> 0]
  /\ run' = 0 /\ session' = 0
  /\ lost' = [s \in Senders |-> lost[s] + Unrecorded(s)]
  /\ UNCHANGED <<alias, currentAlias, ledger, sends, billed, imageBilled, repriced>>

Progress(s) ==
  \/ PrepareStep(s)
  \/ \E used \in 0..MaxTokens, calls \in BOOLEAN : StepFinished(s, used, calls)
  \/ ToolsReturn(s)
  \/ \E cost \in 1..MaxSideCost :
       ScoutsReturn(s, cost) \/ ScoutReportFails(s, cost) \/ ImageReturns(s, cost)
  \/ Complete(s)

Next ==
  \/ \E s \in Senders, a \in Aliases : Send(s, a)
  \/ \E s \in Senders : Progress(s) \/ Fail(s)
  \/ Restart

Spec == Init /\ [][Next]_vars

(* What the loop does by itself it does: it prepares a step that is due, and*)
(* the usage of a stream that is over resolves.  That a request or a tool   *)
(* comes back is not assumed: streamText is given no timeout, and a command *)
(* is waited for as long as somebody holds its output.                      *)
FairSpec == Spec /\ \A s \in Senders : WF_vars(PrepareStep(s) \/ Complete(s))

-----------------------------------------------------------------------------
(* Every variable has its kind; a turn's usage is that of its steps, and its*)
(* steps stay under stopWhen.                                               *)
TypeOK ==
  /\ pc \in [Senders -> Underway \cup Verdicts \cup {"unsent"}]
  /\ alias \in [Senders -> Aliases] /\ currentAlias \in Aliases
  /\ steps \in [Senders -> 0..MaxSteps] /\ tokens \in [Senders -> Nat]
  /\ \A s \in Senders :
       /\ tokens[s] <= steps[s] * MaxTokens
       /\ ~Active(s) => steps[s] = 0
       /\ pc[s] \in {"preparing", "asking"} => steps[s] < MaxSteps
  /\ run \in Nat /\ session \in Nat /\ ledger \in Nat
  /\ sends \in Nat /\ restarts \in Nat
  /\ billed \in Nat /\ lost \in [Senders -> Nat] /\ imageBilled \in Nat /\ repriced \in BOOLEAN

(* What one turn can still record after its last check: its own usage, once,*)
(* and the scouts of one step.                                              *)
TurnCeiling == MaxSteps * MaxTokens * MaxRate
LateCost == TurnCeiling + MaxSideCost

(* How far past perSessionUsd a session's meter can run: every turn that    *)
(* passed the check together adds all of its steps, not the last one only   *)
(* (BudgetGuard.assertCanProceed against Meter.record).                     *)
OvershootBounded == session < PerSession + Cardinality(Senders) * LateCost

(* Spent, and in no record: in flight, or dropped. *)
Owed == [s \in Senders |-> Unrecorded(s) + lost[s]]
NotInLedger == SumFunction(Owed)

(* The ledger holds what providers charged, less what is still in flight    *)
(* and what the code is known to drop (a refused or failed turn, a failed   *)
(* report, a crash); exactly so unless a turn ended at another model's rate.*)
LedgerMatchesBill == ~repriced => ledger + NotInLedger = billed

(* Every turn that passes the door gets a verdict (agent.ts: "A caller      *)
(* asking the agent to do something should always get a verdict"), unless   *)
(* it waits for ever for a model request or for the tools of one step.      *)
EveryTurnGetsVerdict ==
  \A s \in Senders : []<>(pc[s] \notin {"asking", "calling"}) => (Active(s) ~> ~Active(s))
=============================================================================
