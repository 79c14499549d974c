------------------------------ MODULE Transcript ------------------------------
(***************************************************************************)
(* What a turn's requests hold: the agent's history, the array the SDK     *)
(* grows with every step, and what prepareStep makes of it.                *)
(*   packages/core/src/agent.ts        send, prepareStep, switchModel      *)
(*   packages/session/src/manager.ts   persistToolOutput, summarise        *)
(*                                                                         *)
(* history has what a later turn will see: the words of both sides and the *)
(* files the user named, never a tool call.  The array begins as a copy of *)
(* it; each step adds the model's calls and their results, and prepareStep *)
(* condenses the array anew for each request, which leaves the array as it *)
(* was.  Two turns of one session have an array each and share history,    *)
(* which only grows, and the files of elided outputs, one per call, so one *)
(* turn at a time is enough here.                                          *)
(* An empty message is left out of a request by toModelMessages: history   *)
(* does not have it, and in a request it has no parts.                     *)
(***************************************************************************)
EXTENDS Condenser

CONSTANTS
  Vendors,
  MaxMessages,    \* messages of the two sides (bound)
  MaxCalls,       \* tool calls over the whole run (bound)
  Parallel        \* tool calls one step can make (bound)

ASSUME TranscriptAssumption ==
  Unknown \notin Vendors /\ Strict \subseteq Vendors /\ {MaxMessages, MaxCalls, Parallel} \subseteq Nat

VARIABLES
  history,        \* Agent.history, as toModelMessages would send it
  vendor,         \* of the model selected for the next turn
  turn,           \* where the turn is, and the vendor it resolved
  array,          \* the SDK's messages for the turn
  request,        \* the messages of the last request
  elided,         \* the calls whose output is in /.elided/<id>.json
  loaded,         \* history: the messages whose attachment this turn's send read
  said, calls,
  question        \* history variable: the message that began the turn

vars == <<history, vendor, turn, array, request, elided, loaded, said, calls, question>>

Parts == [kind : {"text", "file", "bytes", "missing", "reasoning", "call", "small", "big", "note"},
          of : Nat, by : Vendors \cup {Unknown}]
         \cup [kind : {"summary"}, words : SUBSET Nat]
Messages == [role : {"user", "assistant", "tool"}, parts : SUBSET Parts]

TypeOK ==
  /\ history \in Seq(Messages) /\ array \in Seq(Messages) /\ request \in Seq(Messages)
  /\ vendor \in Vendors
  /\ turn \in [at : {"idle", "preparing", "asked"}, vendor : Vendors \cup {Unknown}]
  /\ elided \subseteq Nat /\ loaded \subseteq Nat
  /\ said \in Nat /\ calls \in Nat /\ question \in Nat

Idle == [at |-> "idle", vendor |-> Unknown]

Init ==
  /\ history = <<>> /\ array = <<>> /\ request = <<>>
  /\ vendor \in Vendors /\ turn = Idle
  /\ elided = {} /\ loaded = {}
  /\ said = 0 /\ calls = 0 /\ question = 0

UserMessage(n, attached) ==
  Message("user", {Part("text", n, Unknown)} \cup (IF attached THEN {Part("file", n, Unknown)} ELSE {}))

(* The messages that came with a file. *)
Attached(messages) == {p.of : p \in UNION {OfKind(messages[i], {"file"}) : i \in DOMAIN messages}}

(* send, up to the SDK's loop: the user's message joins history, and the    *)
(* turn's array is a copy of history with the attachments that can be read. *)
(* Each is read anew in every turn, and each read can fail.                 *)
Send(attached, read) ==
  /\ turn.at = "idle" /\ said < MaxMessages
  /\ said' = said + 1 /\ question' = said + 1
  /\ history' = Append(history, UserMessage(said + 1, attached))
  /\ read \subseteq Attached(history') /\ loaded' = read
  /\ array' = ToModelMessages(history', read)
  /\ turn' = [at |-> "preparing", vendor |-> vendor]
  /\ request' = <<>>
  /\ UNCHANGED <<vendor, elided, calls>>

(* switchModel, as the chat route calls it: always at a "boundary".         *)
SwitchModel(v) ==
  /\ v # vendor /\ vendor' = v
  /\ UNCHANGED <<history, turn, array, request, elided, loaded, said, calls, question>>

(* prepareStep: from the array to the request.  A strict vendor would       *)
(* refuse the step, but no reasoning is known to be its own.                *)
PrepareStep ==
  LET outbound == FromModelMessages(array)
      condensed == Condense(outbound)
      prepared == StripForeignReasoning(condensed, turn.vendor)
  IN  /\ turn.at = "preparing"
      /\ Replayable(condensed, prepared, turn.vendor)
      /\ request' = prepared
      /\ elided' = elided \cup Persisted(outbound)
      /\ turn' = [turn EXCEPT !.at = "asked"]
      /\ UNCHANGED <<history, vendor, array, loaded, said, calls, question>>

TurnEnds == turn' = Idle /\ array' = <<>> /\ request' = <<>> /\ loaded' = {}

(* One of the files cannot be written: the step fails, and the turn.        *)
PersistFails ==
  LET wanted == Persisted(FromModelMessages(array))
  IN  /\ turn.at = "preparing"
      /\ \E written \in SUBSET wanted : written # wanted /\ elided' = elided \cup written
      /\ TurnEnds
      /\ UNCHANGED <<history, vendor, said, calls, question>>

(* The model asks for tools, thinking first or not, and they return.        *)
StepFinished(outputs, thinks) ==
  LET made == {calls + i : i \in DOMAIN outputs}
      Reasoning == IF thinks THEN {Part("reasoning", calls, turn.vendor)} ELSE {}
  IN  /\ turn.at = "asked" /\ calls + Len(outputs) <= MaxCalls
      /\ calls' = calls + Len(outputs)
      /\ array' = array \o <<Message("assistant", Reasoning \cup {Part("call", c, Unknown) : c \in made}),
                             Message("tool", {Part(outputs[i], calls + i, Unknown) : i \in DOMAIN outputs})>>
      /\ turn' = [turn EXCEPT !.at = "preparing"]
      /\ UNCHANGED <<history, vendor, request, elided, loaded, said, question>>

(* The model answers; an answer without words leaves nothing to send.       *)
Answer(words) ==
  /\ turn.at = "asked" /\ said < MaxMessages
  /\ said' = said + 1
  /\ history' = IF words THEN Append(history, Message("assistant", {Part("text", said + 1, Unknown)})) ELSE history
  /\ TurnEnds
  /\ UNCHANGED <<vendor, elided, calls, question>>

(* The turn fails: its question stays in history, and nothing else.         *)
Fail ==
  /\ turn.at # "idle" /\ TurnEnds
  /\ UNCHANGED <<history, vendor, elided, said, calls, question>>

Outputs == UNION {[1..n -> {"small", "big"}] : n \in 1..Parallel}

Next ==
  \/ \E attached \in BOOLEAN, read \in SUBSET (1..said + 1) : Send(attached, read)
  \/ \E v \in Vendors : SwitchModel(v)
  \/ PrepareStep
  \/ PersistFails
  \/ \E outputs \in Outputs, thinks \in BOOLEAN : StepFinished(outputs, thinks)
  \/ \E words \in BOOLEAN : Answer(words)
  \/ Fail

Spec == Init /\ [][Next]_vars

------------------------------------------------------------------------------
(* What a request must hold.                                                *)

(* Every tool message answers the calls of the message right before it, and *)
(* every call is answered right after: condenser.ts:181-184 says a provider *)
(* rejects anything else, and the verbatim tail begins wherever keepRecent  *)
(* puts it.                                                                 *)
Paired(messages) ==
  \A i \in 1..Len(messages) :
    /\ HasResult(messages[i]) => i > 1 /\ CallsOf(messages[i - 1]) = ResultsOf(messages[i])
    /\ HasCall(messages[i]) => i < Len(messages) /\ ResultsOf(messages[i + 1]) = CallsOf(messages[i])

CallsKeepResults == Paired(request)

(* What makes it inductive: the SDK's array is paired and opens with words, *)
(* because history never holds a call.                                      *)
Wordy(message) == ~HasCall(message) /\ ~HasResult(message)
ArrayIsPaired ==
  /\ \A i \in 1..Len(history) : Wordy(history[i])
  /\ Paired(array)
  /\ turn.at # "idle" => Len(array) > 0
  /\ Len(array) > 0 => Wordy(array[1])

(* The words, bytes, calls and outputs of the last KeepRecent messages, and *)
(* of the opening one, are in the request as the SDK has them, however much *)
(* is elided and summarised between: the model never loses what it is doing *)
(* to make room for what it did.                                            *)
Content(message) == {p \in message.parts : p.kind # "reasoning"}
Recent(messages) == {i \in 1..Len(messages) : i > Len(messages) - KeepRecent}
EndsAreVerbatim ==
  turn.at = "asked" =>
    /\ Content(request[1]) = Content(array[1])
    /\ \A i \in Recent(array) :
         LET j == i + Len(request) - Len(array)
         IN  j \in 1..Len(request) /\ Content(request[j]) = Content(array[i])

(* No large output of the turn is lost to compaction: it is in the request  *)
(* or its file has been written, and a reference in a request names a file  *)
(* that is there.                                                           *)
InRequest(kinds) == {p.of : p \in UNION {OfKind(request[i], kinds) : i \in 1..Len(request)}}
OutputsSurvive ==
  /\ turn.at = "asked" =>
       \A i \in 1..Len(array) : \A p \in OfKind(array[i], {"big"}) : p.of \in InRequest({"big"}) \cup elided
  /\ InRequest({"note"}) \subseteq elided

(* In every request that still has a message's words, the file they came with*)
(* is there beside them, or the note that it could not be read when the turn *)
(* began: the message has been through the SDK's types and back by then, and *)
(* the middle of it through the condenser (adapter.ts:86-105, 172-206).       *)
AttachmentsArrive ==
  turn.at = "asked" =>
    \A n \in InRequest({"text"}) \cap Attached(history) :
      n \in InRequest(IF n \in loaded THEN {"bytes"} ELSE {"missing"})

(* The model always has the question it is answering, in the user's words   *)
(* or in a summary's: what condenser.ts:26 says the head is kept verbatim   *)
(* for.                                                                     *)
Summarised == UNION {p.words : p \in UNION {OfKind(request[i], {"summary"}) : i \in 1..Len(request)}}
QuestionIsKept == turn.at = "asked" => question \in InRequest({"text"}) \cup Summarised

==============================================================================
