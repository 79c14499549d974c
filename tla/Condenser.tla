------------------------------ MODULE Condenser ------------------------------
(***************************************************************************)
(* What one step of a turn sends to the model, as a function of what the   *)
(* SDK holds:                                                              *)
(*   packages/core/src/adapter.ts      fromModelMessages, toModelMessages  *)
(*   packages/core/src/condenser.ts    condense and its two passes         *)
(*   packages/core/src/tokens.ts       the estimate that triggers them     *)
(*   packages/gateway-model/src/artifacts.ts   reasoning and vendors       *)
(*                                                                         *)
(* A message is a role and the set of its parts.  A part is [kind, of, by]: *)
(* of names the message whose words or file it is, or the tool call; by is *)
(* the vendor that made a reasoning part.  A tool result's kind says how   *)
(* large its output is: "small", "big", or "note" once a reference to a    *)
(* file stands for it.  A summary part has the words it still holds.       *)
(* Nothing here is pinned: fromModelMessages pins no message, and the      *)
(* policy travels outside the array, in the instructions.                  *)
(***************************************************************************)
EXTENDS Integers, Sequences, FiniteSets, FiniteSetsExt

CONSTANTS
  KeepRecent,     \* messages at the tail kept verbatim
  MaxTokens,      \* compaction runs above this estimate
  Size,           \* Size[kind]: estimated tokens of a part of that kind
  SummaryWords,   \* how many of the middle's texts a summary can hold
  Strict,         \* vendors that refuse history without their reasoning
  Unknown         \* the vendor of a part whose maker was not recorded

ASSUME KeepAssumption == KeepRecent \in Nat \ {0}

Part(kind, of, by) == [kind |-> kind, of |-> of, by |-> by]
Message(role, parts) == [role |-> role, parts |-> parts]

OfKind(message, kinds) == {p \in message.parts : p.kind \in kinds}
CallsOf(message) == {p.of : p \in OfKind(message, {"call"})}
ResultsOf(message) == {p.of : p \in OfKind(message, {"small", "big", "note"})}
HasCall(message) == CallsOf(message) # {}
HasResult(message) == ResultsOf(message) # {}

(* The estimate: what every part of every message is thought to take.       *)
Tokens(messages) ==
  MapThenSumSet(LAMBDA i : MapThenSumSet(LAMBDA p : Size[p.kind], messages[i].parts), DOMAIN messages)

Mapped(messages, F(_)) ==
  [i \in DOMAIN messages |-> Message(messages[i].role, {F(p) : p \in messages[i].parts})]

(* resolveAttachments: a file that can be read becomes its bytes ...        *)
WithBytes(messages, readable) ==
  LET Loaded(p) == IF p.kind = "file" /\ p.of \in readable THEN [p EXCEPT !.kind = "bytes"] ELSE p
  IN  Mapped(messages, Loaded)

(* ... and userContent says of one that could not that it is missing.       *)
WithNotes(messages) ==
  LET Noted(p) == IF p.kind = "file" THEN [p EXCEPT !.kind = "missing"] ELSE p
  IN  Mapped(messages, Noted)

(* toModelMessages: the other parts go over one for one.                    *)
ToModelMessages(messages, readable) == WithNotes(WithBytes(messages, readable))

(* Mutant: what comes back from the SDK keeps its text only. *)
FromModelMessagesText(array) ==
  [i \in DOMAIN array |-> [array[i] EXCEPT !.parts = {p \in @ : p.kind # "bytes"}]]

(* fromModelMessages: all of a message comes back, but who made a           *)
(* reasoning part, and its signature, are not in the SDK's part.            *)
FromModelMessages(array) ==
  LET Unlabelled(p) == IF p.kind = "reasoning" THEN [p EXCEPT !.by = Unknown] ELSE p
  IN  Mapped(array, Unlabelled)

(* Where the verbatim tail may begin: no result first in it, no call last   *)
(* before it.                                                               *)
Whole(history, b) ==
  b = 0 \/ (~HasResult(history[b + 1]) /\ ~HasCall(history[b]))

Latest(history) == IF Len(history) > KeepRecent THEN Len(history) - KeepRecent ELSE 0

(* Mutant: the tail has exactly the length asked for. *)
RecentBoundaryFixed(history) == Latest(history)

(* recentBoundary moves earlier, one message at a time, until it is whole:  *)
(* the messages after it are the tail.                                      *)
RecentBoundary(history) ==
  CHOOSE b \in 0..Latest(history) :
    Whole(history, b) /\ \A c \in 0..Latest(history) : Whole(history, c) => c <= b

(* Mutant: every large output becomes a reference. *)
ElidedBeforeAll(history) == Len(history)

(* The messages the lossless pass may touch. *)
ElidedBefore(history) == RecentBoundary(history)

(* The tool outputs the lossless pass writes to files ...                   *)
ToPersist(history) ==
  {p.of : p \in UNION {OfKind(history[i], {"big"}) : i \in 1..ElidedBefore(history)}}

(* ... and the messages with references in their place.                     *)
ElideToolOutputs(history) ==
  LET Elided(p) == IF p.kind = "big" THEN [p EXCEPT !.kind = "note"] ELSE p
      b == ElidedBefore(history)
  IN  [i \in DOMAIN history |->
         IF i > b THEN history[i]
         ELSE Message(history[i].role, {Elided(p) : p \in history[i].parts})]

(* The summary has the first of the middle's words, and nothing else of it. *)
Summary(middle) ==
  LET words == {p.of : p \in UNION {OfKind(middle[i], {"text"}) : i \in DOMAIN middle}}
  IN  Message("assistant", {[kind |-> "summary",
        words |-> {w \in words : Cardinality({v \in words : v < w}) < SummaryWords}]})

(* summariseMiddle: the opening message, one summary, the verbatim tail.    *)
SummariseMiddle(history) ==
  LET b == RecentBoundary(history)
  IN  IF b < 3 THEN history
      ELSE <<history[1], Summary(SubSeq(history, 2, b))>> \o SubSeq(history, b + 1, Len(history))

Over(messages) == Tokens(messages) > MaxTokens

(* condense: nothing while the estimate allows, references if they are      *)
(* enough, and a summary of what they leave otherwise.                      *)
Condense(history) ==
  LET elided == ElideToolOutputs(history)
  IN  IF ~Over(history) THEN history
      ELSE IF Over(elided) THEN SummariseMiddle(elided)
      ELSE elided

(* Mutant: references without the files they name. *)
PersistedNone(history) == {}

(* The calls whose outputs condense writes to files. *)
Persisted(history) == IF Over(history) THEN ToPersist(history) ELSE {}

(* stripForeignReasoning: a reasoning part of another vendor cannot go.     *)
StripForeignReasoning(messages, vendor) ==
  [i \in DOMAIN messages |->
    Message(messages[i].role, {p \in messages[i].parts : p.kind = "reasoning" => p.by = vendor})]

OwnSignatures(messages, vendor) ==
  UNION {{i} \X {p \in OfKind(messages[i], {"reasoning"}) : p.by = vendor} : i \in DOMAIN messages}

(* assertReplayable: a strict vendor's own reasoning is all still there.    *)
Replayable(before, after, vendor) ==
  vendor \in Strict => Cardinality(OwnSignatures(after, vendor)) >= Cardinality(OwnSignatures(before, vendor))

==============================================================================
