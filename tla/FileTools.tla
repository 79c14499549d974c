------------------------------ MODULE FileTools ------------------------------
(***************************************************************************)
(* The tools that change one workspace file, and the snapshots that make   *)
(* the change undoable:                                                    *)
(*   packages/session/src/tools.ts         writeFile                       *)
(*   packages/session/src/tools-edit.ts    editFile, restoreFile           *)
(*   packages/session/src/checkpoints.ts   snapshot, restore               *)
(*                                                                         *)
(* The calls of one model step run concurrently, and two turns may run at  *)
(* once: Callers is how many tool calls can be under way on the file.  Each *)
(* await on the workspace is a step.  A file's text is a word per line, so  *)
(* that a search string can occur never, once or several times.  Nothing   *)
(* here deletes the file, so a call that has seen it exist still does.     *)
(***************************************************************************)
EXTENDS Integers, FiniteSets

CONSTANTS
  Callers,        \* tool calls that can be under way together
  Lines, Words,   \* a text is a function from lines to words
  Absent,         \* there is no such file
  MaxCalls,       \* calls over the whole run (bound)
  MaxTime         \* milliseconds Date.now() can show (bound)

Texts == [Lines -> Words]

ASSUME FileAssumption == Absent \notin Texts /\ MaxCalls \in Nat /\ MaxTime \in Nat

VARIABLES
  file,           \* the file's text, or Absent
  checkpoints,    \* checkpoints[t]: the text of `${t}.bak`
  clock,          \* Date.now()
  call,           \* call[c]: the tool call c makes, where it is, its locals
  calls,
  original,       \* history: the text before any call
  overwritten,    \* history: the texts a tool has written over
  previous,       \* history: the one the last finished call wrote over, if any
  unasked,        \* history: writeFile overwrote a file without asking
  overlapped,     \* history: a call began while another was under way
  collided        \* history: a snapshot was written over another

historyVars == <<original, overwritten, previous, unasked, overlapped, collided>>
vars == <<file, checkpoints, clock, call, calls, historyVars>>

Taken == DOMAIN checkpoints
Kept == {checkpoints[t] : t \in Taken}

(* A call's locals: what it will write, and from its snapshot the time that *)
(* names the copy and the bytes in it; a restore's target.                  *)
Idle == [at |-> "idle", tool |-> "none", text |-> Absent, stamp |-> 0, copy |-> Absent, target |-> 0]
Calls == [at : {"idle", "asking", "stamping", "copying", "keeping", "reading", "writing"},
          tool : {"none", "editFile", "writeFile", "restoreFile"},
          text : Texts \cup {Absent}, stamp : 0..MaxTime, copy : Texts \cup {Absent}, target : 0..MaxTime]

Init ==
  /\ file \in Texts \cup {Absent} /\ original = file
  /\ checkpoints = [t \in {} |-> file]
  /\ clock = 0 /\ calls = 0
  /\ call = [c \in Callers |-> Idle]
  /\ overwritten = {} /\ previous = Absent
  /\ unasked = FALSE /\ overlapped = FALSE /\ collided = FALSE

(* A tool call begins; its first look at the file decided where it goes.    *)
Begin(c, place, tool, text, target) ==
  /\ call[c].at = "idle" /\ calls < MaxCalls
  /\ calls' = calls + 1
  /\ call' = [call EXCEPT ![c] =
                 [at |-> place, tool |-> tool, text |-> text, stamp |-> 0, copy |-> Absent, target |-> target]]
  /\ overlapped' = (overlapped \/ \E d \in Callers : call[d].at # "idle")
  /\ UNCHANGED <<file, checkpoints, clock, original, overwritten, previous, unasked, collided>>

Occurrences(before, old) == Cardinality({l \in Lines : before[l] = old})
Replaced(before, old, new) == [l \in Lines |-> IF before[l] = old THEN new ELSE before[l]]

(* editFile, up to its snapshot: refused when the file or the string is not *)
(* there, when nothing would change, and when a match is ambiguous.         *)
EditFile(c, old, new, replaceAll) ==
  /\ file # Absent /\ old # new
  /\ Occurrences(file, old) > 0
  /\ Occurrences(file, old) = 1 \/ replaceAll
  /\ Begin(c, "stamping", "editFile", Replaced(file, old, new), 0)

(* Mutant: every write counts as a new file. *)
WriteFileUnasked(c, contents) == Begin(c, "writing", "writeFile", contents, 0)

(* writeFile, up to its first await: only an overwrite asks. *)
WriteFile(c, contents) ==
  Begin(c, IF file = Absent THEN "writing" ELSE "asking", "writeFile", contents, 0)

(* restoreFile: back to the latest snapshot, or to one it names.  What is   *)
(* in it is read only after the snapshot of the current text.               *)
RestoreFile(c, t) == t \in Taken /\ Begin(c, "stamping", "restoreFile", Absent, t)

(* One await of c's is over. *)
Steps(c, from, next) ==
  /\ call[c].at = from
  /\ call' = [call EXCEPT ![c] = next]
  /\ UNCHANGED <<clock, calls, original, overlapped>>

(* Mutant: an overwrite the user approved is not snapshotted. *)
DecideUnkept(c, decision) ==
  /\ Steps(c, "asking", IF decision = "deny" THEN Idle ELSE [call[c] EXCEPT !.at = "writing"])
  /\ UNCHANGED <<file, checkpoints, overwritten, previous, unasked, collided>>

(* The approval gate answers: a denied overwrite is over, an approved one   *)
(* is snapshotted first.                                                    *)
Decide(c, decision) ==
  /\ Steps(c, "asking", IF decision = "deny" THEN Idle ELSE [call[c] EXCEPT !.at = "stamping"])
  /\ UNCHANGED <<file, checkpoints, overwritten, previous, unasked, collided>>

(* snapshot: the copy's name is settled before the file is read ... *)
Stamp(c) ==
  /\ Steps(c, "stamping", [call[c] EXCEPT !.at = "copying", !.stamp = clock])
  /\ UNCHANGED <<file, checkpoints, overwritten, previous, unasked, collided>>

(* ... and its bytes before the copy is written. *)
Copy(c) ==
  /\ Steps(c, "copying", [call[c] EXCEPT !.at = "keeping", !.copy = file])
  /\ UNCHANGED <<file, checkpoints, overwritten, previous, unasked, collided>>

(* Once the copy is kept, a restore reads what it restores.               *)
AfterKeep(c) == [call[c] EXCEPT !.at = IF call[c].tool = "restoreFile" THEN "reading" ELSE "writing"]

(* Mutant: a new snapshot takes the place of the older ones. *)
KeepOnly(c) ==
  /\ Steps(c, "keeping", AfterKeep(c))
  /\ checkpoints' = [t \in {call[c].stamp} |-> call[c].copy]
  /\ collided' = (collided \/ call[c].stamp \in Taken)
  /\ UNCHANGED <<file, overwritten, previous, unasked>>

(* The copy is written, over any other taken in the same millisecond. *)
Keep(c) ==
  /\ Steps(c, "keeping", AfterKeep(c))
  /\ checkpoints' = [t \in Taken \cup {call[c].stamp} |->
                        IF t = call[c].stamp THEN call[c].copy ELSE checkpoints[t]]
  /\ collided' = (collided \/ call[c].stamp \in Taken)
  /\ UNCHANGED <<file, overwritten, previous, unasked>>

(* restore: readBytes(target.checkpointPath). *)
ReadTarget(c) ==
  /\ Steps(c, "reading", [call[c] EXCEPT !.at = "writing", !.text = checkpoints[call[c].target]])
  /\ UNCHANGED <<file, checkpoints, overwritten, previous, unasked, collided>>

(* workspace.write, over whatever the file holds by now. *)
Write(c) ==
  /\ Steps(c, "writing", Idle)
  /\ file' = call[c].text
  /\ overwritten' = overwritten \cup ({file} \ {Absent, call[c].text})
  /\ previous' = file
  /\ unasked' = (unasked \/ (call[c].copy = Absent /\ file # Absent))
  /\ UNCHANGED <<checkpoints, collided>>

(* The write is refused: a full disk, a path that is no longer writable.    *)
WriteFails(c) ==
  /\ Steps(c, "writing", Idle)
  /\ previous' = Absent
  /\ UNCHANGED <<file, checkpoints, overwritten, unasked, collided>>

Tick ==
  /\ clock < MaxTime
  /\ clock' = clock + 1
  /\ UNCHANGED <<file, checkpoints, call, calls, historyVars>>

Next ==
  \/ Tick
  \/ \E c \in Callers :
       \/ \E old, new \in Words, replaceAll \in BOOLEAN : EditFile(c, old, new, replaceAll)
       \/ \E contents \in Texts : WriteFile(c, contents)
       \/ \E t \in Taken : RestoreFile(c, t)
       \/ \E decision \in {"allow", "deny"} : Decide(c, decision)
       \/ Stamp(c) \/ Copy(c) \/ Keep(c) \/ ReadTarget(c)
       \/ Write(c) \/ WriteFails(c)

Spec == Init /\ [][Next]_vars

-----------------------------------------------------------------------------
(* Every variable has its kind; a write under way has a text to write, and  *)
(* no snapshot is from the future.                                          *)
TypeOK ==
  /\ file \in Texts \cup {Absent} /\ original \in Texts \cup {Absent}
  /\ clock \in 0..MaxTime /\ calls \in 0..MaxCalls
  /\ Taken \subseteq 0..clock /\ Kept \subseteq Texts
  /\ call \in [Callers -> Calls]
  /\ \A c \in Callers : call[c].at = "writing" => call[c].text \in Texts
  /\ overwritten \subseteq Texts /\ previous \in Texts \cup {Absent}
  /\ unasked \in BOOLEAN /\ overlapped \in BOOLEAN /\ collided \in BOOLEAN

(* An edit, an approved overwrite and an undo lose nothing: as long as no   *)
(* two calls overlapped and no two snapshots fell in one millisecond, every *)
(* text written over is in a snapshot (checkpoints.ts: "An edit that can be *)
(* undone is not irreversible").                                            *)
UndoHoldsEverything == ~overlapped /\ ~collided => overwritten \subseteq Kept

(* The text the agent found is never lost, however its calls overlap, unless*)
(* two snapshots fell in one millisecond.                                   *)
OriginalIsKept == ~collided /\ original # Absent => original \in Kept \cup {file}

(* "Most recent snapshot first, so undo means the obvious thing": between   *)
(* calls, the latest snapshot holds what the last call wrote over.          *)
UndoIsTheLastChange ==
  (~overlapped /\ ~collided /\ previous # Absent /\ \A c \in Callers : call[c].at = "idle")
    => \E t \in Taken : (\A u \in Taken : u <= t) /\ checkpoints[t] = previous

(* writeFile overwrites without asking only a file that another call made   *)
(* after it looked.                                                         *)
OverwritesAreAsked == unasked => overlapped

(* What README.md and checkpoints.ts say of edits, for a file that exists   *)
(* and snapshots whose names are their own: they are undoable.              *)
EditsAreUndoable == ~collided /\ original # Absent => overwritten \subseteq Kept
=============================================================================
