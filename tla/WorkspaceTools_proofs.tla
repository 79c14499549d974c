------------------------ MODULE WorkspaceTools_proofs ------------------------
(***************************************************************************)
(* For any calls, texts, documents, scripts and commands: what             *)
(* WorkspaceTools.cfg checks on a small instance.                          *)
(*                                                                         *)
(* Files.  A call that is about to write has kept the text it will write   *)
(* over: while it is alone, that text is the file's (Fresh) and the latest *)
(* snapshot's (Named).  Before the first snapshot is kept, whoever keeps   *)
(* one has the text the agent found, and nobody is about to write (Finds). *)
(*                                                                         *)
(* Documents.  Two calls at work on base names of one family have met, so  *)
(* one that has met no other is alone at its path and in its pictures:     *)
(* while no removal failed it, the PDF is its own from the conversion on,  *)
(* and so are the pages after the clearing (FindsItsOwn).                  *)
(*                                                                         *)
(* Python.  While no other call has its label, a call's script is its own  *)
(* from the writing on (Runs), and what it listed before its run tells     *)
(* what the run made (Claims).                                             *)
(*                                                                         *)
(* Commands.  A process is found in no group and at no pipe that its       *)
(* parent has left (LetsGo), and there is no process where there is no     *)
(* container, which is when one can be started (Contained, Older).         *)
(*                                                                         *)
(* The last part puts them together: a behaviour of the four tools is a    *)
(* behaviour of each, so what is proved of one holds of all.               *)
(***************************************************************************)
EXTENDS WorkspaceTools, FiniteSetTheorems, TLAPS

-----------------------------------------------------------------------------
(* The files.                                                               *)
Late == {"reading", "writing"}

(* What a call's record says, wherever the other calls are.                 *)
Sound(k) ==
  /\ k.at \in {"asking", "stamping", "copying", "keeping", "reading"} => file # Absent
  /\ k.at # "idle" /\ k.tool # "restoreFile" => k.text \in Texts
  /\ k.at # "idle" /\ k.tool = "restoreFile" => k.target \in Taken
  /\ k.at = "reading" => k.tool = "restoreFile"
  /\ k.at = "writing" => k.text \in Texts
  /\ k.at \in {"copying", "keeping"} => k.stamp <= clock
  /\ k.at = "keeping" => k.copy \in Texts

Fresh(k) == k.at \in {"keeping", "reading", "writing"} => k.copy = file

Last(text) == \E t \in Taken : (\A u \in Taken : u <= t) /\ checkpoints[t] = text

Named(k) ==
  /\ k.at \in {"copying", "keeping"} => \A u \in Taken : u <= k.stamp
  /\ k.at \in Late /\ k.copy # Absent => Last(k.copy)

Finds(k) == k.at \notin Late /\ (k.at = "keeping" => k.copy = original)

Kinds ==
  /\ TypeOK
  /\ checkpoints \in [Taken -> Texts]
  /\ Taken # {} => file # Absent
  /\ \A c \in Callers : Sound(call[c])

Alone ==
  ~overlapped =>
    /\ \A c, d \in Callers : call[c].at # "idle" /\ call[d].at # "idle" => c = d
    /\ \A c \in Callers : Fresh(call[c])

Undone ==
  ~overlapped /\ ~collided =>
    /\ \A c \in Callers : Named(call[c])
    /\ overwritten \subseteq Kept
    /\ previous # Absent /\ (\A c \in Callers : call[c].at \notin Late) => Last(previous)

Found ==
  ~collided /\ original # Absent =>
    /\ file # Absent
    /\ original \notin Kept => file = original /\ \A c \in Callers : Finds(call[c])

IInv == Kinds /\ Alone /\ Undone /\ OverwritesAreAsked /\ Found

-----------------------------------------------------------------------------
LEMMA AbsentIsNoText == Absent \notin Texts
BY FileAssumption

LEMMA IdleIsCall ==
  /\ Idle \in Calls /\ Idle.at = "idle"
BY FileAssumption DEF Idle, Calls

LEMMA LastIsKept == ASSUME NEW text, Last(text) PROVE text \in Kept
BY DEF Last, Kept

LEMMA InitIInv == Init => IInv
<1> SUFFICES ASSUME Init PROVE IInv
  OBVIOUS
<1>1. Taken = {} /\ Kept = {} /\ checkpoints \in [Taken -> Texts]
  BY DEF Init, Taken, Kept
<1>2. \A c \in Callers : call[c] = Idle /\ call[c].at = "idle"
  BY IdleIsCall DEF Init
<1>3. 0 \in 0..MaxTime /\ 0 \in 0..MaxCalls
  BY FileAssumption
<1>4. TypeOK
  <2>1. call \in [Callers -> Calls]
    BY IdleIsCall DEF Init
  <2>2. \A c \in Callers : call[c].at # "writing"
    BY <1>2
  <2>3. /\ file \in Texts \cup {Absent} /\ original \in Texts \cup {Absent}
        /\ clock = 0 /\ calls = 0 /\ overwritten = {} /\ previous = Absent
        /\ unasked = FALSE /\ overlapped = FALSE /\ collided = FALSE
    BY DEF Init
  <2> QED BY <1>1, <1>3, <2>1, <2>2, <2>3 DEF TypeOK
<1>5. Kinds
  BY <1>1, <1>2, <1>4 DEF Kinds, Sound
<1>6. Alone /\ Undone /\ OverwritesAreAsked /\ Found
  BY <1>1, <1>2 DEF Init, Alone, Undone, OverwritesAreAsked, Found, Fresh, Named, Finds, Late
<1> QED BY <1>5, <1>6 DEF IInv

(* A step of one call that leaves the file and the snapshots as they are.   *)
LEMMA QuietStep ==
  ASSUME IInv, NEW c \in Callers, NEW r \in Calls,
         call' = [call EXCEPT ![c] = r], call[c].at # "idle",
         UNCHANGED <<file, checkpoints, clock, calls, original, overwritten, previous, unasked, overlapped, collided>>,
         Sound(r), r.at \in Late <=> call[c].at \in Late,
         ~overlapped => Fresh(r),
         ~overlapped /\ ~collided => Named(r),
         file = original /\ Finds(call[c]) => Finds(r)
  PROVE  IInv'
<1>1. call \in [Callers -> Calls] /\ call' \in [Callers -> Calls]
  BY DEF IInv, Kinds, TypeOK
<1>2. call'[c] = r /\ \A d \in Callers \ {c} : call'[d] = call[d]
  BY <1>1
<1>3. Taken' = Taken /\ Kept' = Kept
  BY DEF Taken, Kept
<1>4. \A d \in Callers : Sound(call[d])'
  <2> TAKE d \in Callers
  <2>1. Sound(call[d])
    BY DEF IInv, Kinds
  <2>2. CASE d = c
    BY <1>2, <1>3, <2>2 DEF Sound
  <2>3. CASE d # c
    BY <1>2, <1>3, <2>1, <2>3 DEF Sound
  <2> QED BY <2>2, <2>3
<1>5. Kinds'
  <2>1. \A d \in Callers : call'[d].at = "writing" => call'[d].text \in Texts
    BY <1>4 DEF Sound
  <2>2. TypeOK'
    BY <1>1, <1>3, <2>1 DEF IInv, Kinds, TypeOK
  <2>3. checkpoints' \in [Taken' -> Texts] /\ (Taken' # {} => file' # Absent)
    BY <1>3 DEF IInv, Kinds
  <2> QED BY <1>4, <2>2, <2>3 DEF Kinds
<1>6. Alone'
  <2> SUFFICES ASSUME ~overlapped PROVE Alone'
    BY DEF Alone
  <2>1. \A d, e \in Callers : call'[d].at # "idle" /\ call'[e].at # "idle" => d = e
    BY <1>2 DEF IInv, Alone
  <2>2. \A d \in Callers : Fresh(call[d])'
    BY <1>2 DEF IInv, Alone, Fresh
  <2> QED BY <2>1, <2>2 DEF Alone
<1>7. Undone'
  <2> SUFFICES ASSUME ~overlapped, ~collided PROVE Undone'
    BY DEF Undone
  <2>1. \A d \in Callers : Named(call[d]) /\ Named(r)
    BY DEF IInv, Undone
  <2>2. \A text : Last(text)' <=> Last(text)
    BY <1>3 DEF Last
  <2>3. \A d \in Callers : Named(call[d])'
    BY <1>2, <1>3, <2>1 DEF Named, Last
  <2>4. (\A d \in Callers : call'[d].at \notin Late) => \A d \in Callers : call[d].at \notin Late
    BY <1>2
  <2>5. previous' # Absent /\ (\A d \in Callers : call'[d].at \notin Late) => Last(previous)'
    BY <1>3, <2>4 DEF IInv, Undone, Last
  <2>6. overwritten' \subseteq Kept'
    BY <1>3 DEF IInv, Undone
  <2> QED BY <2>3, <2>5, <2>6 DEF Undone
<1>8. Found'
  <2> SUFFICES ASSUME ~collided, original # Absent PROVE Found'
    BY DEF Found
  <2>1. file' # Absent
    BY DEF IInv, Found
  <2>2. ASSUME original \notin Kept PROVE file = original /\ \A d \in Callers : Finds(call[d])'
    <3>1. file = original /\ \A d \in Callers : Finds(call[d])
      BY <2>2 DEF IInv, Found
    <3>2. \A d \in Callers : Finds(call[d])'
      BY <1>2, <3>1 DEF Finds
    <3> QED BY <3>1, <3>2
  <2> QED BY <1>3, <2>1, <2>2 DEF Found
<1>9. OverwritesAreAsked'
  BY DEF IInv, OverwritesAreAsked
<1> QED BY <1>5, <1>6, <1>7, <1>8, <1>9 DEF IInv

-----------------------------------------------------------------------------
Places == {"idle", "asking", "stamping", "copying", "keeping", "reading", "writing"}

LEMMA MovedTo ==
  ASSUME NEW k \in Calls, NEW at \in Places
  PROVE  LET r == [k EXCEPT !.at = at]
         IN  /\ r \in Calls /\ r.at = at /\ r.tool = k.tool /\ r.text = k.text
             /\ r.stamp = k.stamp /\ r.copy = k.copy /\ r.target = k.target
BY DEF Calls, Places

LEMMA Stamped ==
  ASSUME NEW k \in Calls, NEW stamp \in 0..MaxTime
  PROVE  LET r == [k EXCEPT !.at = "copying", !.stamp = stamp]
         IN  /\ r \in Calls /\ r.at = "copying" /\ r.tool = k.tool /\ r.text = k.text
             /\ r.stamp = stamp /\ r.copy = k.copy /\ r.target = k.target
BY DEF Calls

LEMMA Copied ==
  ASSUME NEW k \in Calls, NEW copy \in Texts \cup {Absent}
  PROVE  LET r == [k EXCEPT !.at = "keeping", !.copy = copy]
         IN  /\ r \in Calls /\ r.at = "keeping" /\ r.tool = k.tool /\ r.text = k.text
             /\ r.stamp = k.stamp /\ r.copy = copy /\ r.target = k.target
BY DEF Calls

LEMMA Aimed ==
  ASSUME NEW k \in Calls, NEW text \in Texts \cup {Absent}
  PROVE  LET r == [k EXCEPT !.at = "writing", !.text = text]
         IN  /\ r \in Calls /\ r.at = "writing" /\ r.tool = k.tool /\ r.text = text
             /\ r.stamp = k.stamp /\ r.copy = k.copy /\ r.target = k.target
BY DEF Calls

(* What is known of a call under way.                                       *)
LEMMA OfCall ==
  ASSUME IInv, NEW c \in Callers
  PROVE  /\ call \in [Callers -> Calls] /\ call[c] \in Calls /\ Sound(call[c])
         /\ ~overlapped => Fresh(call[c])
         /\ ~overlapped /\ ~collided => Named(call[c])
BY DEF IInv, Kinds, TypeOK, Alone, Undone

LEMMA DecideKeeps == ASSUME IInv, NEW c \in Callers, NEW decision, Decide(c, decision) PROVE IInv'
<1> DEFINE r == IF decision = "deny" THEN Idle ELSE [call[c] EXCEPT !.at = "stamping"]
<1>1. /\ call[c].at = "asking" /\ call' = [call EXCEPT ![c] = r]
      /\ UNCHANGED <<file, checkpoints, clock, calls, original, overwritten, previous, unasked, overlapped, collided>>
  BY DEF Decide, Steps
<1>2. /\ r \in Calls /\ r.at \in {"idle", "stamping"}
      /\ r.at # "idle" => r.tool = call[c].tool /\ r.text = call[c].text /\ r.target = call[c].target
  <2>1. CASE decision = "deny"
    BY <2>1, IdleIsCall
  <2>2. CASE decision # "deny"
    <3>1. "stamping" \in Places /\ call[c] \in Calls
      BY OfCall DEF Places
    <3> QED BY <2>2, <3>1, MovedTo
  <2> QED BY <2>1, <2>2
<1> HIDE DEF r
<1>3. Sound(r) /\ Fresh(r) /\ Named(r) /\ Finds(r)
  BY <1>1, <1>2, OfCall DEF Sound, Fresh, Named, Finds, Late
<1>4. r.at \in Late <=> call[c].at \in Late
  BY <1>1, <1>2 DEF Late
<1> QED BY <1>1, <1>2, <1>3, <1>4, QuietStep

LEMMA StampKeeps == ASSUME IInv, NEW c \in Callers, Stamp(c) PROVE IInv'
<1> DEFINE r == [call[c] EXCEPT !.at = "copying", !.stamp = clock]
<1>1. /\ call[c].at = "stamping" /\ call' = [call EXCEPT ![c] = r]
      /\ UNCHANGED <<file, checkpoints, clock, calls, original, overwritten, previous, unasked, overlapped, collided>>
  BY DEF Stamp, Steps
<1>2. clock \in 0..MaxTime /\ \A u \in Taken : u <= clock
  BY DEF IInv, Kinds, TypeOK
<1>3. /\ r \in Calls /\ r.at = "copying" /\ r.tool = call[c].tool /\ r.text = call[c].text
      /\ r.stamp = clock /\ r.target = call[c].target
  BY <1>2, OfCall, Stamped
<1> HIDE DEF r
<1>4. clock <= clock
  BY <1>2, FileAssumption
<1>5. Sound(r)
  BY <1>1, <1>3, <1>4, OfCall DEF Sound
<1>6. Fresh(r) /\ Named(r) /\ Finds(r)
  BY <1>2, <1>3 DEF Fresh, Named, Finds, Late
<1>7. r.at \in Late <=> call[c].at \in Late
  BY <1>1, <1>3 DEF Late
<1> QED BY <1>1, <1>3, <1>5, <1>6, <1>7, QuietStep

LEMMA CopyKeeps == ASSUME IInv, NEW c \in Callers, Copy(c) PROVE IInv'
<1> DEFINE r == [call[c] EXCEPT !.at = "keeping", !.copy = file]
<1>1. /\ call[c].at = "copying" /\ call' = [call EXCEPT ![c] = r]
      /\ UNCHANGED <<file, checkpoints, clock, calls, original, overwritten, previous, unasked, overlapped, collided>>
  BY DEF Copy, Steps
<1>2. file \in Texts
  BY <1>1, OfCall DEF IInv, Kinds, TypeOK, Sound
<1>3. /\ r \in Calls /\ r.at = "keeping" /\ r.tool = call[c].tool /\ r.text = call[c].text
      /\ r.stamp = call[c].stamp /\ r.copy = file /\ r.target = call[c].target
  BY <1>2, OfCall, Copied
<1> HIDE DEF r
<1>4. Sound(r) /\ Fresh(r)
  BY <1>1, <1>2, <1>3, OfCall DEF Sound, Fresh
<1>5. ~overlapped /\ ~collided => Named(r)
  BY <1>1, <1>3, OfCall DEF Named, Late
<1>6. file = original => Finds(r)
  BY <1>3 DEF Finds, Late
<1>7. r.at \in Late <=> call[c].at \in Late
  BY <1>1, <1>3 DEF Late
<1> QED BY <1>1, <1>3, <1>4, <1>5, <1>6, <1>7, QuietStep

LEMMA ReadTargetKeeps == ASSUME IInv, NEW c \in Callers, ReadTarget(c) PROVE IInv'
<1> DEFINE text == checkpoints[call[c].target]
           r == [call[c] EXCEPT !.at = "writing", !.text = text]
<1>1. /\ call[c].at = "reading" /\ call' = [call EXCEPT ![c] = r]
      /\ UNCHANGED <<file, checkpoints, clock, calls, original, overwritten, previous, unasked, overlapped, collided>>
  BY DEF ReadTarget, Steps
<1>2. text \in Texts
  <2>1. call[c].target \in Taken
    BY <1>1, OfCall DEF Sound
  <2>2. checkpoints \in [Taken -> Texts]
    BY DEF IInv, Kinds
  <2> QED BY <2>1, <2>2
<1> HIDE DEF text
<1>3. /\ r \in Calls /\ r.at = "writing" /\ r.tool = call[c].tool /\ r.text = text
      /\ r.copy = call[c].copy /\ r.target = call[c].target
  <2>1. text \in Texts \cup {Absent} /\ call[c] \in Calls
    BY <1>2, OfCall
  <2> QED BY <2>1, Aimed
<1> HIDE DEF r
<1>4. Sound(r)
  BY <1>1, <1>2, <1>3, OfCall DEF Sound
<1>5. (~overlapped => Fresh(r)) /\ (~overlapped /\ ~collided => Named(r))
  BY <1>1, <1>3, OfCall DEF Fresh, Named, Late
<1>6. ~Finds(call[c])
  BY <1>1 DEF Finds, Late
<1>7. r.at \in Late <=> call[c].at \in Late
  BY <1>1, <1>3 DEF Late
<1> QED BY <1>1, <1>3, <1>4, <1>5, <1>6, <1>7, QuietStep

-----------------------------------------------------------------------------
(* A call begins: it writes at once only when there is no file.             *)
LEMMA BeginKeeps ==
  ASSUME IInv, NEW c \in Callers, NEW place \in {"asking", "stamping", "writing"},
         NEW tool \in {"editFile", "writeFile", "restoreFile"},
         NEW text \in Texts \cup {Absent}, NEW target \in 0..MaxTime,
         Begin(c, place, tool, text, target),
         place = "writing" <=> file = Absent,
         tool # "restoreFile" => text \in Texts,
         tool = "restoreFile" => target \in Taken /\ place = "stamping"
  PROVE  IInv'
<1> DEFINE r == [at |-> place, tool |-> tool, text |-> text, stamp |-> 0, copy |-> Absent, target |-> target]
<1>1. r \in Calls
  <2>1. 0 \in 0..MaxTime
    BY FileAssumption
  <2> QED BY <2>1 DEF Calls
<1>2. call' = [call EXCEPT ![c] = r]
  BY DEF Begin
<1>3. r.at = place /\ r.tool = tool /\ r.text = text /\ r.copy = Absent /\ r.target = target
  OBVIOUS
<1> HIDE DEF r
<1>4. /\ UNCHANGED <<file, checkpoints, clock, original, overwritten, previous, unasked, collided>>
      /\ call[c].at = "idle" /\ calls < MaxCalls /\ calls' = calls + 1
      /\ overlapped' = (overlapped \/ \E d \in Callers : call[d].at # "idle")
  BY DEF Begin
<1>5. /\ call \in [Callers -> Calls] /\ call' \in [Callers -> Calls]
      /\ call'[c] = r /\ \A d \in Callers \ {c} : call'[d] = call[d]
  BY <1>1, <1>2, OfCall
<1>6. Taken' = Taken /\ Kept' = Kept
  BY <1>4 DEF Taken, Kept
<1>7. overlapped' \in BOOLEAN /\ (overlapped => overlapped')
      /\ (~overlapped' => ~overlapped /\ \A d \in Callers : call[d].at = "idle")
  BY <1>4
<1>8. Sound(r) /\ Fresh(r) /\ Named(r)
  BY <1>3 DEF Sound, Fresh, Named, Late
<1>9. \A d \in Callers : Sound(call[d])'
  <2> TAKE d \in Callers
  <2>1. Sound(call[d])
    BY OfCall
  <2>2. CASE d = c
    BY <1>4, <1>5, <1>6, <1>8, <2>2 DEF Sound
  <2>3. CASE d # c
    BY <1>4, <1>5, <1>6, <2>1, <2>3 DEF Sound
  <2> QED BY <2>2, <2>3
<1>10. Kinds'
  <2>1. \A d \in Callers : call'[d].at = "writing" => call'[d].text \in Texts
    BY <1>9 DEF Sound
  <2>2. calls' \in 0..MaxCalls
    BY <1>4, FileAssumption DEF IInv, Kinds, TypeOK
  <2>3. TypeOK'
    BY <1>4, <1>5, <1>6, <1>7, <2>1, <2>2 DEF IInv, Kinds, TypeOK
  <2>4. checkpoints' \in [Taken' -> Texts] /\ (Taken' # {} => file' # Absent)
    BY <1>4, <1>6 DEF IInv, Kinds
  <2> QED BY <1>9, <2>3, <2>4 DEF Kinds
<1>11. Alone'
  <2> SUFFICES ASSUME ~overlapped' PROVE Alone'
    BY DEF Alone
  <2>1. \A d \in Callers : d # c => call'[d].at = "idle"
    BY <1>5, <1>7
  <2>2. \A d, e \in Callers : call'[d].at # "idle" /\ call'[e].at # "idle" => d = e
    BY <2>1
  <2>3. \A d \in Callers : Fresh(call[d])'
    BY <1>4, <1>5, <1>8, <2>1 DEF Fresh
  <2> QED BY <2>2, <2>3 DEF Alone
<1>12. Undone'
  <2> SUFFICES ASSUME ~overlapped', ~collided PROVE Undone'
    BY <1>4 DEF Undone
  <2>1. \A d \in Callers : d # c => call'[d].at = "idle"
    BY <1>5, <1>7
  <2>2. \A d \in Callers : Named(call[d])'
    BY <1>5, <1>3, <2>1 DEF Named, Late
  <2>3. previous' # Absent => Last(previous)'
    BY <1>4, <1>6, <1>7 DEF IInv, Undone, Last, Late
  <2>4. overwritten' \subseteq Kept'
    BY <1>4, <1>6, <1>7 DEF IInv, Undone
  <2> QED BY <2>2, <2>3, <2>4 DEF Undone
<1>13. Found'
  <2> SUFFICES ASSUME ~collided, original # Absent PROVE Found'
    BY <1>4 DEF Found
  <2>1. file # Absent /\ place # "writing"
    BY DEF IInv, Found
  <2>2. ASSUME original \notin Kept PROVE file = original /\ \A d \in Callers : Finds(call[d])'
    <3>1. file = original /\ \A d \in Callers : Finds(call[d])
      BY <2>2 DEF IInv, Found
    <3>2. \A d \in Callers : Finds(call[d])'
      BY <1>3, <1>4, <1>5, <2>1, <3>1 DEF Finds, Late
    <3> QED BY <3>1, <3>2
  <2> QED BY <1>4, <1>6, <2>1, <2>2 DEF Found
<1>14. OverwritesAreAsked'
  BY <1>4, <1>7 DEF IInv, OverwritesAreAsked
<1> QED BY <1>10, <1>11, <1>12, <1>13, <1>14 DEF IInv

LEMMA ToolsKeep ==
  ASSUME IInv, NEW c \in Callers,
         \/ \E old, new \in Words, replaceAll \in BOOLEAN : EditFile(c, old, new, replaceAll)
         \/ \E contents \in Texts : WriteFile(c, contents)
         \/ \E t \in Taken : RestoreFile(c, t)
  PROVE  IInv'
<1>1. /\ file \in Texts \cup {Absent} /\ Taken \subseteq 0..MaxTime /\ (Taken # {} => file # Absent)
      /\ 0 \in 0..MaxTime
  BY FileAssumption DEF IInv, Kinds, TypeOK
<1>2. ASSUME NEW old \in Words, NEW new \in Words, NEW replaceAll, EditFile(c, old, new, replaceAll) PROVE IInv'
  <2>1. file # Absent /\ Replaced(file, old, new) \in Texts
    BY <1>1, <1>2 DEF EditFile, Replaced, Texts
  <2>2. Begin(c, "stamping", "editFile", Replaced(file, old, new), 0)
    BY <1>2 DEF EditFile
  <2> QED BY <1>1, <2>1, <2>2, BeginKeeps
<1>3. ASSUME NEW contents \in Texts, WriteFile(c, contents) PROVE IInv'
  <2> DEFINE place == IF file = Absent THEN "writing" ELSE "asking"
  <2>1. Begin(c, place, "writeFile", contents, 0)
    BY <1>3 DEF WriteFile
  <2>2. place \in {"asking", "stamping", "writing"} /\ (place = "writing" <=> file = Absent)
    OBVIOUS
  <2> HIDE DEF place
  <2> QED BY <1>1, <2>1, <2>2, BeginKeeps
<1>4. ASSUME NEW t \in Taken, RestoreFile(c, t) PROVE IInv'
  <2>1. Begin(c, "stamping", "restoreFile", Absent, t) /\ file # Absent /\ t \in 0..MaxTime
    BY <1>1, <1>4 DEF RestoreFile
  <2> QED BY <2>1, BeginKeeps
<1> QED BY <1>2, <1>3, <1>4

-----------------------------------------------------------------------------
LEMMA KeepKeeps == ASSUME IInv, NEW c \in Callers, Keep(c) PROVE IInv'
<1> DEFINE r == AfterKeep(c)
           stamp == call[c].stamp
           copy == call[c].copy
<1>1. /\ call[c].at = "keeping" /\ call' = [call EXCEPT ![c] = r]
      /\ checkpoints' = [t \in Taken \cup {stamp} |-> IF t = stamp THEN copy ELSE checkpoints[t]]
      /\ collided' = (collided \/ stamp \in Taken)
      /\ UNCHANGED <<file, clock, calls, original, overwritten, previous, unasked, overlapped>>
  BY DEF Keep, Steps
<1>2. /\ call[c] \in Calls /\ Sound(call[c]) /\ copy \in Texts /\ stamp <= clock /\ stamp \in 0..MaxTime
      /\ file # Absent /\ file \in Texts \cup {Absent} /\ clock \in 0..MaxTime /\ Taken \subseteq 0..clock
      /\ checkpoints \in [Taken -> Texts]
  BY <1>1, OfCall DEF Sound, Calls, IInv, Kinds, TypeOK
<1>3. /\ r \in Calls /\ r.at \in Late /\ r.tool = call[c].tool /\ r.text = call[c].text
      /\ r.copy = copy /\ r.target = call[c].target /\ (r.at = "reading" <=> r.tool = "restoreFile")
  <2> DEFINE at == IF call[c].tool = "restoreFile" THEN "reading" ELSE "writing"
  <2>1. at \in Places /\ at \in Late /\ (at = "reading" <=> call[c].tool = "restoreFile")
    BY DEF Places, Late
  <2>2. r = [call[c] EXCEPT !.at = at]
    BY DEF AfterKeep
  <2> HIDE DEF at, r
  <2> QED BY <1>2, <2>1, <2>2, MovedTo
<1> HIDE DEF r, stamp, copy
<1>4. /\ call \in [Callers -> Calls] /\ call' \in [Callers -> Calls]
      /\ call'[c] = r /\ \A d \in Callers \ {c} : call'[d] = call[d]
  BY <1>1, <1>3, OfCall
<1>5. /\ Taken' = Taken \cup {stamp} /\ checkpoints' \in [Taken' -> Texts] /\ checkpoints'[stamp] = copy
      /\ \A t \in Taken : t # stamp => checkpoints'[t] = checkpoints[t]
  BY <1>1, <1>2 DEF Taken
<1>6. collided' \in BOOLEAN /\ (~collided' => ~collided /\ stamp \notin Taken)
  BY <1>1
<1>7. Kept' \subseteq Texts
  BY <1>5 DEF Kept
<1>8. ~collided' => Kept' = Kept \cup {copy}
  BY <1>2, <1>5, <1>6 DEF Kept
<1>9. \A d \in Callers : Sound(call[d])'
  <2> TAKE d \in Callers
  <2>1. Sound(call[d])
    BY OfCall
  <2>2. CASE d = c
    <3>1. r.at \in {"reading", "writing"}
      BY <1>3 DEF Late
    <3> QED BY <1>1, <1>2, <1>3, <1>4, <1>5, <2>2, <3>1 DEF Sound
  <2>3. CASE d # c
    BY <1>1, <1>4, <1>5, <2>1, <2>3 DEF Sound
  <2> QED BY <2>2, <2>3
<1>10. Kinds'
  <2>1. \A d \in Callers : call'[d].at = "writing" => call'[d].text \in Texts
    BY <1>9 DEF Sound
  <2>2. Taken' \subseteq 0..clock'
    <3>1. stamp \in 0..clock
      BY <1>2, FileAssumption
    <3> QED BY <1>1, <1>2, <1>5, <3>1
  <2>3. TypeOK'
    BY <1>1, <1>4, <1>6, <1>7, <2>1, <2>2 DEF IInv, Kinds, TypeOK
  <2> QED BY <1>1, <1>2, <1>5, <1>9, <2>3 DEF Kinds
<1>11. Alone'
  <2> SUFFICES ASSUME ~overlapped PROVE Alone'
    BY <1>1 DEF Alone
  <2>1. r.at # "idle" /\ r.copy = file
    BY <1>1, <1>3, OfCall DEF Fresh, Late, copy
  <2>2. \A d, e \in Callers : call'[d].at # "idle" /\ call'[e].at # "idle" => d = e
    BY <1>1, <1>4, <2>1 DEF IInv, Alone
  <2>3. \A d \in Callers : Fresh(call[d])'
    BY <1>1, <1>4, <2>1 DEF IInv, Alone, Fresh
  <2> QED BY <2>2, <2>3 DEF Alone
<1>12. Undone'
  <2> SUFFICES ASSUME ~overlapped, ~collided' PROVE Undone'
    BY <1>1 DEF Undone
  <2>1. \A d \in Callers : d # c => call'[d].at = "idle"
    BY <1>1, <1>4 DEF IInv, Alone
  <2>2. \A u \in Taken' : u <= stamp
    <3>1. \A u \in Taken : u <= stamp
      BY <1>1, <1>6, OfCall DEF Named, stamp
    <3>2. stamp <= stamp
      BY <1>2
    <3> QED BY <1>5, <3>1, <3>2
  <2>3. \A d \in Callers : Named(call[d])'
    <3> TAKE d \in Callers
    <3>1. CASE d # c
      BY <2>1, <3>1 DEF Named, Late
    <3>2. CASE d = c
      <4>1. call'[d].copy = copy /\ call'[d].at \in Late
        BY <1>3, <1>4, <3>2
      <4>2. \E t \in Taken' : (\A u \in Taken' : u <= t) /\ checkpoints'[t] = copy
        BY <1>5, <2>2
      <4> QED BY <4>1, <4>2 DEF Named, Last, Late
    <3> QED BY <3>1, <3>2
  <2>4. call'[c].at \in Late
    BY <1>3, <1>4
  <2>5. overwritten' \subseteq Kept'
    BY <1>1, <1>6, <1>8 DEF IInv, Undone
  <2> QED BY <2>3, <2>4, <2>5 DEF Undone
<1>13. Found'
  <2> SUFFICES ASSUME ~collided', original # Absent PROVE Found'
    BY <1>1 DEF Found
  <2>1. original \in Kept'
    <3>1. CASE original \in Kept
      BY <1>8, <3>1
    <3>2. CASE original \notin Kept
      BY <1>1, <1>6, <1>8, <3>2 DEF IInv, Found, Finds, copy
    <3> QED BY <3>1, <3>2
  <2> QED BY <1>1, <1>2, <2>1 DEF Found
<1>14. OverwritesAreAsked'
  BY <1>1 DEF IInv, OverwritesAreAsked
<1> QED BY <1>10, <1>11, <1>12, <1>13, <1>14 DEF IInv

(* A call that was about to write is over, whether it wrote or not.         *)
LEMMA EndKeeps ==
  ASSUME IInv, NEW c \in Callers, call[c].at = "writing", call' = [call EXCEPT ![c] = Idle],
         UNCHANGED <<checkpoints, clock, calls, original, overlapped, collided>>,
         file' \in Texts \/ file' = file,
         previous' \in {file, Absent}, unasked' \in BOOLEAN, ~overlapped => unasked' = unasked,
         overwritten' \in {overwritten, overwritten \cup ({file} \ {Absent, file'})}
  PROVE  IInv'
<1>1. /\ call \in [Callers -> Calls] /\ call' \in [Callers -> Calls]
      /\ call'[c] = Idle /\ call'[c].at = "idle" /\ \A d \in Callers \ {c} : call'[d] = call[d]
  BY IdleIsCall, OfCall
<1>2. Taken' = Taken /\ Kept' = Kept
  BY DEF Taken, Kept
<1>3. file \in Texts \cup {Absent} /\ file' \in Texts \cup {Absent} /\ (file # Absent => file' # Absent)
  BY AbsentIsNoText DEF IInv, Kinds, TypeOK
<1>4. \A d \in Callers : Sound(call[d])'
  <2> TAKE d \in Callers
  <2>1. Sound(call[d])
    BY OfCall
  <2>2. CASE d = c
    BY <1>1, <2>2 DEF Sound
  <2>3. CASE d # c
    BY <1>1, <1>2, <1>3, <2>1, <2>3 DEF Sound
  <2> QED BY <2>2, <2>3
<1>5. Kinds'
  <2>1. \A d \in Callers : call'[d].at = "writing" => call'[d].text \in Texts
    BY <1>4 DEF Sound
  <2>2. overwritten' \subseteq Texts /\ previous' \in Texts \cup {Absent}
    BY <1>3 DEF IInv, Kinds, TypeOK
  <2>3. TypeOK'
    BY <1>1, <1>2, <1>3, <2>1, <2>2 DEF IInv, Kinds, TypeOK
  <2>4. checkpoints' \in [Taken' -> Texts] /\ (Taken' # {} => file' # Absent)
    BY <1>2, <1>3 DEF IInv, Kinds
  <2> QED BY <1>4, <2>3, <2>4 DEF Kinds
<1>6. ASSUME ~overlapped PROVE \A d \in Callers : call'[d].at = "idle"
  BY <1>1, <1>6 DEF IInv, Alone
<1>7. Alone'
  <2> SUFFICES ASSUME ~overlapped PROVE Alone'
    BY DEF Alone
  <2> QED BY <1>6 DEF Alone, Fresh
<1>8. Undone'
  <2> SUFFICES ASSUME ~overlapped, ~collided PROVE Undone'
    BY DEF Undone
  <2>1. \A d \in Callers : Named(call[d])'
    BY <1>6 DEF Named, Late
  <2>2. file # Absent => Last(file)
    BY OfCall DEF Fresh, Named, Late
  <2>3. previous' # Absent => Last(previous)'
    <3>1. previous' # Absent => previous' = file /\ Last(file)
      BY <2>2
    <3> QED BY <1>2, <3>1 DEF Last
  <2>4. overwritten \subseteq Kept /\ (file # Absent => file \in Kept)
    BY <2>2, LastIsKept DEF IInv, Undone
  <2>5. overwritten' \subseteq Kept'
    BY <1>2, <2>4
  <2> QED BY <2>1, <2>3, <2>5 DEF Undone
<1>9. Found'
  <2> SUFFICES ASSUME ~collided, original # Absent PROVE Found'
    BY DEF Found
  <2>1. file' # Absent
    BY <1>3 DEF IInv, Found
  <2>2. original \in Kept
    BY DEF IInv, Found, Finds, Late
  <2> QED BY <1>2, <2>1, <2>2 DEF Found
<1>10. OverwritesAreAsked'
  BY DEF IInv, OverwritesAreAsked
<1> QED BY <1>5, <1>7, <1>8, <1>9, <1>10 DEF IInv

LEMMA WriteKeeps == ASSUME IInv, NEW c \in Callers, Write(c) PROVE IInv'
<1>1. /\ call[c].at = "writing" /\ call' = [call EXCEPT ![c] = Idle]
      /\ UNCHANGED <<checkpoints, clock, calls, original, overlapped, collided>>
      /\ file' = call[c].text /\ previous' = file
      /\ overwritten' = overwritten \cup ({file} \ {Absent, call[c].text})
  BY DEF Write, Steps
<1>2. unasked' = (unasked \/ (call[c].copy = Absent /\ file # Absent))
  BY DEF Write
<1>3. file' \in Texts
  BY <1>1, OfCall DEF Sound
<1>4. unasked \in BOOLEAN
  BY DEF IInv, Kinds, TypeOK
<1>5. ~overlapped => call[c].copy = file
  BY <1>1, OfCall DEF Fresh
<1>6. unasked' \in BOOLEAN
  BY <1>2
<1>7. ~overlapped => unasked' = unasked
  BY <1>2, <1>4, <1>5
<1> QED BY <1>1, <1>3, <1>6, <1>7, EndKeeps

LEMMA WriteFailsKeeps == ASSUME IInv, NEW c \in Callers, WriteFails(c) PROVE IInv'
<1>1. /\ call[c].at = "writing" /\ call' = [call EXCEPT ![c] = Idle]
      /\ UNCHANGED <<file, checkpoints, clock, calls, original, overwritten, unasked, overlapped, collided>>
      /\ previous' = Absent
  BY DEF WriteFails, Steps
<1>2. unasked' \in BOOLEAN
  BY <1>1 DEF IInv, Kinds, TypeOK
<1> QED BY <1>1, <1>2, EndKeeps

(* What leaves all but the clock alone.                                     *)
LEMMA TimeKeeps ==
  ASSUME IInv, UNCHANGED <<file, checkpoints, call, calls, historyVars>>,
         clock' \in 0..MaxTime, clock <= clock'
  PROVE  IInv'
<1>1. UNCHANGED <<file, checkpoints, call, calls, original, overwritten, previous, unasked, overlapped, collided>>
  BY DEF historyVars
<1>2. Taken' = Taken /\ Kept' = Kept
  BY <1>1 DEF Taken, Kept
<1>3. clock \in 0..MaxTime /\ 0..clock \subseteq 0..clock'
  BY FileAssumption DEF IInv, Kinds, TypeOK
<1>4. \A d \in Callers : Sound(call[d])'
  <2> TAKE d \in Callers
  <2>1. Sound(call[d]) /\ call[d].stamp \in 0..MaxTime
    BY OfCall DEF Calls
  <2>2. call[d].stamp <= clock => call[d].stamp <= clock'
    BY <1>3, <2>1, FileAssumption
  <2> QED BY <1>1, <1>2, <2>1, <2>2 DEF Sound
<1>5. Kinds'
  <2>1. TypeOK'
    BY <1>1, <1>2, <1>3 DEF IInv, Kinds, TypeOK
  <2> QED BY <1>1, <1>2, <1>4, <2>1 DEF IInv, Kinds
<1>6. Alone' /\ OverwritesAreAsked'
  BY <1>1 DEF IInv, Alone, Fresh, OverwritesAreAsked
<1>7. Undone'
  BY <1>1, <1>2 DEF IInv, Undone, Named, Last
<1>8. Found'
  BY <1>1, <1>2 DEF IInv, Found, Finds
<1> QED BY <1>5, <1>6, <1>7, <1>8 DEF IInv

LEMMA NextKeeps == IInv /\ [Next]_vars => IInv'
<1> SUFFICES ASSUME IInv, [Next]_vars PROVE IInv'
  OBVIOUS
<1>1. clock \in 0..MaxTime /\ clock <= clock
  BY FileAssumption DEF IInv, Kinds, TypeOK
<1>2. CASE Tick
  <2>1. clock' \in 0..MaxTime /\ clock <= clock'
    BY <1>1, <1>2, FileAssumption DEF Tick
  <2> QED BY <1>2, <2>1, TimeKeeps DEF Tick
<1>3. ASSUME NEW c \in Callers,
             \/ \E old, new \in Words, replaceAll \in BOOLEAN : EditFile(c, old, new, replaceAll)
             \/ \E contents \in Texts : WriteFile(c, contents)
             \/ \E t \in Taken : RestoreFile(c, t)
             \/ \E decision \in {"allow", "deny"} : Decide(c, decision)
             \/ Stamp(c) \/ Copy(c) \/ Keep(c) \/ ReadTarget(c)
             \/ Write(c) \/ WriteFails(c)
      PROVE  IInv'
  BY <1>3, ToolsKeep, DecideKeeps, StampKeeps, CopyKeeps, KeepKeeps, ReadTargetKeeps, WriteKeeps, WriteFailsKeeps
<1>4. CASE UNCHANGED vars
  BY <1>1, <1>4, TimeKeeps DEF vars
<1> QED BY <1>2, <1>3, <1>4 DEF Next

(* What the theorems about the file tools rest on.                           *)
LEMMA Invariant == Spec => []IInv
BY InitIInv, NextKeeps, PTL DEF Spec

(* Every variable keeps its kind, and a call about to write has a text.     *)
THEOREM TypeCorrect == Spec => []TypeOK
<1>1. IInv => TypeOK
  BY DEF IInv, Kinds
<1> QED BY <1>1, Invariant, PTL

(* checkpoints.ts, snapshot: calls that do not overlap lose nothing, if     *)
(* their snapshots have names of their own.                                 *)
THEOREM UndosHoldEverything == Spec => []UndoHoldsEverything
<1>1. IInv => UndoHoldsEverything
  BY DEF IInv, Undone, UndoHoldsEverything
<1> QED BY <1>1, Invariant, PTL

(* The text the agent found is kept however its calls overlap.              *)
THEOREM OriginalsAreKept == Spec => []OriginalIsKept
<1>1. IInv => OriginalIsKept
  BY DEF IInv, Found, OriginalIsKept
<1> QED BY <1>1, Invariant, PTL

(* checkpoints.ts, list and restore: undo means the last change.            *)
THEOREM UndosAreTheLastChange == Spec => []UndoIsTheLastChange
<1>1. IInv => UndoIsTheLastChange
  <2> SUFFICES ASSUME IInv, ~overlapped, ~collided, previous # Absent, \A c \in Callers : call[c].at = "idle"
               PROVE  Last(previous)
    BY DEF UndoIsTheLastChange, Last
  <2> QED BY DEF IInv, Undone, Late
<1> QED BY <1>1, Invariant, PTL

(* tools.ts, writeFile: what overwrites without asking met another call.    *)
THEOREM OverwritesWereAsked == Spec => []OverwritesAreAsked
<1>1. IInv => OverwritesAreAsked
  BY DEF IInv
<1> QED BY <1>1, Invariant, PTL

-----------------------------------------------------------------------------
(* Documents.                                                               *)
DocumentCalls ==
  [at : D!Stages, path : Paths, length : Lengths, seen : SUBSET (({0} \cup D!PageNumbers) \X Documented)]

Whole(c) == D!AtMost(documentCall[c].length, MaxPages)
Judgeable(c) == D!AtMost(documentCall[c].length, D!AtMost(MaxPages, MaxJudged))
OwnSeen(c) == {<<n, c>> : n \in 1..Judgeable(c)}
Solitary(c) == c \notin met \cup stale

DocumentKinds ==
  /\ document \in [Paths -> Documented \cup {Nobody}]
  /\ pictures \in [D!Pictures -> Documented \cup {Nobody}]
  /\ pdf \in [Bases -> Documented \cup {Nobody}]
  /\ documentCall \in [Documented -> DocumentCalls]

(* Two that are at work where a picture may be either's have met.           *)
MeetingsAreSeen ==
  \A c, d \in Documented :
    c # d /\ D!AtWork(c) /\ D!AtWork(d) /\ D!Family(D!Base(c)) \cap D!Family(D!Base(d)) # {} => c \in met

(* Of the pictures listed under a base name: that there are none, and that  *)
(* they are the first pages of a document.                                  *)
Clean(b) == D!Listed(b) = {}
Shows(c, b, n) == D!Listed(b) = {<<b, m>> : m \in 1..n} /\ \A m \in 1..n : pictures[<<b, m>>] = c

(* What a call finds that has met no other and could remove what it found:  *)
(* at its path, in the PDF and in the pictures of its base name, and what   *)
(* it has shown.                                                            *)
FindsItsOwn(c) ==
  LET b == D!Base(c)
      at == documentCall[c].at
  IN  /\ D!AtWork(c) => document[documentCall[c].path] = c
      /\ at \in {"converting", "converted", "clearing again", "converting again", "converted again"} =>
           pdf[b] \in {c, Nobody}
      /\ at \in {"clearing pages", "rasterising", "listing"} => pdf[b] = c
      /\ at = "rasterising" => Clean(b)
      /\ at = "listing" /\ c \notin cut => Shows(c, b, Whole(c))
      /\ at \in {"judging", "passed"} /\ c \notin cut =>
           documentCall[c].seen = OwnSeen(c)

DocumentInv ==
  /\ DocumentKinds /\ MeetingsAreSeen
  /\ \A c \in Documented : Solitary(c) => FindsItsOwn(c)

LEMMA DocumentsBegin == D!Init => DocumentInv
<1> SUFFICES ASSUME D!Init PROVE DocumentInv
  OBVIOUS
<1>1. /\ document = [p \in Paths |-> Nobody] /\ pictures = [x \in D!Pictures |-> Nobody]
      /\ pdf = [b \in Bases |-> Nobody]
      /\ documentCall \in [Documented -> [at : {"idle"}, path : Paths, length : Lengths, seen : {{}}]]
  BY DEF D!Init
<1>2. \A c \in Documented : documentCall[c].at = "idle"
  BY <1>1
<1>3. DocumentKinds
  <2>1. documentCall \in [Documented -> DocumentCalls]
    <3>1. {"idle"} \subseteq D!Stages /\ {{}} \subseteq SUBSET (({0} \cup D!PageNumbers) \X Documented)
      BY DEF D!Stages
    <3> QED BY <1>1, <3>1 DEF DocumentCalls
  <2> QED BY <1>1, <2>1 DEF DocumentKinds
<1>4. MeetingsAreSeen
  BY <1>2 DEF MeetingsAreSeen, D!AtWork
<1>5. \A c \in Documented : FindsItsOwn(c)
  BY <1>2 DEF FindsItsOwn, D!AtWork
<1> QED BY <1>3, <1>4, <1>5 DEF DocumentInv

(* Files change where a base name's pictures are listed only.               *)
OnlyAt(b) ==
  /\ pdf' \in [Bases -> Documented \cup {Nobody}]
  /\ pictures' \in [D!Pictures -> Documented \cup {Nobody}]
  /\ \A a \in Bases \ {b} : pdf'[a] = pdf[a]
  /\ \A x \in D!Pictures : x[1] \notin D!Family(b) => pictures'[x] = pictures[x]

(* What is listed under a base name is of its family.                       *)
LEMMA ListedElsewhere ==
  ASSUME NEW a \in Bases, NEW b \in Bases, D!Family(a) \cap D!Family(b) = {}, OnlyAt(b)
  PROVE  /\ pdf'[a] = pdf[a]
         /\ Clean(a)' = Clean(a)
         /\ \A c, n : Shows(c, a, n)' = Shows(c, a, n)
<1>1. a # b
  BY DEF D!Family
<1>2. \A x \in D!Pictures : x[1] \in D!Family(a) => pictures'[x] = pictures[x]
  BY DEF OnlyAt
<1>3. D!Pictures' = D!Pictures
  BY DEF D!Pictures, D!PageNumbers
<1>4. D!Listed(a)' = D!Listed(a)
  BY <1>2, <1>3 DEF D!Listed, D!Family
<1>5. \A x \in D!Listed(a) : pictures'[x] = pictures[x]
  BY <1>2 DEF D!Listed, D!Family
<1>6. ASSUME NEW c, NEW n PROVE Shows(c, a, n)' = Shows(c, a, n)
  <2>1. ASSUME D!Listed(a) = {<<a, m>> : m \in 1..n}
        PROVE  \A m \in 1..n : pictures'[<<a, m>>] = pictures[<<a, m>>]
    BY <1>5, <2>1
  <2> QED BY <1>4, <2>1 DEF Shows
<1>7. Clean(a)' = Clean(a)
  BY <1>4 DEF Clean
<1> QED BY <1>1, <1>6, <1>7 DEF OnlyAt

(* What the call is to find next, at its base name.                         *)
Continues(c, b, at, seen) ==
  c \notin met /\ c \notin stale' =>
    /\ at \in {"converting", "converted", "clearing again", "converting again", "converted again"} =>
         pdf'[b] \in {c, Nobody}
    /\ at \in {"clearing pages", "rasterising", "listing"} => pdf'[b] = c
    /\ at = "rasterising" => Clean(b)'
    /\ at = "listing" /\ c \notin cut' => Shows(c, b, Whole(c))'
    /\ at \in {"judging", "passed"} /\ c \notin cut' => seen = OwnSeen(c)

(* A step of a call at work, in its own base name.                          *)
LEMMA DocumentStep ==
  ASSUME DocumentInv, NEW c \in Documented, D!AtWork(c), NEW r \in DocumentCalls,
         documentCall' = [documentCall EXCEPT ![c] = r],
         r.path = documentCall[c].path, r.length = documentCall[c].length,
         UNCHANGED <<document, met>>, cut' \in {cut, cut \cup {c}}, stale' \in {stale, stale \cup {c}},
         NEW b \in Bases, b = D!Base(c),
         OnlyAt(b),
         Continues(c, b, r.at, r.seen)
  PROVE  DocumentInv'
<1>1. documentCall \in [Documented -> DocumentCalls] /\ documentCall' \in [Documented -> DocumentCalls]
  BY DEF DocumentInv, DocumentKinds
<1>2. documentCall'[c] = r /\ \A d \in Documented \ {c} : documentCall'[d] = documentCall[d]
  BY <1>1
<1>3. DocumentKinds'
  <2>1. D!Pictures' = D!Pictures
    BY DEF D!Pictures, D!PageNumbers
  <2> QED BY <1>1, <2>1 DEF DocumentInv, DocumentKinds, OnlyAt
<1>4. \A d \in Documented : D!Base(d)' = D!Base(d) /\ (D!AtWork(d)' => D!AtWork(d))
  BY <1>2 DEF D!Base, D!AtWork
<1>5. MeetingsAreSeen'
  <2> SUFFICES ASSUME NEW d \in Documented, NEW e \in Documented,
                      d # e, D!AtWork(d)', D!AtWork(e)',
                      (D!Family(D!Base(d)) \cap D!Family(D!Base(e)) # {})'
               PROVE  d \in met'
    BY DEF MeetingsAreSeen
  <2>1. D!AtWork(d) /\ D!AtWork(e) /\ D!Family(D!Base(d)) \cap D!Family(D!Base(e)) # {}
    BY <1>4 DEF D!Family
  <2> QED BY <2>1 DEF DocumentInv, MeetingsAreSeen
<1>6. ASSUME NEW d \in Documented PROVE Whole(d)' = Whole(d) /\ OwnSeen(d)' = OwnSeen(d)
  <2>1. documentCall'[d].length = documentCall[d].length
    BY <1>2
  <2> QED BY <2>1 DEF Whole, Judgeable, OwnSeen
<1>7. ASSUME Solitary(c)' PROVE FindsItsOwn(c)'
  <2> DEFINE base == D!Base(c)
  <2>1. Whole(c)' = Whole(c) /\ OwnSeen(c)' = OwnSeen(c)
    BY <1>6
  <2>2. base' = b
    BY <1>4
  <2>3. c \notin met /\ c \notin stale' /\ Solitary(c)
    BY <1>7 DEF Solitary
  <2>4. document[documentCall[c].path] = c
    BY <2>3 DEF DocumentInv, FindsItsOwn
  <2>5. document'[documentCall'[c].path] = c
    BY <1>2, <2>4
  <2>6. /\ r.at \in {"converting", "converted", "clearing again", "converting again", "converted again"} =>
             pdf'[b] \in {c, Nobody}
        /\ r.at \in {"clearing pages", "rasterising", "listing"} => pdf'[b] = c
        /\ r.at = "rasterising" => Clean(b)'
        /\ r.at = "listing" /\ c \notin cut' => Shows(c, b, Whole(c))'
        /\ r.at \in {"judging", "passed"} /\ c \notin cut' => r.seen = OwnSeen(c)
    BY <2>3 DEF Continues
  <2> HIDE DEF base
  <2>7. (documentCall[c].at \in {"converting", "converted", "clearing again", "converting again", "converted again"}
           => pdf[base] \in {c, Nobody})'
    BY <1>2, <2>2, <2>6
  <2>8. (documentCall[c].at \in {"clearing pages", "rasterising", "listing"} => pdf[base] = c)'
    BY <1>2, <2>2, <2>6
  <2>9. (documentCall[c].at = "rasterising" => Clean(base))'
    BY <1>2, <2>2, <2>6 DEF Clean, D!Listed
  <2>10. (documentCall[c].at = "listing" /\ c \notin cut => Shows(c, base, Whole(c)))'
    BY <1>2, <2>2, <2>6 DEF Shows, D!Listed
  <2>11. (documentCall[c].at \in {"judging", "passed"} /\ c \notin cut => documentCall[c].seen = OwnSeen(c))'
    BY <1>2, <2>1, <2>6
  <2> QED BY <2>5, <2>7, <2>8, <2>9, <2>10, <2>11 DEF FindsItsOwn, base
<1>8. ASSUME NEW d \in Documented, Solitary(d)', d # c PROVE FindsItsOwn(d)'
  <2>1. d \notin met /\ Solitary(d)
    BY <1>8 DEF Solitary
  <2>2. FindsItsOwn(d) /\ documentCall'[d] = documentCall[d] /\ (d \in cut' <=> d \in cut)
    BY <1>2, <1>8, <2>1 DEF DocumentInv
  <2>3. D!AtWork(d) => D!Family(D!Base(d)) \cap D!Family(b) = {}
    BY <1>8, <2>1 DEF DocumentInv, MeetingsAreSeen
  <2>4. D!Base(d) \in Bases
    BY <1>1, DocumentAssumption DEF D!Base, DocumentCalls
  <2>5. D!Base(d)' = D!Base(d) /\ Whole(d)' = Whole(d) /\ OwnSeen(d)' = OwnSeen(d)
    BY <1>4, <1>6
  <2>6. CASE ~D!AtWork(d)
    BY <2>2, <2>5, <2>6 DEF FindsItsOwn, D!AtWork
  <2>7. CASE D!AtWork(d)
    <3>1. PICK base \in Bases : base = D!Base(d) /\ base = D!Base(d)'
      BY <2>4, <2>5
    <3>2. /\ pdf'[base] = pdf[base] /\ Clean(base)' = Clean(base)
          /\ \A w, n : Shows(w, base, n)' = Shows(w, base, n)
      BY <2>3, <2>7, <3>1, ListedElsewhere
    <3>3. document'[documentCall'[d].path] = d
      BY <2>2, <2>7 DEF FindsItsOwn
    <3>4. (documentCall[d].at \in {"converting", "converted", "clearing again", "converting again",
                                   "converted again"} => pdf[base] \in {d, Nobody})'
      BY <2>2, <3>1, <3>2 DEF FindsItsOwn
    <3>5. (documentCall[d].at \in {"clearing pages", "rasterising", "listing"} => pdf[base] = d)'
      BY <2>2, <3>1, <3>2 DEF FindsItsOwn
    <3>6. documentCall'[d].at = "rasterising" => Clean(base)'
      <4>1. documentCall[d].at = "rasterising" => Clean(base)
        BY <2>2, <3>1 DEF FindsItsOwn
      <4> QED BY <2>2, <3>2, <4>1
    <3>7. documentCall'[d].at = "listing" /\ d \notin cut' => Shows(d, base, Whole(d))'
      <4>1. documentCall[d].at = "listing" /\ d \notin cut => Shows(d, base, Whole(d))
        BY <2>2, <3>1 DEF FindsItsOwn
      <4>2. PICK n : n = Whole(d) /\ n = Whole(d)'
        BY <2>5
      <4>3. documentCall[d].at = "listing" /\ d \notin cut => Shows(d, base, n)
        BY <4>1, <4>2
      <4>4. documentCall'[d].at = "listing" /\ d \notin cut' => Shows(d, base, n)'
        BY <2>2, <3>2, <4>3
      <4> QED BY <4>2, <4>4 DEF Shows
    <3>8. (documentCall[d].at \in {"judging", "passed"} /\ d \notin cut => documentCall[d].seen = OwnSeen(d))'
      BY <2>2, <2>5 DEF FindsItsOwn
    <3>9. documentCall'[d].at = "rasterising" => Clean(D!Base(d))'
      BY <3>1, <3>6 DEF Clean, D!Listed
    <3>10. documentCall'[d].at = "listing" /\ d \notin cut' => Shows(d, D!Base(d), Whole(d))'
      BY <3>1, <3>7 DEF Shows, D!Listed
    <3> QED BY <3>1, <3>3, <3>4, <3>5, <3>8, <3>9, <3>10 DEF FindsItsOwn
  <2> QED BY <2>6, <2>7
<1> QED BY <1>3, <1>5, <1>7, <1>8 DEF DocumentInv

LEMMA OfDocument ==
  ASSUME DocumentInv, NEW c \in Documented
  PROVE  /\ documentCall \in [Documented -> DocumentCalls] /\ documentCall[c] \in DocumentCalls
         /\ documentCall[c].path \in Paths /\ documentCall[c].length \in Lengths /\ D!Base(c) \in Bases
         /\ document[documentCall[c].path] \in Documented \cup {Nobody}
         /\ pdf \in [Bases -> Documented \cup {Nobody}]
         /\ pictures \in [D!Pictures -> Documented \cup {Nobody}]
         /\ Solitary(c) => FindsItsOwn(c)
<1>1. /\ documentCall \in [Documented -> DocumentCalls] /\ documentCall[c] \in DocumentCalls
      /\ pdf \in [Bases -> Documented \cup {Nobody}]
      /\ pictures \in [D!Pictures -> Documented \cup {Nobody}]
      /\ document \in [Paths -> Documented \cup {Nobody}]
  BY DEF DocumentInv, DocumentKinds
<1>2. documentCall[c].path \in Paths /\ documentCall[c].length \in Lengths
  BY <1>1 DEF DocumentCalls
<1>3. D!Base(c) \in Bases
  BY <1>2, DocumentAssumption DEF D!Base
<1> QED BY <1>1, <1>2, <1>3 DEF DocumentInv

(* One after which the call is elsewhere, with nothing more to show.        *)
LEMMA DocumentMoves ==
  ASSUME DocumentInv, NEW c \in Documented, D!AtWork(c), NEW at \in D!Stages,
         documentCall' = [documentCall EXCEPT ![c].at = at],
         UNCHANGED <<document, met>>, cut' \in {cut, cut \cup {c}}, stale' \in {stale, stale \cup {c}},
         NEW b \in Bases, b = D!Base(c),
         OnlyAt(b),
         Continues(c, b, at, documentCall[c].seen)
  PROVE  DocumentInv'
<1> DEFINE r == [documentCall[c] EXCEPT !.at = at]
<1>1. documentCall \in [Documented -> DocumentCalls] /\ documentCall[c] \in DocumentCalls
  BY OfDocument
<1>2. /\ r \in DocumentCalls /\ r.at = at /\ r.path = documentCall[c].path /\ r.length = documentCall[c].length
      /\ r.seen = documentCall[c].seen
  BY <1>1 DEF DocumentCalls
<1>3. documentCall' = [documentCall EXCEPT ![c] = r]
  BY <1>1
<1> HIDE DEF r
<1> QED BY <1>2, <1>3, DocumentStep

LEMMA Unchanged ==
  ASSUME DocumentInv, NEW b \in Bases, UNCHANGED <<pdf, pictures>>
  PROVE  OnlyAt(b)
BY DEF DocumentInv, DocumentKinds, OnlyAt

LEMMA CheckStructureKeeps == ASSUME DocumentInv, NEW c \in Documented, D!CheckStructure(c) PROVE DocumentInv'
<1> DEFINE b == D!Base(c)
<1>1. /\ documentCall[c].at = "structure" /\ UNCHANGED <<document, pictures, pdf, met, stale, cut>>
      /\ b \in Bases /\ D!AtWork(c) /\ {"clearing", "failed"} \subseteq D!Stages
  BY OfDocument DEF D!CheckStructure, D!AtWork, D!Stages
<1>2. OnlyAt(b)
  BY <1>1, Unchanged
<1>3. \A at \in {"clearing", "failed"} : Continues(c, b, at, documentCall[c].seen)
  BY DEF Continues
<1>4. PICK at \in {"clearing", "failed"} : documentCall' = [documentCall EXCEPT ![c].at = at]
  BY DEF D!CheckStructure, D!Goes
<1>5. at \in D!Stages
  BY <1>1
<1> HIDE DEF b
<1> QED BY <1>1, <1>2, <1>3, <1>4, <1>5, DocumentMoves DEF b

LEMMA ClearPdfKeeps == ASSUME DocumentInv, NEW c \in Documented, D!ClearPdf(c) PROVE DocumentInv'
<1> DEFINE b == D!Base(c)
<1>1. /\ UNCHANGED <<document, pictures, met, cut>>
      /\ \/ pdf' = [pdf EXCEPT ![b] = Nobody] /\ UNCHANGED stale
         \/ UNCHANGED pdf /\ stale' = stale \cup {c}
      /\ b \in Bases /\ D!AtWork(c) /\ {"converting", "converting again"} \subseteq D!Stages
  BY OfDocument DEF D!ClearPdf, D!AtWork, D!Stages
<1>2. OnlyAt(b) /\ (c \notin stale' => pdf'[b] = Nobody)
  BY <1>1, OfDocument DEF OnlyAt
<1>3. \A at \in {"converting", "converting again"} : Continues(c, b, at, documentCall[c].seen)
  BY <1>2 DEF Continues
<1>4. PICK at \in {"converting", "converting again"} : documentCall' = [documentCall EXCEPT ![c].at = at]
  BY DEF D!ClearPdf, D!Goes
<1>5. at \in D!Stages /\ stale' \in {stale, stale \cup {c}}
  BY <1>1
<1> HIDE DEF b
<1> QED BY <1>1, <1>2, <1>3, <1>4, <1>5, DocumentMoves DEF b

LEMMA ConvertKeeps == ASSUME DocumentInv, NEW c \in Documented, D!Convert(c) PROVE DocumentInv'
<1> DEFINE b == D!Base(c)
           d == document[documentCall[c].path]
<1>1. /\ UNCHANGED <<document, pictures, met, stale, cut>>
      /\ b \in Bases /\ D!AtWork(c) /\ {"converted", "converted again"} \subseteq D!Stages
      /\ documentCall[c].at \in {"converting", "converting again"}
      /\ pdf' = [pdf EXCEPT ![b] = d] \/ UNCHANGED pdf
      /\ d \in Documented \cup {Nobody} /\ (Solitary(c) => FindsItsOwn(c))
  BY OfDocument DEF D!Convert, D!AtWork, D!Stages
<1>2. OnlyAt(b) /\ pdf'[b] \in {d, pdf[b]}
  BY <1>1, OfDocument DEF OnlyAt
<1>3. Solitary(c) => d = c /\ pdf[b] \in {c, Nobody}
  BY <1>1 DEF FindsItsOwn
<1>4. \A at \in {"converted", "converted again"} : Continues(c, b, at, documentCall[c].seen)
  BY <1>1, <1>2, <1>3 DEF Continues, Solitary
<1>5. PICK at \in {"converted", "converted again"} : documentCall' = [documentCall EXCEPT ![c].at = at]
  BY DEF D!Convert, D!Goes
<1>6. at \in D!Stages
  BY <1>1
<1> HIDE DEF b
<1> QED BY <1>1, <1>2, <1>4, <1>5, <1>6, DocumentMoves DEF b

LEMMA ConvertedKeeps == ASSUME DocumentInv, NEW c \in Documented, D!Converted(c) PROVE DocumentInv'
<1> DEFINE b == D!Base(c)
<1>1. /\ UNCHANGED <<document, pictures, pdf, met, stale, cut>>
      /\ b \in Bases /\ D!AtWork(c) /\ {"clearing again", "clearing pages", "failed"} \subseteq D!Stages
      /\ documentCall[c].at \in {"converted", "converted again"}
      /\ Solitary(c) => FindsItsOwn(c)
  BY OfDocument DEF D!Converted, D!AtWork, D!Stages
<1>2. OnlyAt(b)
  BY <1>1, Unchanged
<1>3. Solitary(c) => pdf[b] \in {c, Nobody}
  BY <1>1 DEF FindsItsOwn
<1>4. PICK at \in {"clearing again", "clearing pages", "failed"} :
        documentCall' = [documentCall EXCEPT ![c].at = at] /\ (at # "failed" => pdf[b] # Nobody)
  BY DEF D!Converted, D!Goes
<1>5. Continues(c, b, at, documentCall[c].seen)
  BY <1>1, <1>3, <1>4 DEF Continues, Solitary
<1>6. at \in D!Stages
  BY <1>1
<1> HIDE DEF b
<1> QED BY <1>1, <1>2, <1>4, <1>5, <1>6, DocumentMoves DEF b

LEMMA JudgedKeeps == ASSUME DocumentInv, NEW c \in Documented, D!Judged(c) PROVE DocumentInv'
<1> DEFINE b == D!Base(c)
<1>1. /\ documentCall[c].at = "judging" /\ UNCHANGED <<document, pictures, pdf, met, stale, cut>>
      /\ b \in Bases /\ D!AtWork(c) /\ {"passed", "failed"} \subseteq D!Stages
      /\ Solitary(c) => FindsItsOwn(c)
  BY OfDocument DEF D!Judged, D!AtWork, D!Stages
<1>2. OnlyAt(b)
  BY <1>1, Unchanged
<1>3. \A at \in {"passed", "failed"} : Continues(c, b, at, documentCall[c].seen)
  BY <1>1 DEF Continues, FindsItsOwn, Solitary
<1>4. PICK at \in {"passed", "failed"} : documentCall' = [documentCall EXCEPT ![c].at = at]
  BY DEF D!Judged, D!Goes
<1>5. at \in D!Stages
  BY <1>1
<1> HIDE DEF b
<1> QED BY <1>1, <1>2, <1>3, <1>4, <1>5, DocumentMoves DEF b

LEMMA ClearPagesKeeps == ASSUME DocumentInv, NEW c \in Documented, D!ClearPages(c) PROVE DocumentInv'
<1>1. PICK b \in Bases : b = D!Base(c)
  BY OfDocument
<1>2. /\ UNCHANGED <<document, pdf, met, cut>>
      /\ D!AtWork(c) /\ documentCall[c].at = "clearing pages"
      /\ Solitary(c) => FindsItsOwn(c)
  BY OfDocument DEF D!ClearPages, D!AtWork, D!Stages
<1>3. PICK left \in SUBSET D!Listed(b) :
        /\ pictures' = [x \in D!Pictures |-> IF x \in D!Listed(b) \ left THEN Nobody ELSE pictures[x]]
        /\ stale' = IF left = {} THEN stale ELSE stale \cup {c}
  BY <1>1 DEF D!ClearPages
<1>4. \A x \in D!Listed(b) : x[1] \in D!Family(b)
  BY DEF D!Listed, D!Family
<1>5. OnlyAt(b)
  BY <1>2, <1>3, <1>4, OfDocument DEF OnlyAt
<1>6. c \notin stale' => Clean(b)'
  <2> SUFFICES ASSUME c \notin stale', NEW x \in D!Pictures,
                      IF x[1] = b THEN x[2] > 0 ELSE x[1] \in Longer[b]
               PROVE  pictures'[x] = Nobody
    <3>1. D!Pictures' = D!Pictures
      BY DEF D!Pictures, D!PageNumbers
    <3> QED BY <3>1 DEF Clean, D!Listed
  <2>1. left = {}
    BY <1>3
  <2> QED BY <1>3, <2>1 DEF D!Listed
<1>7. PICK at \in {"rasterising"} : documentCall' = [documentCall EXCEPT ![c].at = at]
  BY DEF D!ClearPages, D!Goes
<1>8. at \in D!Stages /\ stale' \in {stale, stale \cup {c}}
  BY <1>3, <1>7 DEF D!Stages
<1>9. c \notin met /\ c \notin stale' => pdf'[b] = c
  BY <1>1, <1>2, <1>8 DEF FindsItsOwn, Solitary
<1>10. Continues(c, b, at, documentCall[c].seen)
  BY <1>6, <1>7, <1>9 DEF Continues
<1> QED BY <1>1, <1>2, <1>5, <1>7, <1>8, <1>10, DocumentMoves

(* A document's own pages, of which it has one at least.                    *)
LEMMA Lengths1 ==
  ASSUME DocumentInv, NEW c \in Documented
  PROVE  /\ documentCall[c].length \in Nat \ {0} /\ Whole(c) \in Nat \ {0} /\ Whole(c) <= documentCall[c].length
         /\ 1..Whole(c) \subseteq D!PageNumbers /\ D!PageNumbers \subseteq Nat \ {0}
<1>1. documentCall[c].length \in Lengths
  BY OfDocument
<1>2. documentCall[c].length \in Nat \ {0} /\ MaxPages \in Nat \ {0}
  BY <1>1, DocumentAssumption
<1>3. Whole(c) \in Nat \ {0} /\ Whole(c) <= documentCall[c].length
  BY <1>2 DEF Whole, D!AtMost
<1>4. 1..documentCall[c].length \subseteq D!PageNumbers
  BY <1>1 DEF D!PageNumbers
<1>5. D!PageNumbers \subseteq Nat \ {0}
  BY DocumentAssumption DEF D!PageNumbers
<1> QED BY <1>2, <1>3, <1>4, <1>5

LEMMA RasteriseKeeps == ASSUME DocumentInv, NEW c \in Documented, D!Rasterise(c) PROVE DocumentInv'
<1>1. PICK b \in Bases : b = D!Base(c)
  BY OfDocument
<1> DEFINE d == pdf[b]
           whole == IF d = Nobody THEN 0 ELSE D!AtMost(documentCall[d].length, MaxPages)
<1>2. /\ UNCHANGED <<document, pdf, met, stale>> /\ documentCall[c].at = "rasterising"
      /\ D!AtWork(c) /\ d \in Documented \cup {Nobody}
      /\ Solitary(c) => FindsItsOwn(c)
  BY OfDocument DEF D!Rasterise, D!AtWork
<1>3. PICK n \in 0..whole : pictures' = D!Rendered(b, d, n) /\ cut' = IF n < whole THEN cut \cup {c} ELSE cut
  BY <1>1 DEF D!Rasterise
<1>4. PICK at \in {"listing"} : documentCall' = [documentCall EXCEPT ![c].at = at]
  BY DEF D!Rasterise, D!Goes
<1>5. pictures' = [x \in D!Pictures |-> IF x[1] = b /\ x[2] \in 1..n THEN d ELSE pictures[x]]
  BY <1>3 DEF D!Rendered
<1>6. OnlyAt(b)
  BY <1>2, <1>5, OfDocument DEF OnlyAt, D!Family
<1>7. Solitary(c) => d = c /\ Clean(b)
  BY <1>1, <1>2 DEF FindsItsOwn
<1>8. Whole(c)' = Whole(c) /\ D!Pictures' = D!Pictures
  BY <1>4, OfDocument DEF Whole, D!Pictures, D!PageNumbers
<1>9. ASSUME Solitary(c), c \notin cut' PROVE Shows(c, b, Whole(c))'
  <2>1. n = Whole(c)
    <3>1. whole = Whole(c)
      BY <1>7, <1>9, DocumentAssumption DEF Whole
    <3> QED BY <1>3, <1>9, <3>1, Lengths1
  <2> HIDE DEF whole
  <2>2. n \in Nat /\ 1..n \subseteq D!PageNumbers
    BY <2>1, Lengths1
  <2>3. \A m \in 1..n : <<b, m>> \in D!Pictures /\ m > 0
    BY <2>2 DEF D!Pictures
  <2>4. ASSUME NEW x \in D!Pictures, IF x[1] = b THEN x[2] > 0 ELSE x[1] \in Longer[b]
        PROVE  pictures'[x] = IF x[1] = b /\ x[2] \in 1..n THEN c ELSE Nobody
    <3>1. pictures[x] = Nobody
      BY <1>7, <1>9, <2>4 DEF Clean, D!Listed
    <3> QED BY <1>5, <1>7, <1>9, <3>1
  <2>5. c # Nobody
    BY DocumentAssumption
  <2>6. \A x \in D!Pictures : x = <<x[1], x[2]>>
    BY DEF D!Pictures
  <2>7. D!Listed(b)' = {<<b, m>> : m \in 1..n}
    <3>1. ASSUME NEW x \in D!Listed(b)' PROVE x \in {<<b, m>> : m \in 1..n}
      <4>1. /\ x \in D!Pictures /\ pictures'[x] # Nobody
            /\ IF x[1] = b THEN x[2] > 0 ELSE x[1] \in Longer[b]
        BY <1>8, <3>1 DEF D!Listed
      <4>2. x[1] = b /\ x[2] \in 1..n
        BY <2>4, <4>1
      <4> QED BY <2>6, <4>1, <4>2
    <3>2. ASSUME NEW m \in 1..n PROVE <<b, m>> \in D!Listed(b)'
      <4>1. <<b, m>> \in D!Pictures /\ m > 0 /\ pictures'[<<b, m>>] # Nobody
        BY <2>3, <2>4, <2>5
      <4> QED BY <1>8, <4>1 DEF D!Listed
    <3> QED BY <3>1, <3>2
  <2>8. \A m \in 1..n : pictures'[<<b, m>>] = c
    BY <2>3, <2>4
  <2>9. n = Whole(c)'
    BY <1>8, <2>1
  <2> QED BY <2>7, <2>8, <2>9 DEF Shows
<1> HIDE DEF whole
<1>10. at \in D!Stages /\ Continues(c, b, at, documentCall[c].seen)
  BY <1>2, <1>4, <1>7, <1>9 DEF Continues, Solitary, D!Stages
<1>11. cut' \in {cut, cut \cup {c}}
  BY <1>3
<1> QED BY <1>1, <1>2, <1>4, <1>6, <1>10, <1>11, DocumentMoves

(* The first of a row of pages are the pages with the first numbers.        *)
LEMMA FirstOfRow ==
  ASSUME NEW b, NEW w \in Nat, NEW most \in Nat, NEW listed, listed = {<<b, m>> : m \in 1..w},
         NEW shown \in D!First(listed, most)
  PROVE  shown = {<<b, m>> : m \in 1..D!AtMost(w, most)}
<1> DEFINE Row(n) == {<<b, m>> : m \in 1..n}
           k == D!AtMost(w, most)
<1>1. ASSUME NEW n \in Nat PROVE IsFiniteSet(Row(n)) /\ Cardinality(Row(n)) = n
  <2> DEFINE f == [m \in 1..n |-> <<b, m>>]
  <2>1. f \in Bijection(1..n, Row(n))
    <3>1. f \in [1..n -> Row(n)] /\ \A x \in Row(n) : \E m \in 1..n : f[m] = x
      OBVIOUS
    <3>2. \A m, l \in 1..n : f[m] = f[l] => m = l
      OBVIOUS
    <3> HIDE DEF f, Row
    <3> QED BY <3>1, <3>2 DEF Bijection, Injection, IsInjective, Surjection
  <2>2. ExistsBijection(1..n, Row(n))
    BY <2>1 DEF ExistsBijection
  <2>3. IsFiniteSet(1..n) /\ Cardinality(1..n) = n
    BY FS_Interval
  <2> HIDE DEF Row
  <2> QED BY <2>2, <2>3, FS_Bijection
<1>2. k \in Nat /\ k <= w
  BY DEF D!AtMost
<1>3. /\ shown \in SUBSET Row(w) /\ D!Cardinality(shown) = D!AtMost(D!Cardinality(Row(w)), most)
      /\ \A x \in shown : \A y \in Row(w) \ shown : x[2] <= y[2]
  BY DEF D!First
<1>4. Cardinality(shown) = k
  BY <1>1, <1>3 DEF D!Cardinality, Cardinality
<1>5. ASSUME NEW x \in shown PROVE x \in Row(k)
  <2>1. PICK n \in 1..w : x = <<b, n>>
    BY <1>3
  <2>2. CASE n <= k
    BY <1>2, <2>1, <2>2
  <2>3. CASE n > k
    <3>1. ASSUME NEW m \in 1..n PROVE <<b, m>> \in shown
      <4>1. CASE m = n
        BY <2>1, <4>1
      <4>2. CASE m < n
        <5>1. <<b, m>> \in Row(w) /\ <<b, m>>[2] < x[2]
          BY <2>1, <4>2
        <5> QED BY <1>3, <2>1, <5>1, <4>2
      <4> QED BY <4>1, <4>2
    <3>2. Row(n) \in SUBSET shown
      BY <3>1
    <3>3. IsFiniteSet(shown)
      BY <1>1, <1>3, FS_Subset
    <3>4. Cardinality(Row(n)) <= k /\ Cardinality(Row(n)) = n
      <4> HIDE DEF Row
      <4> QED BY <1>1, <1>4, <3>2, <3>3, FS_Subset
    <3> QED BY <1>2, <2>3, <3>4
  <2> QED BY <1>2, <2>2, <2>3
<1>6. shown \in SUBSET Row(k)
  BY <1>5
<1> HIDE DEF Row, k
<1>7. shown = Row(k)
  BY <1>1, <1>2, <1>4, <1>6, FS_Subset
<1> QED BY <1>7 DEF Row, k

LEMMA ListKeeps == ASSUME DocumentInv, NEW c \in Documented, D!List(c) PROVE DocumentInv'
<1>1. PICK b \in Bases : b = D!Base(c)
  BY OfDocument
<1>2. /\ documentCall[c].at = "listing" /\ UNCHANGED <<document, pictures, pdf, met, stale, cut>>
      /\ D!AtWork(c) /\ "judging" \in D!Stages /\ (Solitary(c) => FindsItsOwn(c))
      /\ documentCall \in [Documented -> DocumentCalls] /\ documentCall[c] \in DocumentCalls
      /\ pictures \in [D!Pictures -> Documented \cup {Nobody}]
  BY OfDocument DEF D!List, D!AtWork, D!Stages
<1>3. PICK shown \in D!First(D!Listed(b), D!AtMost(MaxPages, MaxJudged)) :
        documentCall' = [documentCall EXCEPT ![c].at = "judging", ![c].seen = {<<x[2], pictures[x]>> : x \in shown}]
  BY <1>1 DEF D!List
<1> DEFINE seen == {<<x[2], pictures[x]>> : x \in shown}
           r == [documentCall[c] EXCEPT !.at = "judging", !.seen = seen]
<1>4. seen \in SUBSET (({0} \cup D!PageNumbers) \X Documented)
  <2>1. \A x \in shown : x \in D!Listed(b)
    BY DEF D!First
  <2>2. \A x \in D!Listed(b) : x[2] \in {0} \cup D!PageNumbers /\ pictures[x] \in Documented
    BY <1>2 DEF D!Listed, D!Pictures
  <2> QED BY <2>1, <2>2
<1>5. ASSUME Solitary(c), c \notin cut PROVE seen = OwnSeen(c)
  <2>1. Shows(c, b, Whole(c))
    BY <1>1, <1>2, <1>5 DEF FindsItsOwn
  <2>2. Whole(c) \in Nat /\ D!AtMost(MaxPages, MaxJudged) \in Nat
    BY Lengths1, DocumentAssumption DEF D!AtMost
  <2>3. shown = {<<b, m>> : m \in 1..D!AtMost(Whole(c), D!AtMost(MaxPages, MaxJudged))}
    BY <2>1, <2>2, FirstOfRow DEF Shows
  <2>4. D!AtMost(Whole(c), D!AtMost(MaxPages, MaxJudged)) = Judgeable(c)
    BY Lengths1, DocumentAssumption DEF Whole, Judgeable, D!AtMost
  <2>5. Judgeable(c) \in Nat /\ Judgeable(c) <= Whole(c)
    BY <2>2, <2>4 DEF D!AtMost
  <2>6. shown = {<<b, m>> : m \in 1..Judgeable(c)}
    BY <2>3, <2>4
  <2>7. \A m \in 1..Judgeable(c) : pictures[<<b, m>>] = c
    BY <2>1, <2>2, <2>5 DEF Shows
  <2>8. \A x \in shown : \E m \in 1..Judgeable(c) : x = <<b, m>> /\ <<x[2], pictures[x]>> = <<m, c>>
    BY <2>6, <2>7
  <2>9. \A m \in 1..Judgeable(c) : \E x \in shown : <<x[2], pictures[x]>> = <<m, c>>
    <3> SUFFICES ASSUME NEW m \in 1..Judgeable(c) PROVE \E x \in shown : <<x[2], pictures[x]>> = <<m, c>>
      OBVIOUS
    <3>1. <<b, m>> \in shown
      BY <2>6
    <3>2. <<(<<b, m>>)[2], pictures[<<b, m>>]>> = <<m, c>>
      BY <2>7
    <3> QED BY <3>1, <3>2
  <2> QED BY <2>8, <2>9 DEF OwnSeen
<1> HIDE DEF seen
<1>6. /\ r \in DocumentCalls /\ r.at = "judging" /\ r.path = documentCall[c].path
      /\ r.length = documentCall[c].length /\ r.seen = seen
  BY <1>2, <1>4 DEF DocumentCalls
<1>7. documentCall' = [documentCall EXCEPT ![c] = r]
  BY <1>2, <1>3 DEF seen
<1>8. Continues(c, b, r.at, r.seen)
  BY <1>2, <1>5, <1>6 DEF Continues, Solitary
<1>9. OnlyAt(b)
  BY <1>2, Unchanged
<1> HIDE DEF r
<1> QED BY <1>1, <1>2, <1>6, <1>7, <1>8, <1>9, DocumentStep

LEMMA DrawFirstKeeps == ASSUME DocumentInv, NEW c \in Documented, D!DrawFirst(c) PROVE DocumentInv'
<1>1. PICK b \in Bases : b = D!Base(c)
  BY OfDocument
<1>2. /\ documentCall[c].at = "listing" /\ UNCHANGED <<document, pdf, met, stale>> /\ cut' = cut \cup {c}
      /\ D!AtWork(c) /\ "judging" \in D!Stages /\ "failed" \in D!Stages
      /\ pictures' \in {pictures, [pictures EXCEPT ![<<b, 0>>] = document[documentCall[c].path]]}
  BY <1>1, OfDocument DEF D!DrawFirst, D!AtWork, D!Stages
<1>3. /\ document[documentCall[c].path] \in Documented \cup {Nobody}
      /\ documentCall \in [Documented -> DocumentCalls] /\ documentCall[c] \in DocumentCalls
      /\ pdf \in [Bases -> Documented \cup {Nobody}]
      /\ pictures \in [D!Pictures -> Documented \cup {Nobody}]
  BY OfDocument
<1>4. pictures' \in [D!Pictures -> Documented \cup {Nobody}]
  BY <1>2, <1>3
<1>5. OnlyAt(b)
  <2>1. \A x \in D!Pictures : x[1] \notin D!Family(b) => x # <<b, 0>>
    BY DEF D!Family
  <2>2. \A x \in D!Pictures : x # <<b, 0>> => pictures'[x] = pictures[x]
    BY <1>2, <1>3
  <2> QED BY <1>2, <1>3, <1>4, <2>1, <2>2 DEF OnlyAt
<1>6. \A at \in {"failed", "judging"} : \A seen : Continues(c, b, at, seen)
  BY <1>2 DEF Continues
<1>7. CASE documentCall' = [documentCall EXCEPT ![c].at = "failed"]
  <2>1. PICK at \in {"failed"} : documentCall' = [documentCall EXCEPT ![c].at = at]
    BY <1>7
  <2>2. at \in D!Stages /\ Continues(c, b, at, documentCall[c].seen)
    BY <1>2, <1>6, <2>1
  <2> QED BY <1>1, <1>2, <1>5, <2>1, <2>2, DocumentMoves
<1>8. CASE /\ pictures'[<<b, 0>>] # Nobody
           /\ documentCall' = [documentCall EXCEPT ![c].at = "judging", ![c].seen = {<<0, pictures'[<<b, 0>>]>>}]
  <2> DEFINE seen == {<<0, pictures'[<<b, 0>>]>>}
             r == [documentCall[c] EXCEPT !.at = "judging", !.seen = seen]
  <2>1. <<b, 0>> \in D!Pictures
    BY DEF D!Pictures
  <2>2. seen \in SUBSET (({0} \cup D!PageNumbers) \X Documented)
    BY <1>4, <1>8, <2>1
  <2> HIDE DEF seen
  <2>3. /\ r \in DocumentCalls /\ r.at = "judging" /\ r.path = documentCall[c].path
        /\ r.length = documentCall[c].length
    BY <1>2, <1>3, <2>2 DEF DocumentCalls
  <2>4. documentCall' = [documentCall EXCEPT ![c] = r]
    BY <1>3, <1>8 DEF seen
  <2>5. Continues(c, b, r.at, r.seen)
    BY <1>6, <2>3
  <2> HIDE DEF r
  <2> QED BY <1>1, <1>2, <1>5, <2>3, <2>4, <2>5, DocumentStep
<1> QED BY <1>1, <1>7, <1>8 DEF D!DrawFirst, D!Goes

(* A call that is at work where another's pictures may be has met it.       *)
LEMMA BuildKeeps == ASSUME DocumentInv, NEW c \in Documented, D!Build(c) PROVE DocumentInv'
<1> DEFINE b == D!Base(c)
           path == documentCall[c].path
           others == {d \in Documented \ {c} : D!AtWork(d) /\ D!Family(D!Base(d)) \cap D!Family(b) # {}}
<1>1. /\ documentCall[c].at = "idle" /\ UNCHANGED <<pictures, pdf, stale, cut>>
      /\ b \in Bases /\ path \in Paths /\ {"structure", "failed"} \subseteq D!Stages
      /\ documentCall \in [Documented -> DocumentCalls] /\ documentCall[c] \in DocumentCalls
      /\ DocumentKinds /\ MeetingsAreSeen
  BY OfDocument DEF D!Build, D!Stages, DocumentInv
<1>2. PICK at \in {"structure", "failed"} :
        /\ documentCall' = [documentCall EXCEPT ![c].at = at]
        /\ \/ at = "failed" /\ UNCHANGED <<document, met>>
           \/ /\ at = "structure" /\ document' = [document EXCEPT ![path] = c]
              /\ met' = met \cup others \cup (IF others # {} THEN {c} ELSE {})
  BY DEF D!Build, D!Goes
<1>3. /\ documentCall' \in [Documented -> DocumentCalls]
      /\ documentCall'[c].at = at /\ documentCall'[c].path = path
      /\ documentCall'[c].length = documentCall[c].length
      /\ \A d \in Documented \ {c} : documentCall'[d] = documentCall[d]
  <2>1. at \in D!Stages
    BY <1>1
  <2>2. [documentCall[c] EXCEPT !.at = at] \in DocumentCalls
    BY <1>1, <2>1 DEF DocumentCalls
  <2>3. documentCall' = [documentCall EXCEPT ![c] = [documentCall[c] EXCEPT !.at = at]]
    BY <1>1, <1>2
  <2>4. documentCall' \in [Documented -> DocumentCalls]
    BY <1>1, <2>2, <2>3
  <2> QED BY <1>1, <1>2, <2>4 DEF DocumentCalls
<1>4. DocumentKinds'
  <2>1. D!Pictures' = D!Pictures
    BY DEF D!Pictures, D!PageNumbers
  <2>2. document' \in [Paths -> Documented \cup {Nobody}]
    BY <1>1, <1>2 DEF DocumentKinds
  <2> QED BY <1>1, <1>3, <2>1, <2>2 DEF DocumentKinds
<1>5. \A d \in Documented : D!Base(d)' = D!Base(d) /\ (d # c => (D!AtWork(d)' <=> D!AtWork(d)))
  BY <1>3 DEF D!Base, D!AtWork
<1>6. MeetingsAreSeen'
  <2> SUFFICES ASSUME NEW d \in Documented, NEW e \in Documented,
                      d # e, D!AtWork(d)', D!AtWork(e)',
                      (D!Family(D!Base(d)) \cap D!Family(D!Base(e)) # {})'
               PROVE  d \in met'
    BY DEF MeetingsAreSeen
  <2>1. D!Family(D!Base(d)) \cap D!Family(D!Base(e)) # {} /\ met \subseteq met'
    BY <1>2, <1>5 DEF D!Family
  <2>2. CASE d # c /\ e # c
    BY <1>1, <1>5, <2>1, <2>2 DEF MeetingsAreSeen
  <2>3. CASE d = c \/ e = c
    <3>1. D!AtWork(c)'
      BY <2>3
    <3>2. at = "structure"
      BY <1>2, <1>3, <3>1 DEF D!AtWork
    <3>3. d = c => e \in others
      BY <1>5, <2>1
    <3>4. e = c => d \in others
      BY <1>5, <2>1
    <3> HIDE DEF others
    <3> QED BY <1>2, <2>3, <3>2, <3>3, <3>4
  <2> QED BY <2>2, <2>3
<1>7. ASSUME NEW d \in Documented, Solitary(d)' PROVE FindsItsOwn(d)'
  <2>1. Solitary(d) /\ FindsItsOwn(d) /\ d \notin met'
    BY <1>1, <1>2, <1>7 DEF DocumentInv, Solitary
  <2>2. Whole(d)' = Whole(d) /\ OwnSeen(d)' = OwnSeen(d)
    <3>1. documentCall'[d].length = documentCall[d].length
      BY <1>3
    <3> QED BY <3>1 DEF Whole, Judgeable, OwnSeen
  <2>3. CASE d = c
    <3>1. at = "structure" => document'[documentCall'[c].path] = c
      BY <1>1, <1>2, <1>3 DEF DocumentKinds
    <3> QED BY <1>2, <1>3, <2>3, <3>1 DEF FindsItsOwn, D!AtWork
  <2>4. CASE d # c
    <3>1. documentCall'[d] = documentCall[d]
      BY <1>3, <2>4
    <3>2. D!AtWork(d) => document'[documentCall[d].path] = d
      <4> SUFFICES ASSUME D!AtWork(d) PROVE document'[documentCall[d].path] = d
        OBVIOUS
      <4>1. document[documentCall[d].path] = d /\ documentCall[d].path \in Paths
        BY <2>1, OfDocument DEF FindsItsOwn
      <4>2. at = "structure" => documentCall[d].path # path
        <5> SUFFICES ASSUME at = "structure", documentCall[d].path = path PROVE FALSE
          OBVIOUS
        <5>1. D!Base(d) = b
          BY DEF D!Base
        <5>2. d \in others
          BY <2>4, <5>1 DEF D!Family
        <5> HIDE DEF others
        <5> QED BY <1>2, <2>1, <5>2
      <4> QED BY <1>1, <1>2, <4>1, <4>2 DEF DocumentKinds
    <3>3. D!Pictures' = D!Pictures
      BY DEF D!Pictures, D!PageNumbers
    <3> HIDE DEF b, path, others
    <3>4. UNCHANGED <<pictures, pdf, cut>> /\ D!Base(d)' = D!Base(d)
      BY <1>1, <1>2, <3>1 DEF D!Base
    <3>5. Clean(D!Base(d))' = Clean(D!Base(d))
      BY <3>3, <3>4 DEF Clean, D!Listed
    <3>6. Shows(d, D!Base(d), Whole(d))' = Shows(d, D!Base(d), Whole(d))
      BY <2>2, <3>3, <3>4 DEF Shows, D!Listed
    <3>7. D!AtWork(d)' = D!AtWork(d)
      BY <3>1 DEF D!AtWork
    <3> QED BY <2>1, <2>2, <3>1, <3>2, <3>4, <3>5, <3>6, <3>7 DEF FindsItsOwn
  <2> QED BY <2>3, <2>4
<1> QED BY <1>4, <1>6, <1>7 DEF DocumentInv

LEMMA DocumentNextKeeps == DocumentInv /\ [D!Next]_documentVars => DocumentInv'
<1> SUFFICES ASSUME DocumentInv, [D!Next]_documentVars PROVE DocumentInv'
  OBVIOUS
<1>1. ASSUME NEW c \in Documented,
             \/ D!Build(c) \/ D!CheckStructure(c) \/ D!ClearPdf(c) \/ D!Convert(c) \/ D!Converted(c)
             \/ D!ClearPages(c) \/ D!Rasterise(c) \/ D!List(c) \/ D!DrawFirst(c) \/ D!Judged(c)
      PROVE  DocumentInv'
  BY <1>1, BuildKeeps, CheckStructureKeeps, ClearPdfKeeps, ConvertKeeps, ConvertedKeeps, ClearPagesKeeps,
     RasteriseKeeps, ListKeeps, DrawFirstKeeps, JudgedKeeps
<1>2. CASE UNCHANGED documentVars
  <2>1. /\ D!Pictures' = D!Pictures /\ D!PageNumbers' = D!PageNumbers
        /\ UNCHANGED <<document, pictures, pdf, documentCall, met, stale, cut>>
    BY <1>2 DEF documentVars, D!Pictures, D!PageNumbers
  <2>2. DocumentKinds' /\ MeetingsAreSeen'
    BY <2>1 DEF DocumentInv, DocumentKinds, MeetingsAreSeen, D!AtWork, D!Base, D!Family
  <2>3. \A c \in Documented : D!Base(c)' = D!Base(c) /\ Whole(c)' = Whole(c) /\ OwnSeen(c)' = OwnSeen(c)
    BY <2>1 DEF Whole, Judgeable, OwnSeen, D!Base
  <2>4. ASSUME NEW c \in Documented, Solitary(c)' PROVE FindsItsOwn(c)'
    <3>1. FindsItsOwn(c)
      BY <2>1, <2>4 DEF DocumentInv, Solitary
    <3>2. Clean(D!Base(c))' = Clean(D!Base(c))
      BY <2>1, <2>3 DEF Clean, D!Listed
    <3>3. \A n : Shows(c, D!Base(c), n)' = Shows(c, D!Base(c), n)
      BY <2>1, <2>3 DEF Shows, D!Listed
    <3> QED BY <2>1, <2>3, <3>1, <3>2, <3>3 DEF FindsItsOwn, D!AtWork
  <2> QED BY <2>1, <2>2, <2>4 DEF DocumentInv
<1> QED BY <1>1, <1>2 DEF D!Next

LEMMA DocumentInvHolds == D!Spec => []DocumentInv
<1>1. DocumentInv /\ [D!Next]_(D!vars) => DocumentInv'
  BY DocumentNextKeeps DEF D!vars, documentVars
<1> QED BY DocumentsBegin, <1>1, PTL DEF D!Spec

-----------------------------------------------------------------------------
(* Python.                                                                  *)
PythonPlaces == {"idle", "asking", "written", "listed", "running", "ended", "over"}
PythonCalls == [at : PythonPlaces, label : Labels, before : SUBSET (Files \cup Labels),
                ran : Scripted \cup {Nobody}, created : SUBSET (Files \cup Labels)]

PythonKinds ==
  /\ script \in [Labels -> Scripted \cup {Nobody}] /\ files \subseteq Files \cup Labels
  /\ pythonCall \in [Scripted -> PythonCalls]
  /\ made \in [Scripted -> SUBSET Files]

(* The script is the call's own until it runs, if its label is and nobody   *)
(* removed it.                                                              *)
Runs(c, k) ==
  /\ k.at \in {"written", "listed"} => script[k.label] \in {c, Nobody}
  /\ k.ran \in {c, Nobody}

(* What a call has made is among what it did not list before it ran, and is *)
(* all of that, its script apart, unless somebody else was making files or  *)
(* writing a script, or something was missed or removed.  Over, it is       *)
(* claimed.                                                                 *)
Claims(c, k, lost) ==
  /\ k.at = "idle" => k.created = {}
  /\ k.at \in {"idle", "asking", "written"} => made[c] = {}
  /\ k.at \in {"listed", "running", "ended"} /\ c \notin lost =>
       /\ k.before \subseteq files /\ made[c] \subseteq files \ k.before
       /\ c \notin busy => (files \ k.before) \ {k.label} = made[c]
  /\ k.at = "over" /\ c \notin lost =>
       /\ made[c] \subseteq k.created
       /\ c \notin busy => k.created = made[c]

PythonInv ==
  /\ PythonKinds
  /\ \A c \in Scripted \ shared : Runs(c, pythonCall[c])
  /\ \A c \in Scripted : Claims(c, pythonCall[c], blurred)

LEMMA PythonBegins == P!Init => PythonInv
<1> SUFFICES ASSUME P!Init PROVE PythonInv
  OBVIOUS
<1>1. /\ script = [l \in Labels |-> Nobody] /\ files = {} /\ made = [c \in Scripted |-> {}]
      /\ pythonCall \in [Scripted -> [at : {"idle"}, label : Labels, before : {{}}, ran : {Nobody}, created : {{}}]]
  BY DEF P!Init
<1>2. \A c \in Scripted : pythonCall[c].at = "idle" /\ pythonCall[c].ran = Nobody /\ pythonCall[c].created = {}
  BY <1>1
<1>3. PythonKinds
  <2>1. pythonCall \in [Scripted -> PythonCalls]
    <3>1. {"idle"} \subseteq PythonPlaces /\ {{}} \subseteq SUBSET Files /\ {Nobody} \subseteq Scripted \cup {Nobody}
      BY DEF PythonPlaces
    <3> QED BY <1>1, <3>1 DEF PythonCalls
  <2> QED BY <1>1, <2>1 DEF PythonKinds
<1>4. \A c \in Scripted : Runs(c, pythonCall[c]) /\ Claims(c, pythonCall[c], blurred)
  BY <1>1, <1>2 DEF Runs, Claims
<1> QED BY <1>3, <1>4 DEF PythonInv

LEMMA PythonCallFields ==
  ASSUME NEW k \in PythonCalls, NEW at \in PythonPlaces
  PROVE  /\ k.before \in SUBSET (Files \cup Labels) /\ k.created \in SUBSET (Files \cup Labels)
         /\ k.label \in Labels
         /\ LET r == [k EXCEPT !.at = at]
            IN  /\ r \in PythonCalls /\ r.at = at /\ r.label = k.label /\ r.before = k.before
                /\ r.ran = k.ran /\ r.created = k.created
BY DEF PythonCalls

(* A step of one call that writes no script and makes no file.              *)
LEMMA PythonStep ==
  ASSUME PythonInv, NEW c \in Scripted, NEW r \in PythonCalls,
         pythonCall' = [pythonCall EXCEPT ![c] = r],
         UNCHANGED <<script, files, made, shared, busy>>, blurred \subseteq blurred',
         c \notin shared => Runs(c, r), Claims(c, r, blurred')
  PROVE  PythonInv'
<1>1. pythonCall' \in [Scripted -> PythonCalls] /\ pythonCall \in [Scripted -> PythonCalls]
  BY DEF PythonInv, PythonKinds
<1>2. PythonKinds'
  BY <1>1 DEF PythonInv, PythonKinds
<1>3. \A d \in Scripted : (d \notin shared => Runs(d, pythonCall'[d])) /\ Claims(d, pythonCall'[d], blurred')
  <2> SUFFICES ASSUME NEW d \in Scripted
               PROVE  (d \notin shared => Runs(d, pythonCall'[d])) /\ Claims(d, pythonCall'[d], blurred')
    OBVIOUS
  <2>1. CASE d = c
    BY <1>1, <2>1
  <2>2. CASE d # c
    <3>1. pythonCall'[d] = pythonCall[d]
      BY <1>1, <2>2
    <3>2. (d \notin shared => Runs(d, pythonCall[d])) /\ Claims(d, pythonCall[d], blurred)
      BY DEF PythonInv
    <3>3. Claims(d, pythonCall[d], blurred')
      BY <3>2 DEF Claims
    <3> QED BY <3>1, <3>2, <3>3
  <2> QED BY <2>1, <2>2
<1>4. (\A d \in Scripted \ shared : Runs(d, pythonCall[d]))'
  BY <1>3 DEF Runs
<1>5. (\A d \in Scripted : Claims(d, pythonCall[d], blurred))'
  BY <1>3 DEF Claims
<1> QED BY <1>2, <1>4, <1>5 DEF PythonInv

LEMMA OfPythonCall ==
  ASSUME PythonInv, NEW c \in Scripted
  PROVE  /\ pythonCall[c] \in PythonCalls /\ (c \notin shared => Runs(c, pythonCall[c]))
         /\ Claims(c, pythonCall[c], blurred) /\ pythonCall \in [Scripted -> PythonCalls]
         /\ files \subseteq Files \cup Labels /\ script \in [Labels -> Scripted \cup {Nobody}] /\ made[c] \subseteq Files
BY DEF PythonInv, PythonKinds

(* Where a call is, and no more.                                            *)
LEMMA PythonMoves ==
  ASSUME PythonInv, NEW c \in Scripted, NEW at \in PythonPlaces,
         pythonCall' = [pythonCall EXCEPT ![c].at = at],
         UNCHANGED <<script, files, made, shared, busy, blurred>>,
         \/ pythonCall[c].at = "idle" /\ at \in {"asking", "over"}
         \/ pythonCall[c].at = "running" /\ at = "ended"
  PROVE  PythonInv'
<1> DEFINE r == [pythonCall[c] EXCEPT !.at = at]
<1>1. /\ pythonCall[c] \in PythonCalls /\ (c \notin shared => Runs(c, pythonCall[c]))
      /\ Claims(c, pythonCall[c], blurred) /\ pythonCall \in [Scripted -> PythonCalls]
  BY OfPythonCall
<1>2. /\ r \in PythonCalls /\ r.at = at /\ r.label = pythonCall[c].label /\ r.before = pythonCall[c].before
      /\ r.ran = pythonCall[c].ran /\ r.created = pythonCall[c].created
  BY <1>1, PythonCallFields
<1>3. pythonCall' = [pythonCall EXCEPT ![c] = r]
  BY <1>1
<1> HIDE DEF r
<1>4. c \notin shared => Runs(c, r)
  BY <1>1, <1>2 DEF Runs
<1>5. Claims(c, r, blurred')
  BY <1>1, <1>2 DEF Claims
<1> QED BY <1>2, <1>3, <1>4, <1>5, PythonStep

LEMMA ListBeforeKeeps == ASSUME PythonInv, NEW c \in Scripted, P!ListBefore(c) PROVE PythonInv'
<1>1. PICK listed \in SUBSET files :
        /\ P!Lists(c, listed)
        /\ pythonCall' = [pythonCall EXCEPT ![c].at = "listed", ![c].before = listed]
  BY DEF P!ListBefore
<1> DEFINE r == [pythonCall[c] EXCEPT !.at = "listed", !.before = listed]
<1>2. /\ pythonCall[c] \in PythonCalls /\ (c \notin shared => Runs(c, pythonCall[c]))
      /\ Claims(c, pythonCall[c], blurred) /\ pythonCall \in [Scripted -> PythonCalls]
      /\ files \in SUBSET (Files \cup Labels) /\ "listed" \in PythonPlaces
  BY OfPythonCall DEF PythonPlaces
<1>3. /\ pythonCall[c].at = "written" /\ UNCHANGED <<script, files, made, shared, busy>>
      /\ blurred \subseteq blurred' /\ (c \notin blurred' => listed = files)
  BY <1>1 DEF P!ListBefore, P!Lists
<1>4. /\ r \in PythonCalls /\ r.at = "listed" /\ r.label = pythonCall[c].label /\ r.before = listed
      /\ r.ran = pythonCall[c].ran
  BY <1>2 DEF PythonCalls
<1>5. pythonCall' = [pythonCall EXCEPT ![c] = r]
  BY <1>1, <1>2
<1> HIDE DEF r
<1>6. c \notin shared => Runs(c, r)
  BY <1>2, <1>3, <1>4 DEF Runs
<1>7. Claims(c, r, blurred')
  BY <1>2, <1>3, <1>4 DEF Claims
<1> QED BY <1>3, <1>4, <1>5, <1>6, <1>7, PythonStep

LEMMA RunKeeps == ASSUME PythonInv, NEW c \in Scripted, P!Run(c) PROVE PythonInv'
<1> DEFINE ran == script[pythonCall[c].label]
           r == [pythonCall[c] EXCEPT !.at = "running", !.ran = ran]
<1>1. /\ pythonCall[c] \in PythonCalls /\ (c \notin shared => Runs(c, pythonCall[c]))
      /\ Claims(c, pythonCall[c], blurred) /\ pythonCall \in [Scripted -> PythonCalls]
      /\ script \in [Labels -> Scripted \cup {Nobody}] /\ "running" \in PythonPlaces
  BY OfPythonCall DEF PythonPlaces
<1>2. pythonCall[c].at = "listed" /\ UNCHANGED <<script, files, made, shared, busy, blurred>>
  BY DEF P!Run
<1>3. ran \in Scripted \cup {Nobody}
  BY <1>1, PythonCallFields
<1>4. pythonCall' = [pythonCall EXCEPT ![c] = r]
  BY <1>1 DEF P!Run
<1>5. c \notin shared => ran \in {c, Nobody}
  BY <1>1, <1>2 DEF Runs
<1> HIDE DEF ran
<1>6. /\ r \in PythonCalls /\ r.at = "running" /\ r.before = pythonCall[c].before /\ r.ran = ran
      /\ r.label = pythonCall[c].label
  BY <1>1, <1>3 DEF PythonCalls
<1> HIDE DEF r
<1>7. c \notin shared => Runs(c, r)
  BY <1>5, <1>6 DEF Runs
<1>8. Claims(c, r, blurred')
  BY <1>1, <1>2, <1>6 DEF Claims
<1> QED BY <1>2, <1>4, <1>6, <1>7, <1>8, PythonStep

LEMMA ListAfterKeeps == ASSUME PythonInv, NEW c \in Scripted, P!ListAfter(c) PROVE PythonInv'
<1> DEFINE created(listed) == (listed \ pythonCall[c].before) \ {pythonCall[c].label}
<1>1. PICK listed \in SUBSET files :
        /\ P!Lists(c, listed)
        /\ pythonCall' = [pythonCall EXCEPT ![c].at = "over", ![c].before = {}, ![c].created = created(listed)]
  BY DEF P!ListAfter
<1> DEFINE new == created(listed)
           r == [pythonCall[c] EXCEPT !.at = "over", !.before = {}, !.created = new]
<1>2. /\ pythonCall[c] \in PythonCalls /\ (c \notin shared => Runs(c, pythonCall[c]))
      /\ Claims(c, pythonCall[c], blurred) /\ pythonCall \in [Scripted -> PythonCalls]
      /\ files \subseteq Files \cup Labels /\ "over" \in PythonPlaces
      /\ pythonCall[c].label \in Labels /\ made[c] \subseteq Files
  BY OfPythonCall, PythonCallFields DEF PythonPlaces
<1>3. /\ pythonCall[c].at = "ended" /\ UNCHANGED <<script, files, made, shared, busy>>
      /\ blurred \subseteq blurred' /\ (c \notin blurred' => listed = files)
  BY <1>1 DEF P!ListAfter, P!Lists
<1>4. new \in SUBSET (Files \cup Labels)
  BY <1>2
<1>5. pythonCall' = [pythonCall EXCEPT ![c] = r]
  BY <1>1, <1>2
<1>6. c \notin blurred' => made[c] \subseteq new /\ (c \notin busy => new = made[c])
  BY <1>2, <1>3, PythonAssumption DEF Claims
<1> HIDE DEF new
<1>7. /\ r \in PythonCalls /\ r.at = "over" /\ r.ran = pythonCall[c].ran /\ r.created = new
  BY <1>2, <1>4 DEF PythonCalls
<1> HIDE DEF r
<1>8. c \notin shared => Runs(c, r)
  BY <1>2, <1>7 DEF Runs
<1>9. Claims(c, r, blurred')
  BY <1>3, <1>6, <1>7 DEF Claims
<1> QED BY <1>3, <1>5, <1>7, <1>8, <1>9, PythonStep

LEMMA WriteScriptKeeps == ASSUME PythonInv, NEW c \in Scripted, P!WriteScript(c) PROVE PythonInv'
<1> DEFINE l == pythonCall[c].label
           r == [pythonCall[c] EXCEPT !.at = "written"]
<1>1. /\ pythonCall[c] \in PythonCalls /\ (c \notin shared => Runs(c, pythonCall[c]))
      /\ Claims(c, pythonCall[c], blurred) /\ pythonCall \in [Scripted -> PythonCalls]
      /\ script \in [Labels -> Scripted \cup {Nobody}] /\ "written" \in PythonPlaces /\ l \in Labels
  BY OfPythonCall, PythonCallFields DEF PythonPlaces
<1>2. /\ pythonCall[c].at = "asking" /\ script' = [script EXCEPT ![l] = c]
      /\ shared' = shared \cup P!Sharing(c) /\ files' = files \cup {l} /\ UNCHANGED made
      /\ busy' = IF l \in files THEN busy ELSE busy \cup (P!Watching \ {c})
      /\ blurred' = blurred
  BY DEF P!WriteScript
<1>3. /\ r \in PythonCalls /\ r.at = "written" /\ r.label = l /\ r.before = pythonCall[c].before
      /\ r.ran = pythonCall[c].ran /\ r.created = pythonCall[c].created
  BY <1>1, PythonCallFields
<1>4. pythonCall' = [pythonCall EXCEPT ![c] = r]
  BY <1>1 DEF P!WriteScript, P!Goes
<1> HIDE DEF r
<1>5. pythonCall'[c] = r /\ \A d \in Scripted \ {c} : pythonCall'[d] = pythonCall[d]
  BY <1>1, <1>4
<1>6. script'[l] = c /\ \A m \in Labels \ {l} : script'[m] = script[m]
  BY <1>1, <1>2
<1>7. PythonKinds'
  <2>1. pythonCall' \in [Scripted -> PythonCalls]
    BY <1>1, <1>3, <1>4
  <2>2. script' \in [Labels -> Scripted \cup {Nobody}]
    BY <1>1, <1>2
  <2>3. files' \subseteq Files \cup Labels
    BY <1>1, <1>2 DEF PythonInv, PythonKinds
  <2> QED BY <1>2, <2>1, <2>2, <2>3 DEF PythonInv, PythonKinds
<1>8. (\A d \in Scripted \ shared : Runs(d, pythonCall[d]))'
  <2> SUFFICES ASSUME NEW d \in Scripted, d \notin shared' PROVE Runs(d, pythonCall[d])'
    OBVIOUS
  <2>1. d \notin shared
    BY <1>2
  <2>2. CASE d = c
    BY <1>1, <1>3, <1>5, <1>6, <2>1, <2>2 DEF Runs
  <2>3. CASE d # c
    <3>1. Runs(d, pythonCall[d]) /\ pythonCall'[d] = pythonCall[d] /\ pythonCall[d].label \in Labels
      BY <1>5, <2>1, <2>3, OfPythonCall, PythonCallFields, <1>1
    <3>2. pythonCall[d].at \in {"written", "listed"} => pythonCall[d].label # l
      BY <1>2, <2>3 DEF P!Sharing
    <3> QED BY <1>6, <3>1, <3>2 DEF Runs
  <2> QED BY <2>2, <2>3
<1>9. (\A d \in Scripted : Claims(d, pythonCall[d], blurred))'
  <2> SUFFICES ASSUME NEW d \in Scripted PROVE Claims(d, pythonCall[d], blurred)'
    OBVIOUS
  <2>1. CASE d = c
    BY <1>1, <1>2, <1>3, <1>5, <2>1 DEF Claims
  <2>2. CASE d # c
    <3>1. Claims(d, pythonCall[d], blurred) /\ pythonCall'[d] = pythonCall[d]
      BY <1>5, <2>2, OfPythonCall
    <3>2. CASE l \in files
      <4>1. files' = files /\ busy' = busy
        BY <1>2, <3>2
      <4> QED BY <1>2, <3>1, <4>1 DEF Claims
    <3>3. CASE l \notin files
      <4>1. pythonCall[d].at \in {"listed", "running", "ended"} => d \in busy'
        BY <1>2, <2>2, <3>3 DEF P!Watching
      <4>2. files \subseteq files' /\ busy \subseteq busy' /\ made' = made /\ blurred' = blurred
        BY <1>2
      <4> QED BY <3>1, <4>1, <4>2 DEF Claims
    <3> QED BY <3>2, <3>3
  <2> QED BY <2>1, <2>2
<1> QED BY <1>7, <1>8, <1>9 DEF PythonInv

(* A file that comes to be: everybody who is between two listings is busy,  *)
(* but the call whose code made it.                                         *)
LEMMA FileMade ==
  ASSUME PythonInv, NEW f \in Files, f \notin files, files' = files \cup {f},
         UNCHANGED <<script, pythonCall, shared, blurred>>, busy \subseteq busy',
         NEW makers \in SUBSET Scripted,
         \A c \in makers : pythonCall[c].at = "running",
         made' = [c \in Scripted |-> IF c \in makers THEN made[c] \cup {f} ELSE made[c]],
         \A c \in Scripted \ makers : pythonCall[c].at \in {"listed", "running", "ended"} => c \in busy'
  PROVE  PythonInv'
<1>1. PythonKinds'
  BY DEF PythonInv, PythonKinds
<1>2. (\A c \in Scripted \ shared : Runs(c, pythonCall[c]))'
  BY DEF PythonInv, Runs
<1>3. (\A c \in Scripted : Claims(c, pythonCall[c], blurred))'
  <2> SUFFICES ASSUME NEW c \in Scripted PROVE Claims(c, pythonCall[c], blurred)'
    OBVIOUS
  <2>1. /\ Claims(c, pythonCall[c], blurred) /\ pythonCall[c].before \subseteq Files \cup Labels
        /\ pythonCall[c].label # f
    <3>1. pythonCall[c] \in PythonCalls
      BY OfPythonCall
    <3> QED BY <3>1, OfPythonCall, PythonAssumption DEF PythonCalls
  <2>2. CASE c \in makers
    <3>1. made'[c] = made[c] \cup {f} /\ pythonCall[c].at = "running"
      BY <2>2
    <3>2. c \notin blurred => f \notin pythonCall[c].before
      BY <2>1, <3>1 DEF Claims
    <3> QED BY <2>1, <3>1, <3>2 DEF Claims
  <2>3. CASE c \notin makers
    BY <2>1, <2>3 DEF Claims
  <2> QED BY <2>2, <2>3
<1> QED BY <1>1, <1>2, <1>3 DEF PythonInv

LEMMA MakesKeeps == ASSUME PythonInv, NEW c \in Scripted, NEW f \in Files, P!Makes(c, f) PROVE PythonInv'
<1>1. /\ pythonCall[c].at = "running" /\ f \notin files /\ files' = files \cup {f}
      /\ made' = [made EXCEPT ![c] = @ \cup {f}] /\ busy' = busy \cup (P!Watching \ {c})
      /\ UNCHANGED <<script, pythonCall, shared, blurred>> /\ made \in [Scripted -> SUBSET Files]
  BY DEF P!Makes, PythonInv, PythonKinds
<1>2. made' = [d \in Scripted |-> IF d \in {c} THEN made[d] \cup {f} ELSE made[d]]
  BY <1>1
<1>3. \A d \in Scripted \ {c} : pythonCall[d].at \in {"listed", "running", "ended"} => d \in busy'
  BY <1>1 DEF P!Watching
<1>4. {c} \in SUBSET Scripted /\ busy \subseteq busy'
  BY <1>1
<1> QED BY <1>1, <1>2, <1>3, <1>4, FileMade

LEMMA OthersMakeKeeps == ASSUME PythonInv, NEW f \in Files, P!OthersMake(f) PROVE PythonInv'
<1>1. /\ f \notin files /\ files' = files \cup {f} /\ made' = made
      /\ busy' = busy \cup P!Watching
      /\ UNCHANGED <<script, pythonCall, shared, blurred>> /\ made \in [Scripted -> SUBSET Files]
  BY DEF P!OthersMake, PythonInv, PythonKinds
<1>2. made' = [d \in Scripted |-> IF d \in {} THEN made[d] \cup {f} ELSE made[d]]
  BY <1>1
<1>3. \A d \in Scripted \ {} : pythonCall[d].at \in {"listed", "running", "ended"} => d \in busy'
  BY <1>1 DEF P!Watching
<1>4. {} \in SUBSET Scripted /\ busy \subseteq busy'
  BY <1>1
<1> QED BY <1>1, <1>2, <1>3, <1>4, FileMade

LEMMA RemovedKeeps == ASSUME PythonInv, NEW f, P!Removed(f) PROVE PythonInv'
<1>1. /\ files' = files \ {f} /\ script' = [l \in Labels |-> IF l = f THEN Nobody ELSE script[l]]
      /\ blurred' = blurred \cup P!Watching /\ UNCHANGED <<pythonCall, made, shared, busy>>
  BY DEF P!Removed
<1>2. PythonKinds'
  BY <1>1 DEF PythonInv, PythonKinds
<1>3. \A l \in Labels : script'[l] \in {script[l], Nobody}
  BY <1>1
<1>4. (\A c \in Scripted \ shared : Runs(c, pythonCall[c]))'
  <2> SUFFICES ASSUME NEW c \in Scripted, c \notin shared PROVE Runs(c, pythonCall[c])'
    BY <1>1
  <2>1. Runs(c, pythonCall[c]) /\ pythonCall[c] \in PythonCalls
    BY OfPythonCall
  <2>2. pythonCall[c].label \in Labels
    BY <2>1 DEF PythonCalls
  <2> QED BY <1>1, <1>3, <2>1, <2>2 DEF Runs
<1>5. (\A c \in Scripted : Claims(c, pythonCall[c], blurred))'
  <2> SUFFICES ASSUME NEW c \in Scripted PROVE Claims(c, pythonCall[c], blurred)'
    OBVIOUS
  <2>1. Claims(c, pythonCall[c], blurred)
    BY OfPythonCall
  <2>2. pythonCall[c].at \in {"listed", "running", "ended"} => c \in blurred'
    BY <1>1 DEF P!Watching
  <2>3. blurred \subseteq blurred'
    BY <1>1
  <2> QED BY <1>1, <2>1, <2>2, <2>3 DEF Claims
<1> QED BY <1>2, <1>4, <1>5 DEF PythonInv

LEMMA PythonNextKeeps == PythonInv /\ [P!Next]_pythonVars => PythonInv'
<1> SUFFICES ASSUME PythonInv, [P!Next]_pythonVars PROVE PythonInv'
  OBVIOUS
<1>1. ASSUME NEW c \in Scripted, P!Ask(c) \/ P!Ends(c)
      PROVE  PythonInv'
  <2>1. {"asking", "over", "ended"} \subseteq PythonPlaces
    BY DEF PythonPlaces
  <2> QED BY <1>1, <2>1, PythonMoves DEF P!Ask, P!Ends, P!Goes
<1>2. ASSUME NEW c \in Scripted,
             \/ P!WriteScript(c) \/ P!ListBefore(c) \/ P!Run(c) \/ P!ListAfter(c)
             \/ \E f \in Files : P!Makes(c, f)
      PROVE  PythonInv'
  BY <1>2, WriteScriptKeeps, ListBeforeKeeps, RunKeeps, ListAfterKeeps, MakesKeeps
<1>3. CASE \E f \in Files : P!OthersMake(f)
  BY <1>3, OthersMakeKeeps
<1>4. CASE \E f \in Files \cup Labels : P!Removed(f)
  BY <1>4, RemovedKeeps
<1>5. CASE UNCHANGED pythonVars
  <2>1. PythonKinds'
    BY <1>5 DEF pythonVars, PythonInv, PythonKinds
  <2> QED BY <1>5, <2>1 DEF pythonVars, PythonInv, Runs, Claims
<1> QED BY <1>1, <1>2, <1>3, <1>4, <1>5 DEF P!Next

LEMMA PythonInvHolds == P!Spec => []PythonInv
<1>1. PythonInv /\ [P!Next]_(P!vars) => PythonInv'
  BY PythonNextKeeps DEF P!vars, pythonVars
<1> QED BY PythonBegins, <1>1, PTL DEF P!Spec

-----------------------------------------------------------------------------
(* Commands.                                                                *)
Commanded == [at : {"idle", "running", "over"}, alive : SUBSET E!Processes,
              client : BOOLEAN, timedOut : BOOLEAN, exit : {0, 1, 124}]

(* LeftoversLetGo, of one command; no container, no process; and what is    *)
(* known of a command that was called before the container was forgotten.   *)
LetsGo(r) ==
  backing = "local" =>
    /\ r.timedOut => r.alive \cap E!Group = {}
    /\ r.at = "over" => r.alive \cap E!Holding = {}
Contained(r) == backing = "docker" /\ container = "none" => r.alive = {}
Older(r) == r.at # "idle" /\ (backing = "docker" /\ started => r.alive = {})

ExecInv ==
  /\ backing \in {"local", "docker"} /\ command \in [Commands -> Commanded]
  /\ \A k \in Commands : LetsGo(command[k]) /\ Contained(command[k])
  /\ earlier \subseteq Commands /\ \A k \in earlier : Older(command[k])

LEMMA ExecBegins == E!Init => ExecInv
<1> SUFFICES ASSUME E!Init PROVE ExecInv
  OBVIOUS
<1>1. E!NotRun \in Commanded /\ E!NotRun.alive = {}
  BY DEF E!NotRun, Commanded
<1>2. \A k \in Commands : command[k] = E!NotRun
  BY DEF E!Init
<1>3. command \in [Commands -> Commanded]
  BY <1>1 DEF E!Init
<1>4. \A k \in Commands : LetsGo(command[k]) /\ Contained(command[k])
  BY <1>1, <1>2 DEF LetsGo, Contained
<1> QED BY <1>3, <1>4 DEF E!Init, ExecInv

(* A step of one command.                                                   *)
LEMMA CommandStep ==
  ASSUME ExecInv, NEW k \in Commands, NEW r \in Commanded,
         command' = [command EXCEPT ![k] = r], UNCHANGED <<backing, started, leaving, container, earlier>>,
         LetsGo(r), Contained(r), k \in earlier => Older(r)
  PROVE  ExecInv'
<1>1. command' \in [Commands -> Commanded]
  BY DEF ExecInv
<1>2. \A j \in Commands : LetsGo(command'[j]) /\ Contained(command'[j])
  BY DEF ExecInv
<1>3. \A j \in earlier : Older(command'[j])
  BY DEF ExecInv
<1>4. \A j \in Commands : LetsGo(command[j])' /\ Contained(command[j])'
  BY <1>2 DEF LetsGo, Contained
<1>5. \A j \in earlier : Older(command[j])'
  BY <1>3 DEF Older
<1> QED BY <1>1, <1>4, <1>5 DEF ExecInv

LEMMA OtherProcesses ==
  ASSUME NEW k \in Commanded, NEW alive \in SUBSET E!Processes
  PROVE  LET r == [k EXCEPT !.alive = alive]
         IN  r \in Commanded /\ r.alive = alive /\ r.timedOut = k.timedOut /\ r.at = k.at
BY DEF Commanded

LEMMA TimedOut ==
  ASSUME NEW k \in Commanded, NEW alive \in SUBSET E!Processes
  PROVE  LET r == [k EXCEPT !.timedOut = TRUE, !.alive = alive]
         IN  r \in Commanded /\ r.alive = alive /\ r.at = k.at
BY DEF Commanded

LEMMA ClientKilled ==
  ASSUME NEW k \in Commanded
  PROVE  LET r == [k EXCEPT !.timedOut = TRUE, !.client = FALSE]
         IN  r \in Commanded /\ r.alive = k.alive /\ r.at = k.at
BY DEF Commanded

Over(k, code) == [k EXCEPT !.at = "over", !.client = FALSE, !.exit = code]

LEMMA CommandOver ==
  ASSUME NEW k \in Commanded, NEW code \in {0, 1, 124}
  PROVE  /\ Over(k, code) \in Commanded /\ Over(k, code).at = "over"
         /\ Over(k, code).alive = k.alive /\ Over(k, code).timedOut = k.timedOut
BY DEF Over, Commanded

LEMMA NewCommand ==
  ASSUME NEW client \in BOOLEAN
  PROVE  LET r == [E!NotRun EXCEPT !.at = "running", !.alive = {"shell"}, !.client = client]
         IN  r \in Commanded /\ r.timedOut = FALSE /\ r.at = "running"
BY DEF Commanded, E!NotRun, E!Processes, E!Group

LEMMA RefusedCommand ==
  LET r == [E!NotRun EXCEPT !.at = "over", !.exit = 1]
  IN  r \in Commanded /\ r.alive = {} /\ r.at = "over"
BY DEF Commanded, E!NotRun

LEMMA RunCommandKeeps == ASSUME ExecInv, NEW k \in Commands, E!RunCommand(k) PROVE ExecInv'
<1>1. UNCHANGED <<backing, started, leaving, container, earlier>>
  BY DEF E!RunCommand
<1>2. k \notin earlier
  BY DEF ExecInv, Older, E!RunCommand
<1>3. CASE command' = [command EXCEPT ![k] = [E!NotRun EXCEPT !.at = "over", !.exit = 1]]
  <2> DEFINE r == [E!NotRun EXCEPT !.at = "over", !.exit = 1]
  <2>1. r \in Commanded /\ r.alive = {}
    BY RefusedCommand
  <2>2. command' = [command EXCEPT ![k] = r]
    BY <1>3
  <2> HIDE DEF r
  <2>3. LetsGo(r) /\ Contained(r)
    BY <2>1 DEF LetsGo, Contained
  <2> QED BY <1>1, <1>2, <2>1, <2>2, <2>3, CommandStep
<1>4. CASE /\ backing = "local" \/ container = "running"
           /\ command' = [command EXCEPT ![k] =
                [E!NotRun EXCEPT !.at = "running", !.alive = {"shell"}, !.client = (backing = "docker")]]
  <2> DEFINE client == backing = "docker"
             r == [E!NotRun EXCEPT !.at = "running", !.alive = {"shell"}, !.client = client]
  <2>1. command' = [command EXCEPT ![k] = r]
    BY <1>4
  <2>2. client \in BOOLEAN
    OBVIOUS
  <2> HIDE DEF client
  <2>3. r \in Commanded /\ r.timedOut = FALSE /\ r.at = "running"
    BY <2>2, NewCommand
  <2> HIDE DEF r
  <2>4. LetsGo(r)
    BY <2>3 DEF LetsGo
  <2>5. Contained(r)
    BY <1>4 DEF Contained
  <2> QED BY <1>1, <1>2, <2>1, <2>3, <2>4, <2>5, CommandStep
<1> QED BY <1>3, <1>4 DEF E!RunCommand

LEMMA LivesKeeps == ASSUME ExecInv, NEW k \in Commands, E!Lives(k) PROVE ExecInv'
<1>1. /\ command \in [Commands -> Commanded] /\ command[k] \in Commanded
      /\ LetsGo(command[k]) /\ Contained(command[k]) /\ (k \in earlier => Older(command[k]))
  BY DEF ExecInv
<1>2. command[k].alive \in SUBSET E!Processes
  BY <1>1 DEF Commanded
<1>3. UNCHANGED <<backing, started, leaving, container, earlier>>
  BY DEF E!Lives
<1>4. PICK p \in command[k].alive :
        \/ \E q \in E!Starts(p) : command' = [command EXCEPT ![k].alive = @ \cup {q}]
        \/ command' = [command EXCEPT ![k].alive = @ \ {p}]
  BY DEF E!Lives
<1>5. PICK alive \in SUBSET E!Processes :
        /\ command' = [command EXCEPT ![k] = [command[k] EXCEPT !.alive = alive]]
        /\ alive \cap E!Group # {} => command[k].alive \cap E!Group # {}
        /\ alive \cap E!Holding # {} => command[k].alive \cap E!Holding # {}
  <2>1. CASE \E q \in E!Starts(p) : command' = [command EXCEPT ![k].alive = @ \cup {q}]
    <3>1. PICK q \in E!Starts(p) : command' = [command EXCEPT ![k].alive = @ \cup {q}]
      BY <2>1
    <3>2. q \in E!Processes /\ (q \in E!Group => p \in E!Group) /\ (q \in E!Holding => p \in E!Holding)
      BY <3>1 DEF E!Starts
    <3>3. command[k].alive \cup {q} \in SUBSET E!Processes
      BY <1>2, <3>2
    <3>4. command' = [command EXCEPT ![k] = [command[k] EXCEPT !.alive = command[k].alive \cup {q}]]
      BY <1>1, <3>1
    <3>5. (command[k].alive \cup {q}) \cap E!Group # {} => command[k].alive \cap E!Group # {}
      BY <1>4, <3>2
    <3>6. (command[k].alive \cup {q}) \cap E!Holding # {} => command[k].alive \cap E!Holding # {}
      BY <1>4, <3>2
    <3> QED BY <3>3, <3>4, <3>5, <3>6
  <2>2. CASE command' = [command EXCEPT ![k].alive = @ \ {p}]
    <3>1. command[k].alive \ {p} \in SUBSET E!Processes /\ command[k].alive \ {p} \subseteq command[k].alive
      BY <1>2
    <3>2. command' = [command EXCEPT ![k] = [command[k] EXCEPT !.alive = command[k].alive \ {p}]]
      BY <1>1, <2>2
    <3> QED BY <3>1, <3>2
  <2> QED BY <1>4, <2>1, <2>2
<1> DEFINE r == [command[k] EXCEPT !.alive = alive]
<1>6. r \in Commanded /\ r.alive = alive /\ r.timedOut = command[k].timedOut /\ r.at = command[k].at
  BY <1>1, OtherProcesses
<1>7. command[k].alive # {}
  BY <1>4
<1> HIDE DEF r
<1>8. LetsGo(r)
  BY <1>1, <1>5, <1>6 DEF LetsGo
<1>9. Contained(r) /\ (k \in earlier => Older(r))
  BY <1>1, <1>6, <1>7 DEF Contained, Older
<1> QED BY <1>3, <1>5, <1>6, <1>8, <1>9, CommandStep DEF r

LEMMA TimerKeeps == ASSUME ExecInv, NEW k \in Commands, E!TimerFires(k) PROVE ExecInv'
<1>1. /\ command \in [Commands -> Commanded] /\ command[k] \in Commanded /\ backing \in {"local", "docker"}
      /\ Contained(command[k]) /\ (k \in earlier => Older(command[k]))
  BY DEF ExecInv
<1>2. command[k].alive \in SUBSET E!Processes
  BY <1>1 DEF Commanded
<1>3. UNCHANGED <<backing, started, leaving, container, earlier>> /\ command[k].at = "running"
  BY DEF E!TimerFires
<1>4. CASE backing = "local"
  <2> DEFINE alive == E!KillTree(command[k].alive)
             r == [command[k] EXCEPT !.timedOut = TRUE, !.alive = alive]
  <2>1. command' = [command EXCEPT ![k] = r]
    BY <1>4 DEF E!TimerFires
  <2>2. alive \in SUBSET E!Processes /\ alive \cap E!Group = {} /\ alive \subseteq command[k].alive
    BY <1>2 DEF E!KillTree
  <2> HIDE DEF alive
  <2>3. r \in Commanded /\ r.alive = alive /\ r.at = "running"
    BY <1>1, <1>3, <2>2, TimedOut
  <2> HIDE DEF r
  <2>4. LetsGo(r)
    BY <2>2, <2>3 DEF LetsGo
  <2>5. Contained(r) /\ (k \in earlier => Older(r))
    BY <1>4, <2>3 DEF Contained, Older
  <2> QED BY <1>3, <2>1, <2>3, <2>4, <2>5, CommandStep
<1>5. CASE backing = "docker"
  <2> DEFINE r == [command[k] EXCEPT !.timedOut = TRUE, !.client = FALSE]
  <2>1. command' = [command EXCEPT ![k] = r]
    BY <1>5 DEF E!TimerFires
  <2> HIDE DEF r
  <2>2. r \in Commanded /\ r.alive = command[k].alive /\ r.at = command[k].at
    BY <1>1, ClientKilled DEF r
  <2>3. LetsGo(r)
    BY <1>5 DEF LetsGo
  <2>4. Contained(r) /\ (k \in earlier => Older(r))
    BY <1>1, <2>2 DEF Contained, Older
  <2> QED BY <1>3, <2>1, <2>2, <2>3, <2>4, CommandStep
<1> QED BY <1>1, <1>4, <1>5

LEMMA ThreeFields ==
  ASSUME NEW f \in [Commands -> Commanded], NEW k \in Commands, NEW at, NEW client, NEW exit
  PROVE  [f EXCEPT ![k].at = at, ![k].client = client, ![k].exit = exit] =
           [f EXCEPT ![k] = [f[k] EXCEPT !.at = at, !.client = client, !.exit = exit]]
OBVIOUS

LEMMA CloseKeeps == ASSUME ExecInv, NEW k \in Commands, E!Close(k) PROVE ExecInv'
<1>1. /\ command \in [Commands -> Commanded] /\ command[k] \in Commanded
      /\ LetsGo(command[k]) /\ Contained(command[k]) /\ (k \in earlier => Older(command[k]))
  BY DEF ExecInv
<1>2. /\ UNCHANGED <<backing, started, leaving, container, earlier>>
      /\ backing = "local" => command[k].alive \cap E!Holding = {}
  BY DEF E!Close
<1>3. PICK code \in {0, 1, 124} :
        command' = [command EXCEPT ![k].at = "over", ![k].client = FALSE, ![k].exit = code]
  BY DEF E!Close
<1> DEFINE r == Over(command[k], code)
<1>4. /\ r \in Commanded /\ r.alive = command[k].alive /\ r.timedOut = command[k].timedOut
      /\ r.at = "over"
  BY <1>1, CommandOver
<1>5. command' = [command EXCEPT ![k] = r]
  <2>1. [command EXCEPT ![k].at = "over", ![k].client = FALSE, ![k].exit = code] = [command EXCEPT ![k] = r]
    BY <1>1, ThreeFields, Zenon DEF Over
  <2> HIDE DEF r
  <2> QED BY <1>3, <2>1
<1> HIDE DEF r
<1>6. LetsGo(r) /\ Contained(r) /\ (k \in earlier => Older(r))
  BY <1>1, <1>2, <1>4 DEF LetsGo, Contained, Older
<1> QED BY <1>2, <1>4, <1>5, <1>6, CommandStep

LEMMA StartKeeps == ASSUME ExecInv, E!StartWorkspace PROVE ExecInv'
<1>1. UNCHANGED <<backing, command, earlier>> /\ backing \in {"local", "docker"}
  BY DEF E!StartWorkspace, ExecInv
<1>2. backing = "docker" => container = "none" /\ container' # "none"
  BY DEF E!StartWorkspace
<1>3. \A k \in Commands : LetsGo(command[k])' /\ Contained(command[k])'
  BY <1>1, <1>2 DEF ExecInv, LetsGo, Contained
<1>4. \A k \in Commands : backing = "docker" => command[k].alive = {}
  BY <1>2 DEF ExecInv, Contained
<1>5. \A k \in earlier : Older(command[k])'
  BY <1>1, <1>4 DEF ExecInv, Older
<1> QED BY <1>1, <1>3, <1>5 DEF ExecInv

LEMMA PauseKeeps == ASSUME ExecInv, E!Suspend \/ E!Resume PROVE ExecInv'
<1>1. UNCHANGED <<backing, started, command, earlier>> /\ container' # "none"
  BY DEF E!Suspend, E!Resume
<1>2. \A k \in Commands : LetsGo(command[k])' /\ Contained(command[k])'
  BY <1>1 DEF ExecInv, LetsGo, Contained
<1>3. \A k \in earlier : Older(command[k])'
  BY <1>1 DEF ExecInv, Older
<1> QED BY <1>1, <1>2, <1>3 DEF ExecInv

LEMMA RemoveKeeps == ASSUME ExecInv, E!Remove PROVE ExecInv'
<1>1. UNCHANGED <<backing, started, earlier>> /\ backing = "docker" /\ command \in [Commands -> Commanded]
  BY DEF E!Remove, ExecInv
<1>2. CASE command' = [k \in Commands |-> [command[k] EXCEPT !.alive = {}]]
  <2>1. ASSUME NEW k \in Commands
        PROVE  /\ command'[k] \in Commanded /\ command'[k].alive = {} /\ command'[k].at = command[k].at
    <3>1. command[k] \in Commanded /\ {} \in SUBSET E!Processes
      BY <1>1
    <3> QED BY <1>2, <3>1, OtherProcesses
  <2>2. command' \in [Commands -> Commanded]
    BY <1>2, <2>1
  <2>3. \A k \in Commands : LetsGo(command[k])' /\ Contained(command[k])'
    BY <1>1, <2>1 DEF LetsGo, Contained
  <2>4. \A k \in earlier : Older(command[k])'
    BY <1>1, <2>1 DEF ExecInv, Older
  <2> QED BY <1>1, <2>2, <2>3, <2>4 DEF ExecInv
<1>3. CASE container # "none" /\ container' \in {container, "running"} /\ UNCHANGED command
  <2>1. \A k \in Commands : LetsGo(command[k])' /\ Contained(command[k])'
    BY <1>1, <1>3 DEF ExecInv, LetsGo, Contained
  <2>2. \A k \in earlier : Older(command[k])'
    BY <1>1, <1>3 DEF ExecInv, Older
  <2> QED BY <1>1, <1>3, <2>1, <2>2 DEF ExecInv
<1> QED BY <1>2, <1>3 DEF E!Remove

LEMMA ForgetKeeps == ASSUME ExecInv, E!Forget PROVE ExecInv'
<1>1. /\ UNCHANGED <<backing, container, command>> /\ started' = FALSE
      /\ earlier' = {k \in Commands : command[k].at # "idle"}
  BY DEF E!Forget
<1>2. \A k \in Commands : LetsGo(command[k])' /\ Contained(command[k])'
  BY <1>1 DEF ExecInv, LetsGo, Contained
<1>3. \A k \in earlier' : Older(command[k])'
  BY <1>1 DEF Older
<1> QED BY <1>1, <1>2, <1>3 DEF ExecInv

LEMMA ExecNextKeeps == ExecInv /\ [E!Next]_execVars => ExecInv'
<1> SUFFICES ASSUME ExecInv, [E!Next]_execVars PROVE ExecInv'
  OBVIOUS
<1>1. CASE E!StartWorkspace \/ E!Suspend \/ E!Resume \/ E!Remove \/ E!Forget
  BY <1>1, StartKeeps, PauseKeeps, RemoveKeeps, ForgetKeeps
<1>2. ASSUME NEW k \in Commands, E!RunCommand(k) \/ E!Lives(k) \/ E!TimerFires(k) \/ E!Close(k)
      PROVE  ExecInv'
  BY <1>2, RunCommandKeeps, LivesKeeps, TimerKeeps, CloseKeeps
<1>3. CASE UNCHANGED execVars
  BY <1>3 DEF execVars, ExecInv, LetsGo, Contained, Older
<1> QED BY <1>1, <1>2, <1>3 DEF E!Next

LEMMA ExecInvHolds == E!Spec => []ExecInv
<1>1. ExecInv /\ [E!Next]_(E!vars) => ExecInv'
  BY ExecNextKeeps DEF E!vars, execVars
<1> QED BY ExecBegins, <1>1, PTL DEF E!Spec

-----------------------------------------------------------------------------
(* The four together.                                                       *)
LEMMA EachBegins == WorkspaceInit => Init /\ D!Init /\ P!Init /\ E!Init
BY DEF WorkspaceInit, Begins

LEMMA EachSteps ==
  [FileSteps \/ DocumentSteps \/ PythonSteps \/ ExecSteps]_<<inUse, vars, documentVars, pythonVars, execVars>> =>
    [Next]_vars /\ [D!Next]_(D!vars) /\ [P!Next]_(P!vars) /\ [E!Next]_(E!vars)
<1>1. D!vars = documentVars /\ P!vars = pythonVars /\ E!vars = execVars
  BY DEF D!vars, documentVars, P!vars, pythonVars, E!vars, execVars
<1>2. FileSteps => Next /\ UNCHANGED D!vars /\ UNCHANGED P!vars /\ UNCHANGED E!vars
  BY DEF FileSteps, D!vars, documentVars, P!vars, pythonVars, E!vars, execVars
<1>3. DocumentSteps => D!Next /\ UNCHANGED vars /\ UNCHANGED P!vars /\ UNCHANGED E!vars
  BY DEF DocumentSteps, P!vars, pythonVars, E!vars, execVars
<1>4. PythonSteps => P!Next /\ UNCHANGED vars /\ UNCHANGED D!vars /\ UNCHANGED E!vars
  BY DEF PythonSteps, D!vars, documentVars, E!vars, execVars
<1>5. ExecSteps => E!Next /\ UNCHANGED vars /\ UNCHANGED D!vars /\ UNCHANGED P!vars
  BY DEF ExecSteps, D!vars, documentVars, P!vars, pythonVars
<1>6. UNCHANGED <<inUse, vars, documentVars, pythonVars, execVars>> =>
        UNCHANGED vars /\ UNCHANGED D!vars /\ UNCHANGED P!vars /\ UNCHANGED E!vars
  BY DEF D!vars, documentVars, P!vars, pythonVars, E!vars, execVars
<1> QED BY <1>2, <1>3, <1>4, <1>5, <1>6

(* manager.ts, build: beside the workspace's files, of which each has its   *)
(* own, the tools of a session share no state: a behaviour of the four is a *)
(* behaviour of each of them.                                               *)
THEOREM ToolsKeepTheirOwn == WorkspaceSpec => Spec /\ D!Spec /\ P!Spec /\ E!Spec
BY EachBegins, EachSteps, PTL DEF WorkspaceSpec, Spec, D!Spec, P!Spec, E!Spec

(* The file tools keep among the others what they keep alone.               *)
THEOREM FilesAreUndone ==
  WorkspaceSpec => [](UndoHoldsEverything /\ OriginalIsKept /\ UndoIsTheLastChange /\ OverwritesAreAsked)
BY ToolsKeepTheirOwn, UndosHoldEverything, OriginalsAreKept, UndosAreTheLastChange, OverwritesWereAsked, PTL

(* verify.ts, verifyDocument: a document that passes was judged on all of   *)
(* its own pages, whatever other documents are in work, unless one whose    *)
(* pages are listed with its own was, a removal of what an earlier one left *)
(* had failed, or the rasteriser was stopped half-way.                      *)
THEOREM PassesAreEarned == WorkspaceSpec => []PassIsEarned
<1>1. DocumentInv => PassIsEarned
  BY DEF DocumentInv, Solitary, FindsItsOwn, OwnSeen, Judgeable, PassIsEarned, D!PassIsEarned
<1> QED BY <1>1, DocumentInvHolds, ToolsKeepTheirOwn, PTL

(* tools-python.ts, runPython: a call runs the script it wrote, while no    *)
(* other call has its label, and claims the files its run made, while its   *)
(* listings are whole and nothing is removed.                               *)
THEOREM PythonAnswersForItsCode == WorkspaceSpec => []AnswersForItsCode
<1>1. PythonInv => AnswersForItsCode
  BY DEF PythonInv, Runs, Claims, AnswersForItsCode, P!AnswersForItsCode, P!RunsItsOwnCode, P!ClaimsItsFiles
<1> QED BY <1>1, PythonInvHolds, ToolsKeepTheirOwn, PTL

(* local.ts and docker.ts, exec, dispose and start: what is left of a        *)
(* command on the host has left its process group once its timer has fired, *)
(* and let go of its output once exec has returned; and what is left of one *)
(* in a container is in no container that was started after it.             *)
THEOREM CommandsWereBounded == WorkspaceSpec => []CommandsAreBounded
<1>1. ExecInv => CommandsAreBounded
  BY DEF ExecInv, LetsGo, Older, CommandsAreBounded, E!CommandsAreBounded, E!LeftoversLetGo, E!StartsAreFresh
<1> QED BY <1>1, ExecInvHolds, ToolsKeepTheirOwn, PTL
==============================================================================
