-------------------------------- MODULE Python --------------------------------
(***************************************************************************)
(* runPython: a script is written, the workspace listed, python3 run and   *)
(* the workspace listed again, while other calls do the same.              *)
(*   packages/session/src/tools-python.ts                                  *)
(*                                                                         *)
(* The script's path is made from the call's label ("analysis" if it has   *)
(* none), so two calls can share it; the code is known by its call, and    *)
(* the script's file by its label: a listing has the scripts too, and a    *)
(* call takes no script but its own out of it.  A directory that cannot be *)
(* listed counts as empty.  Hidden caches, which a listing passes over,    *)
(* and its stop after 5,000 files are left out.                            *)
(***************************************************************************)
EXTENDS Naturals, FiniteSets

CONSTANTS
  Calls, Nobody,
  Labels,         \* and the script of each
  Files           \* the other files of the workspace

VARIABLES
  script,         \* what each label's script file holds: a call's code
  files,          \* the workspace's files, the scripts with them
  call,           \* where a call is, what it listed before, what it ran and claimed
  made,           \* history variable: files that came to be by a call's code while it ran
  shared,         \* history variable: calls whose label another had while they were at work
  busy,           \* history variable: calls during whose run somebody else made a file
  blurred         \* history variable: calls that listed too little, or whose files went away

vars == <<script, files, call, made, shared, busy, blurred>>

TypeOK ==
  /\ script \in [Labels -> Calls \cup {Nobody}]
  /\ files \subseteq Files \cup Labels
  /\ call \in [Calls -> [at : {"idle", "asking", "written", "listed", "running", "ended", "over"},
                         label : Labels, before : SUBSET (Files \cup Labels), ran : Calls \cup {Nobody},
                         created : SUBSET (Files \cup Labels)]]
  /\ made \in [Calls -> SUBSET Files]
  /\ shared \subseteq Calls /\ busy \subseteq Calls /\ blurred \subseteq Calls

Init ==
  /\ script = [l \in Labels |-> Nobody] /\ files = {}
  /\ call \in [Calls -> [at : {"idle"}, label : Labels, before : {{}}, ran : {Nobody}, created : {{}}]]
  /\ made = [c \in Calls |-> {}] /\ shared = {} /\ busy = {} /\ blurred = {}

Goes(c, at) == call' = [call EXCEPT ![c].at = at]
Sharing(c) == {d \in Calls \ {c} : call[d].at \in {"written", "listed"} /\ call[d].label = call[c].label}

-----------------------------------------------------------------------------
(* The gate, scoped to the session.                                         *)
Ask(c) ==
  /\ call[c].at = "idle" /\ (Goes(c, "asking") \/ Goes(c, "over"))
  /\ UNCHANGED <<script, files, made, shared, busy, blurred>>

(* Those between their two listings.                                        *)
Watching == {d \in Calls : call[d].at \in {"listed", "running", "ended"}}

(* A script that was not there before is a new file for whoever is between  *)
(* two listings.                                                            *)
WriteScript(c) ==
  LET l == call[c].label
  IN  /\ call[c].at = "asking" /\ Goes(c, "written")
      /\ script' = [script EXCEPT ![l] = c] /\ files' = files \cup {l}
      /\ shared' = shared \cup Sharing(c)
      /\ busy' = IF l \in files THEN busy ELSE busy \cup (Watching \ {c})
      /\ UNCHANGED <<made, blurred>>

(* Of a listing that fails in part the rest is taken.                       *)
Lists(c, listed) ==
  /\ listed \subseteq files
  /\ blurred' = IF listed = files THEN blurred ELSE blurred \cup {c}

(* Mutant: nothing is listed before.                                        *)
ListBeforeNot(c) ==
  /\ call[c].at = "written" /\ Goes(c, "listed")
  /\ UNCHANGED <<script, files, made, shared, busy, blurred>>

ListBefore(c) ==
  /\ call[c].at = "written"
  /\ \E listed \in SUBSET files :
       /\ Lists(c, listed)
       /\ call' = [call EXCEPT ![c].at = "listed", ![c].before = listed]
  /\ UNCHANGED <<script, files, made, shared, busy>>

(* exec: python3 reads the file of its label as it is by then.              *)
Run(c) ==
  /\ call[c].at = "listed"
  /\ call' = [call EXCEPT ![c].at = "running", ![c].ran = script[call[c].label]]
  /\ UNCHANGED <<script, files, made, shared, busy, blurred>>

(* The code makes a file.                                                   *)
Makes(c, f) ==
  /\ call[c].at = "running" /\ f \notin files
  /\ files' = files \cup {f}
  /\ made' = [made EXCEPT ![c] = @ \cup {f}]
  /\ busy' = busy \cup (Watching \ {c})
  /\ UNCHANGED <<script, call, shared, blurred>>

(* Another tool, or the user, makes one.                                    *)
OthersMake(f) ==
  /\ f \notin files /\ files' = files \cup {f}
  /\ busy' = busy \cup Watching
  /\ UNCHANGED <<script, call, made, shared, blurred>>

(* A file or a script is removed, by whatever code or tool or by the user.  *)
Removed(f) ==
  /\ f \in files /\ files' = files \ {f}
  /\ script' = [l \in Labels |-> IF l = f THEN Nobody ELSE script[l]]
  /\ blurred' = blurred \cup Watching
  /\ UNCHANGED <<call, made, shared, busy>>

(* It ends, by itself or at the timeout.                                    *)
Ends(c) ==
  /\ call[c].at = "running" /\ Goes(c, "ended")
  /\ UNCHANGED <<script, files, made, shared, busy, blurred>>

(* What is new is reported as created, the call's own script apart, and     *)
(* shown to the user.                                                       *)
ListAfter(c) ==
  /\ call[c].at = "ended"
  /\ \E listed \in SUBSET files :
       /\ Lists(c, listed)
       /\ call' = [call EXCEPT
            ![c].at = "over", ![c].before = {}, ![c].created = (listed \ call[c].before) \ {call[c].label}]
  /\ UNCHANGED <<script, files, made, shared, busy>>

Next ==
  \/ \E c \in Calls :
       \/ Ask(c) \/ WriteScript(c) \/ ListBefore(c) \/ Run(c) \/ Ends(c) \/ ListAfter(c)
       \/ \E f \in Files : Makes(c, f)
  \/ \E f \in Files : OthersMake(f)
  \/ \E f \in Files \cup Labels : Removed(f)

Spec == Init /\ [][Next]_vars

-----------------------------------------------------------------------------
(* What ran is the code that this call was given, and that its approval     *)
(* showed - unless another call with its label wrote the script in between. *)
RunsItsOwnCode == \A c \in Calls \ shared : call[c].ran \in {c, Nobody}

(* "Files you create are shown to the user": of a call whose two listings   *)
(* were whole and which nobody, its own code included, took a file from,    *)
(* all that the code made is claimed; and nothing else is, unless somebody  *)
(* else made a file meanwhile or wrote a script of another label, which is  *)
(* claimed like any other file.                                             *)
ClaimsItsFiles ==
  \A c \in Calls \ blurred : call[c].at = "over" =>
    /\ made[c] \subseteq call[c].created
    /\ c \notin busy => call[c].created = made[c]

(* Both: a call answers for the code it was given and for what that made.   *)
AnswersForItsCode == RunsItsOwnCode /\ ClaimsItsFiles
==============================================================================
