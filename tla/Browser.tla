------------------------------- MODULE Browser -------------------------------
(***************************************************************************)
(* The browser tools of one session, called concurrently.                  *)
(*   packages/session/src/tools-browser.ts                                 *)
(*                                                                         *)
(* A browser is a number, 0 for none; so is a screenshot.  The variable    *)
(* session of the source is read anew after every await: browse keeps what *)
(* ensure returned, browserAct uses whatever is the session by then.       *)
(* Nothing closes the browser when the session is disposed of.             *)
(***************************************************************************)
EXTENDS Naturals, FiniteSets

CONSTANT Calls

VARIABLES
  session,        \* the browser the tools share
  launched,       \* browsers launched so far
  open,           \* those whose process runs
  shots,          \* screenshots numbered so far
  file,           \* what each screenshot's file shows: the call that took it
  call,           \* where each call is
  crowded,        \* history variable: a launch or a close met another
  spilled         \* history variable: browsers whose launch failed half-way

vars == <<session, launched, open, shots, file, call, crowded, spilled>>

Ops == {"browse", "act", "close"}
Shots == 1..Cardinality(Calls)

TypeOK ==
  /\ session \in Nat /\ launched \in Nat /\ open \subseteq Nat /\ shots \in Nat
  /\ file \in [Shots -> Calls \cup {"nobody"}]
  /\ call \in [Calls -> [op : Ops, browser : Nat, shot : Nat,
                         at : {"idle", "asking", "launching", "moving", "reading", "capturing",
                               "closing", "shown", "over"}]]
  /\ crowded \in BOOLEAN /\ spilled \subseteq Nat

Init ==
  /\ session = 0 /\ launched = 0 /\ open = {} /\ shots = 0
  /\ file = [n \in Shots |-> "nobody"]
  /\ call \in [Calls -> [op : Ops, browser : {0}, shot : {0}, at : {"idle"}]]
  /\ crowded = FALSE /\ spilled = {}

Goes(c, at) == call' = [call EXCEPT ![c].at = at]
Opening == {c \in Calls : call[c].at \in {"launching", "closing"}}

-----------------------------------------------------------------------------
(* browse refuses a private or malformed address; browserAct a missing page *)
(* or text; what is left asks.                                              *)
Start(c) ==
  /\ call[c].at = "idle" /\ call[c].op # "close"
  /\ \/ Goes(c, "over")
     \/ (call[c].op = "act" => session # 0) /\ Goes(c, "asking")
  /\ UNCHANGED <<session, launched, open, shots, file, crowded, spilled>>

Denied(c) ==
  /\ call[c].at = "asking" /\ Goes(c, "over")
  /\ UNCHANGED <<session, launched, open, shots, file, crowded, spilled>>

(* Mutant: every browse launches a browser of its own.                      *)
EnsureAnew(c) ==
  /\ call[c].at = "asking" /\ call[c].op = "browse"
  /\ Goes(c, "launching") /\ crowded' = (crowded \/ Opening # {})
  /\ UNCHANGED <<session, launched, open, shots, file, spilled>>

(* ensure, once browse is allowed: the session, or a new one.               *)
Ensure(c) ==
  /\ call[c].at = "asking" /\ call[c].op = "browse"
  /\ \/ /\ session # 0
        /\ call' = [call EXCEPT ![c].at = "moving", ![c].browser = session]
        /\ UNCHANGED crowded
     \/ /\ session = 0
        /\ Goes(c, "launching") /\ crowded' = (crowded \/ Opening # {})
  /\ UNCHANGED <<session, launched, open, shots, file, spilled>>

(* launch returns: the new browser is the session, whatever was.            *)
Launched(c) ==
  LET b == launched + 1
  IN  /\ call[c].at = "launching"
      /\ launched' = b /\ open' = open \cup {b} /\ session' = b
      /\ call' = [call EXCEPT ![c].at = "moving", ![c].browser = b]
      /\ UNCHANGED <<shots, file, crowded, spilled>>

(* It throws: Chromium is not there, or it runs and newContext fails.       *)
LaunchFails(c) ==
  LET b == launched + 1
  IN  /\ call[c].at = "launching" /\ Goes(c, "over")
      /\ \/ UNCHANGED <<launched, open, spilled>>
         \/ launched' = b /\ open' = open \cup {b} /\ spilled' = spilled \cup {b}
      /\ UNCHANGED <<session, shots, file, crowded>>

(* browserAct, once allowed: the session may be gone, or be another.        *)
Act(c) ==
  /\ call[c].at = "asking" /\ call[c].op = "act"
  /\ IF session = 0 THEN Goes(c, "over")
     ELSE call' = [call EXCEPT ![c].at = "moving", ![c].browser = session]
  /\ UNCHANGED <<session, launched, open, shots, file, crowded, spilled>>

(* The browser a call goes on with.                                         *)
Active(c) == IF call[c].op = "act" THEN session ELSE call[c].browser

(* goto, click or type is over, and then text.                              *)
Moved(c) ==
  /\ call[c].browser \in open /\ Active(c) # 0
  /\ \/ call[c].at = "moving" /\ call' = [call EXCEPT ![c].at = "reading", ![c].browser = Active(c)]
     \/ call[c].at = "reading" /\ Active(c) \in open
        /\ call' = [call EXCEPT ![c].at = "capturing", ![c].browser = Active(c), ![c].shot = shots + 1]
  /\ shots' = IF call[c].at = "reading" THEN shots + 1 ELSE shots
  /\ UNCHANGED <<session, launched, open, file, crowded, spilled>>

(* The picture is taken and written.                                        *)
Captured(c) ==
  /\ call[c].at = "capturing" /\ call[c].browser \in open
  /\ file' = [file EXCEPT ![call[c].shot] = c]
  /\ Goes(c, "shown")
  /\ UNCHANGED <<session, launched, open, shots, crowded, spilled>>

(* A step throws: the page refuses, or the browser is closed under it.      *)
Throws(c) ==
  /\ call[c].at \in {"moving", "reading", "capturing"} /\ Goes(c, "over")
  /\ UNCHANGED <<session, launched, open, shots, file, crowded, spilled>>

CloseStarts(c) ==
  /\ call[c].at = "idle" /\ call[c].op = "close"
  /\ IF session = 0 THEN Goes(c, "over") /\ UNCHANGED crowded
     ELSE /\ call' = [call EXCEPT ![c].at = "closing", ![c].browser = session]
          /\ crowded' = (crowded \/ Opening # {})
  /\ UNCHANGED <<session, launched, open, shots, file, spilled>>

(* The session is none, whatever it has become.                             *)
Closed(c) ==
  /\ call[c].at = "closing" /\ Goes(c, "over")
  /\ open' = open \ {call[c].browser} /\ session' = 0
  /\ UNCHANGED <<launched, shots, file, crowded, spilled>>

Next ==
  \E c \in Calls :
    \/ Start(c) \/ Denied(c) \/ Ensure(c) \/ Launched(c) \/ LaunchFails(c) \/ Act(c)
    \/ Moved(c) \/ Captured(c) \/ Throws(c) \/ CloseStarts(c) \/ Closed(c)

Spec == Init /\ [][Next]_vars

-----------------------------------------------------------------------------
(* "So nothing is left holding a logged-in session open": a browser that     *)
(* runs is one that browserClose can still reach.  Lost are those whose     *)
(* launch failed half-way, and any once two calls were launching or closing *)
(* at a time, because the last of them has its way with the session.        *)
BrowsersCanBeClosed == ~crowded => open \subseteq {session} \cup spilled

(* A result's screenshot is the one its call took.                          *)
ShotsAreTheirOwn == \A c \in Calls : call[c].at = "shown" => file[call[c].shot] = c
==============================================================================
