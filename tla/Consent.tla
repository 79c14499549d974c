------------------------------ MODULE Consent ------------------------------
(***************************************************************************)
(* What the approval gate of a session promises to the tools behind it,    *)
(* with no timers, no bookkeeping and no events: an action waits for a     *)
(* human, silence is a refusal, and a standing grant for a class of        *)
(* actions (a scope) exists only because a human gave it while answering   *)
(* a prompt of that scope.                                                 *)
(*                                                                         *)
(* ApprovalGate.tla is the detailed specification and implements this one. *)
(***************************************************************************)
CONSTANTS Requests,   \* every approval a tool may ask for
          Scopes,     \* classes of action that can be consented to at once
          NoScope     \* the scope of an action that is always asked about

VARIABLES answer,     \* answer[r]: what the tool that asked r knows
          scope,      \* scope[r]: the class r was asked under
          standing    \* the scopes with a standing grant

consentVars == <<answer, scope, standing>>

Settled == {"allow", "deny"}

Init ==
  /\ answer = [r \in Requests |-> "uncalled"]
  /\ scope = [r \in Requests |-> NoScope]
  /\ standing = {}

(* A tool asks; a standing grant answers at once. *)
Ask(r, s) ==
  /\ answer[r] = "uncalled"
  /\ scope' = [scope EXCEPT ![r] = s]
  /\ answer' = [answer EXCEPT ![r] = IF s \in standing THEN "allow" ELSE "waiting"]
  /\ UNCHANGED standing

(* A human allows this one action. *)
Allow(r) ==
  /\ answer[r] = "waiting"
  /\ answer' = [answer EXCEPT ![r] = "allow"]
  /\ UNCHANGED <<scope, standing>>

(* A human allows this action and every later one of its scope. *)
AllowForSession(r) ==
  /\ answer[r] = "waiting"
  /\ scope[r] # NoScope
  /\ answer' = [answer EXCEPT ![r] = "allow"]
  /\ standing' = standing \cup {scope[r]}
  /\ UNCHANGED scope

(* A refusal, or silence, for any of the waiting actions together. *)
Refuse(R) ==
  /\ \A r \in R : answer[r] = "waiting"
  /\ answer' = [r \in Requests |-> IF r \in R THEN "deny" ELSE answer[r]]
  /\ UNCHANGED <<scope, standing>>

Withdraw(s) ==
  /\ standing' = standing \ {s}
  /\ UNCHANGED <<answer, scope>>

Next ==
  \/ \E r \in Requests, s \in Scopes \cup {NoScope} : Ask(r, s)
  \/ \E r \in Requests : Allow(r) \/ AllowForSession(r)
  \/ \E R \in SUBSET Requests : Refuse(R)
  \/ \E s \in Scopes : Withdraw(s)

Spec == Init /\ [][Next]_consentVars
=============================================================================
