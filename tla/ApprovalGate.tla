---------------------------- MODULE ApprovalGate ----------------------------
(***************************************************************************)
(* packages/session/src/approvals.ts: the gate one session's tools await   *)
(* before an irreversible action.  Every method runs to completion on the  *)
(* event loop, so each is one action; what interleaves is the calls: tools *)
(* asking in parallel, the approve route, each request's own setTimeout,   *)
(* a revocation, and denyAll on shutdown or on deletion of the thread.     *)
(*                                                                         *)
(* A request stands for one call of request(), its randomUUID and the      *)
(* promise it returned.  A promise settles once: a later settlement of a   *)
(* settled promise is the no-op JavaScript makes it.                       *)
(***************************************************************************)
EXTENDS Naturals, Sequences

CONSTANTS Requests,   \* the calls of request() a session makes
          Scopes,     \* "shell", "python", "browser"
          NoScope     \* a request made without options.scope

ASSUME NoScopeIsNoScope == NoScope \notin Scopes

VARIABLES
  promise,        \* promise[r]: "uncalled", "waiting", "allow" or "deny"
  scope,          \* options.scope of the call
  pending,        \* the keys of the pending map
  timer,          \* timer[r]: "none", "armed", "cleared" or "fired"
  grantedScopes,  \* the session's standing grants
  emitted         \* every approval event handed to emit, in order

gateVars == <<promise, scope, pending, timer, grantedScopes, emitted>>

Decisions == {"allow", "deny", "session"}
MaybeScope == Scopes \cup {NoScope}
Events == [type : {"requested"}, id : Requests]
            \cup [type : {"resolved"}, id : Requests, decision : {"allow", "deny"}]

(* What a promise holds once it is asked to settle with d. *)
SettleWith(p, d) == IF p = "waiting" THEN d ELSE p

(* `session` is an allow that also remembers. *)
Verdict(decision) == IF decision = "deny" THEN "deny" ELSE "allow"

Init ==
  /\ promise = [r \in Requests |-> "uncalled"]
  /\ scope = [r \in Requests |-> NoScope]
  /\ pending = {}
  /\ timer = [r \in Requests |-> "none"]
  /\ grantedScopes = {}
  /\ emitted = <<>>

(* request(): the class was consented to earlier, so nobody is asked. *)
RequestGranted(r, s) ==
  /\ promise[r] = "uncalled"
  /\ s # NoScope /\ s \in grantedScopes
  /\ promise' = [promise EXCEPT ![r] = "allow"]
  /\ scope' = [scope EXCEPT ![r] = s]
  /\ UNCHANGED <<pending, timer, grantedScopes, emitted>>

(* Mutant: no setTimeout, so only a human or a shutdown ends the wait. *)
RequestPromptUntimed(r, s) ==
  /\ promise[r] = "uncalled"
  /\ ~(s # NoScope /\ s \in grantedScopes)
  /\ promise' = [promise EXCEPT ![r] = "waiting"]
  /\ scope' = [scope EXCEPT ![r] = s]
  /\ pending' = pending \cup {r}
  /\ emitted' = Append(emitted, [type |-> "requested", id |-> r])
  /\ UNCHANGED <<timer, grantedScopes>>

(* request(): the tool blocks, the timer runs, the shells are told. *)
RequestPrompt(r, s) ==
  /\ promise[r] = "uncalled"
  /\ ~(s # NoScope /\ s \in grantedScopes)
  /\ promise' = [promise EXCEPT ![r] = "waiting"]
  /\ scope' = [scope EXCEPT ![r] = s]
  /\ timer' = [timer EXCEPT ![r] = "armed"]
  /\ pending' = pending \cup {r}
  /\ emitted' = Append(emitted, [type |-> "requested", id |-> r])
  /\ UNCHANGED grantedScopes

(* Mutant: the callback refuses but leaves the entry in the map. *)
TimeoutKeepsEntry(r) ==
  /\ timer[r] = "armed"
  /\ timer' = [timer EXCEPT ![r] = "fired"]
  /\ promise' = [promise EXCEPT ![r] = SettleWith(@, "deny")]
  /\ UNCHANGED <<scope, pending, grantedScopes, emitted>>

(* The setTimeout callback: silence is a refusal, and no event says so. *)
Timeout(r) ==
  /\ timer[r] = "armed"
  /\ timer' = [timer EXCEPT ![r] = "fired"]
  /\ pending' = pending \ {r}
  /\ promise' = [promise EXCEPT ![r] = SettleWith(@, "deny")]
  /\ UNCHANGED <<scope, grantedScopes, emitted>>

(* resolve(id, decision) of an id in the map, with the entry's own resolve. *)
(* For any other id it returns false and changes nothing.                   *)
Resolve(r, decision) ==
  /\ r \in pending
  /\ timer' = [timer EXCEPT ![r] = "cleared"]
  /\ pending' = pending \ {r}
  /\ grantedScopes' = IF decision = "session" /\ scope[r] # NoScope
                        THEN grantedScopes \cup {scope[r]}
                        ELSE grantedScopes
  /\ promise' = [promise EXCEPT ![r] = SettleWith(@, Verdict(decision))]
  /\ emitted' = Append(emitted, [type |-> "resolved", id |-> r, decision |-> Verdict(decision)])
  /\ UNCHANGED scope

(* revokeScope(): prompts already on screen stay. *)
RevokeScope(s) ==
  /\ s \in grantedScopes
  /\ grantedScopes' = grantedScopes \ {s}
  /\ UNCHANGED <<promise, scope, pending, timer, emitted>>

(* Mutant: every waiter is refused and its timer cleared, the map is kept. *)
DenyAllKeepsMap ==
  /\ pending # {}
  /\ timer' = [r \in Requests |-> IF r \in pending THEN "cleared" ELSE timer[r]]
  /\ promise' = [r \in Requests |-> IF r \in pending THEN SettleWith(promise[r], "deny")
                                                     ELSE promise[r]]
  /\ UNCHANGED <<scope, pending, grantedScopes, emitted>>

(* denyAll(): the entry's resolve for each, and no event for any. *)
DenyAll ==
  /\ pending # {}
  /\ timer' = [r \in Requests |-> IF r \in pending THEN "cleared" ELSE timer[r]]
  /\ promise' = [r \in Requests |-> IF r \in pending THEN SettleWith(promise[r], "deny")
                                                     ELSE promise[r]]
  /\ pending' = {}
  /\ UNCHANGED <<scope, grantedScopes, emitted>>

Next ==
  \/ \E r \in Requests, s \in MaybeScope : RequestGranted(r, s) \/ RequestPrompt(r, s)
  \/ \E r \in Requests : Timeout(r)
  \/ \E r \in Requests, d \in Decisions : Resolve(r, d)
  \/ \E s \in Scopes : RevokeScope(s)
  \/ DenyAll

Spec == Init /\ [][Next]_gateVars

(* The event loop runs every timer that is due.  Nothing makes a human      *)
(* answer, a tool ask or a session shut down.                               *)
Fairness == \A r \in Requests : WF_gateVars(Timeout(r))

FairSpec == Spec /\ Fairness

-----------------------------------------------------------------------------
(* Every variable of the gate holds a value of its kind. *)
TypeOK ==
  /\ promise \in [Requests -> {"uncalled", "waiting", "allow", "deny"}]
  /\ scope \in [Requests -> MaybeScope]
  /\ pending \subseteq Requests
  /\ timer \in [Requests -> {"none", "armed", "cleared", "fired"}]
  /\ grantedScopes \subseteq Scopes
  /\ emitted \in Seq(Events)

(* A tool is blocked exactly while its prompt can still be answered and its *)
(* timer still runs, whichever of answer, timeout and shutdown came first.  *)
WaiterIsReachable ==
  \A r \in Requests : /\ promise[r] = "waiting" <=> r \in pending
                      /\ timer[r] = "armed" <=> r \in pending

(* The decision the shells were told (approval.resolved, and the approve    *)
(* route's 200) is the one the tool acted on: an answer that lost the race  *)
(* with the timeout or with denyAll is never reported as taken.             *)
ToldTruth ==
  \A i \in DOMAIN emitted :
    emitted[i].type = "resolved" => promise[emitted[i].id] = emitted[i].decision

(* An action goes ahead only with the consent Consent.tla describes: its    *)
(* own prompt, or a standing grant a human gave and nobody withdrew.        *)
Promise == INSTANCE Consent WITH answer <- promise, standing <- grantedScopes
ImplementsConsent == Promise!Spec

(* Silence never hangs a tool: every request settles, answered or not.      *)
EveryRequestSettles ==
  \A r \in Requests : promise[r] = "waiting" ~> promise[r] \in {"allow", "deny"}
=============================================================================
