------------------------ MODULE ApprovalGate_proofs ------------------------
(***************************************************************************)
(* The gate is type correct, its bookkeeping and its reports agree with    *)
(* the promises it handed out, and it implements Consent, for any number   *)
(* of requests and scopes.                                                 *)
(***************************************************************************)
EXTENDS ApprovalGate, TLAPS

LEMMA TypeStep == TypeOK /\ [Next]_gateVars => TypeOK'
<1> SUFFICES ASSUME TypeOK, [Next]_gateVars PROVE TypeOK'
  OBVIOUS
<1> USE DEF TypeOK, MaybeScope
<1>1. ASSUME NEW r \in Requests, NEW s \in MaybeScope, RequestGranted(r, s)
      PROVE  TypeOK'
  BY <1>1 DEF RequestGranted
<1>2. ASSUME NEW r \in Requests, NEW s \in MaybeScope, RequestPrompt(r, s)
      PROVE  TypeOK'
  <2>1. [type |-> "requested", id |-> r] \in Events
    BY DEF Events
  <2>2. QED BY <1>2, <2>1 DEF RequestPrompt
<1>3. ASSUME NEW r \in Requests, Timeout(r) PROVE TypeOK'
  BY <1>3 DEF Timeout, SettleWith
<1>4. ASSUME NEW r \in Requests, NEW d \in Decisions, Resolve(r, d)
      PROVE  TypeOK'
  <2>1. [type |-> "resolved", id |-> r, decision |-> Verdict(d)] \in Events
    BY DEF Events, Verdict
  <2>2. emitted' \in Seq(Events)
    BY <1>4, <2>1 DEF Resolve
  <2>3. Verdict(d) \in {"allow", "deny"}
    BY DEF Verdict
  <2>4. promise' \in [Requests -> {"uncalled", "waiting", "allow", "deny"}]
    BY <1>4, <2>3 DEF Resolve, SettleWith
  <2>5. /\ scope' \in [Requests -> MaybeScope]
        /\ pending' \subseteq Requests
        /\ timer' \in [Requests -> {"none", "armed", "cleared", "fired"}]
        /\ grantedScopes' \subseteq Scopes
    BY <1>4 DEF Resolve
  <2>6. QED BY <2>2, <2>4, <2>5
<1>5. ASSUME NEW s \in Scopes, RevokeScope(s) PROVE TypeOK'
  BY <1>5 DEF RevokeScope
<1>6. CASE DenyAll
  BY <1>6 DEF DenyAll, SettleWith
<1>7. CASE UNCHANGED gateVars
  BY <1>7 DEF gateVars
<1>8. QED BY <1>1, <1>2, <1>3, <1>4, <1>5, <1>6, <1>7 DEF Next

(* Every variable keeps its kind, whatever tools, humans and timers do.     *)
THEOREM TypeCorrect == Spec => []TypeOK
<1>1. Init => TypeOK
  BY DEF Init, TypeOK, MaybeScope
<1>2. QED BY <1>1, TypeStep, PTL DEF Spec

(* A blocked tool has its prompt in the map and its timer armed, and nobody *)
(* else does: the argument is one step per method, each of which moves the  *)
(* promise, the map entry and the timer together.                           *)
LEMMA WaiterStep ==
  TypeOK /\ WaiterIsReachable /\ [Next]_gateVars => WaiterIsReachable'
<1> SUFFICES ASSUME TypeOK, WaiterIsReachable, [Next]_gateVars
             PROVE  WaiterIsReachable'
  OBVIOUS
<1> USE DEF TypeOK, WaiterIsReachable
<1>1. ASSUME NEW r \in Requests, NEW s \in MaybeScope, RequestGranted(r, s)
      PROVE  WaiterIsReachable'
  BY <1>1 DEF RequestGranted
<1>2. ASSUME NEW r \in Requests, NEW s \in MaybeScope, RequestPrompt(r, s)
      PROVE  WaiterIsReachable'
  BY <1>2 DEF RequestPrompt
<1>3. ASSUME NEW r \in Requests, Timeout(r) PROVE WaiterIsReachable'
  BY <1>3 DEF Timeout, SettleWith
<1>4. ASSUME NEW r \in Requests, NEW d \in Decisions, Resolve(r, d)
      PROVE  WaiterIsReachable'
  BY <1>4 DEF Resolve, SettleWith, Verdict
<1>5. ASSUME NEW s \in Scopes, RevokeScope(s) PROVE WaiterIsReachable'
  BY <1>5 DEF RevokeScope
<1>6. CASE DenyAll
  BY <1>6 DEF DenyAll, SettleWith
<1>7. CASE UNCHANGED gateVars
  BY <1>7 DEF gateVars
<1>8. QED BY <1>1, <1>2, <1>3, <1>4, <1>5, <1>6, <1>7 DEF Next

(* A tool is blocked exactly while its prompt can be answered and timed out. *)
THEOREM WaitersReachable == Spec => []WaiterIsReachable
<1>1. Init => WaiterIsReachable
  BY DEF Init, WaiterIsReachable
<1>2. QED BY <1>1, WaiterStep, TypeCorrect, PTL DEF Spec

(* A settled promise never changes again: the timer that fires after an     *)
(* answer, and the answer that comes after the timer, are both too late.    *)
LEMMA SettledStays ==
  ASSUME TypeOK, WaiterIsReachable, [Next]_gateVars,
         NEW r \in Requests, promise[r] \in {"allow", "deny"}
  PROVE  promise'[r] = promise[r]
<1> USE DEF TypeOK, WaiterIsReachable
<1>1. ASSUME NEW q \in Requests, NEW s \in MaybeScope,
             RequestGranted(q, s) \/ RequestPrompt(q, s)
      PROVE  promise'[r] = promise[r]
  BY <1>1 DEF RequestGranted, RequestPrompt
<1>2. ASSUME NEW q \in Requests, Timeout(q) PROVE promise'[r] = promise[r]
  BY <1>2 DEF Timeout, SettleWith
<1>3. ASSUME NEW q \in Requests, NEW d \in Decisions, Resolve(q, d)
      PROVE  promise'[r] = promise[r]
  BY <1>3 DEF Resolve, SettleWith
<1>4. CASE DenyAll
  BY <1>4 DEF DenyAll, SettleWith
<1>5. CASE UNCHANGED promise
  BY <1>5
<1>6. QED BY <1>1, <1>2, <1>3, <1>4, <1>5 DEF Next, RevokeScope, gateVars

(* Only Resolve reports a decision, and only of a promise it settles.       *)
LEMMA ToldStep ==
  TypeOK /\ WaiterIsReachable /\ ToldTruth /\ [Next]_gateVars => ToldTruth'
<1> SUFFICES ASSUME TypeOK, WaiterIsReachable, ToldTruth, [Next]_gateVars,
                    NEW i \in DOMAIN emitted', emitted'[i].type = "resolved"
             PROVE  promise'[emitted'[i].id] = emitted'[i].decision
  BY DEF ToldTruth
<1>1. ASSUME i \in DOMAIN emitted, emitted'[i] = emitted[i]
      PROVE  promise'[emitted'[i].id] = emitted'[i].decision
  <2>1. /\ emitted[i] \in Events
        /\ promise[emitted[i].id] = emitted[i].decision
    BY <1>1 DEF ToldTruth, TypeOK
  <2>2. emitted[i].id \in Requests /\ emitted[i].decision \in {"allow", "deny"}
    BY <1>1, <2>1 DEF Events
  <2>3. QED BY <1>1, <2>1, <2>2, SettledStays
<1>2. CASE emitted' = emitted
  BY <1>1, <1>2
<1>3. ASSUME NEW r \in Requests, NEW s \in MaybeScope, RequestPrompt(r, s)
      PROVE  promise'[emitted'[i].id] = emitted'[i].decision
  <2>1. emitted' = Append(emitted, [type |-> "requested", id |-> r])
    BY <1>3 DEF RequestPrompt
  <2>2. i \in DOMAIN emitted /\ emitted'[i] = emitted[i]
    BY <2>1 DEF TypeOK
  <2>3. QED BY <1>1, <2>2
<1>4. ASSUME NEW r \in Requests, NEW d \in Decisions, Resolve(r, d)
      PROVE  promise'[emitted'[i].id] = emitted'[i].decision
  <2> DEFINE told == [type |-> "resolved", id |-> r, decision |-> Verdict(d)]
  <2>1. emitted' = Append(emitted, told)
    BY <1>4 DEF Resolve
  <2>2. promise'[r] = Verdict(d)
    BY <1>4 DEF Resolve, SettleWith, TypeOK, WaiterIsReachable
  <2>3. \/ i \in DOMAIN emitted /\ emitted'[i] = emitted[i]
        \/ emitted'[i] = told
    BY <2>1 DEF TypeOK
  <2>4. QED BY <1>1, <2>2, <2>3
<1>5. QED
  BY <1>2, <1>3, <1>4 DEF Next, RequestGranted, Timeout, RevokeScope, DenyAll, gateVars

(* No shell is ever told a decision other than the one the tool acted on.   *)
THEOREM ToldOnlyTruth == Spec => []ToldTruth
<1>1. Init => ToldTruth
  BY DEF Init, ToldTruth
<1>2. QED BY <1>1, ToldStep, TypeCorrect, WaitersReachable, PTL DEF Spec

(* The gate implements Consent: each method is one abstract step, and the   *)
(* map entry Resolve checks stands for the wait the abstract step checks.   *)
THEOREM GateImplementsConsent == Spec => ImplementsConsent
<1> USE DEF Promise!consentVars
<1>1. Init => Promise!Init
  BY DEF Init, Promise!Init
<1>2. TypeOK /\ WaiterIsReachable /\ [Next]_gateVars
        => [Promise!Next]_(Promise!consentVars)
  <2> SUFFICES ASSUME TypeOK, WaiterIsReachable, [Next]_gateVars
               PROVE  [Promise!Next]_(Promise!consentVars)
    OBVIOUS
  <2> USE DEF TypeOK, WaiterIsReachable
  <2>1. ASSUME NEW r \in Requests, NEW s \in MaybeScope,
               RequestGranted(r, s) \/ RequestPrompt(r, s)
        PROVE  Promise!Next
    <3>1. Promise!Ask(r, s)
      BY <2>1, NoScopeIsNoScope DEF RequestGranted, RequestPrompt, Promise!Ask, MaybeScope
    <3>2. QED BY <3>1 DEF Promise!Next, MaybeScope
  <2>2. ASSUME NEW r \in Requests, Timeout(r) PROVE Promise!Next
    <3>1. Promise!Refuse({r})
      BY <2>2 DEF Timeout, SettleWith, Promise!Refuse
    <3>2. {r} \in SUBSET Requests
      OBVIOUS
    <3>3. QED BY <3>1, <3>2 DEF Promise!Next
  <2>3. ASSUME NEW r \in Requests, NEW d \in Decisions, Resolve(r, d)
        PROVE  Promise!Next
    <3>1. CASE d = "deny"
      <4>1. Promise!Refuse({r})
        BY <2>3, <3>1 DEF Resolve, SettleWith, Verdict, Promise!Refuse
      <4>2. {r} \in SUBSET Requests
        OBVIOUS
      <4>3. QED BY <4>1, <4>2 DEF Promise!Next
    <3>2. CASE d # "deny" /\ ~(d = "session" /\ scope[r] # NoScope)
      <4>1. Promise!Allow(r)
        BY <2>3, <3>2 DEF Resolve, SettleWith, Verdict, Promise!Allow
      <4>2. QED BY <4>1 DEF Promise!Next
    <3>3. CASE d = "session" /\ scope[r] # NoScope
      <4>1. Promise!AllowForSession(r)
        BY <2>3, <3>3 DEF Resolve, SettleWith, Verdict, Promise!AllowForSession
      <4>2. QED BY <4>1 DEF Promise!Next
    <3>4. QED BY <3>1, <3>2, <3>3
  <2>4. ASSUME NEW s \in Scopes, RevokeScope(s) PROVE Promise!Next
    BY <2>4 DEF RevokeScope, Promise!Withdraw, Promise!Next
  <2>5. CASE DenyAll
    <3>1. Promise!Refuse(pending)
      BY <2>5 DEF DenyAll, SettleWith, Promise!Refuse
    <3>2. QED BY <3>1 DEF Promise!Next
  <2>6. CASE UNCHANGED gateVars
    BY <2>6 DEF gateVars
  <2>7. QED BY <2>1, <2>2, <2>3, <2>4, <2>5, <2>6 DEF Next
<1>3. QED
  BY <1>1, <1>2, TypeCorrect, WaitersReachable, PTL
     DEF Spec, ImplementsConsent, Promise!Spec
=============================================================================
