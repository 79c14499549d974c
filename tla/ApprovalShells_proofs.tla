------------------------ MODULE ApprovalShells_proofs ------------------------
(***************************************************************************)
(* For any number of requests, scopes and pages: what ApprovalShells.cfg   *)
(* checks on a small instance, and that the gate keeps among its pages     *)
(* what ApprovalGate_proofs shows of it alone.                             *)
(*                                                                         *)
(* A POST in flight was clicked, a click is on a prompt that was shown,    *)
(* and a prompt shown is of a request that was made: so the scope a click  *)
(* consents to is settled by then, and stays (Traced).  What a page shows  *)
(* was not answered in what it has applied, because a request is announced *)
(* once, before any answer to it (Announced, Shown).                       *)
(***************************************************************************)
EXTENDS ApprovalShells, ApprovalGate_proofs

Called(r) == promise[r] # "uncalled"
Clicked(r, decision) == [id |-> r, decision |-> decision] \in clicked

(* From a request to its event, its prompt, a click on that and the POST.   *)
Traced ==
  /\ \A i \in DOMAIN emitted : Called(emitted[i].id)
  /\ \A p \in Shells : prompt[p] # NoPrompt => Called(prompt[p])
  /\ \A c \in clicked : Called(c.id)
  /\ \A p \in Shells : \A post \in posts[p] : Clicked(post.id, post.decision)

(* Nothing is announced again once it was answered.                         *)
Announced ==
  \A i, j \in DOMAIN emitted :
    i < j /\ emitted[i].type = "resolved" /\ emitted[j].type = "requested" => emitted[i].id # emitted[j].id

(* No page shows what was answered in the events it has applied.            *)
Shown ==
  \A p \in streaming : \A i \in DOMAIN emitted :
    i <= cursor[p] /\ emitted[i].type = "resolved" => emitted[i].id # prompt[p]

(* What a tool was allowed, somebody clicked: on its own prompt, or "this   *)
(* session" on a prompt of its class.                                       *)
AllowsAreClicks ==
  \A r \in Requests : promise[r] = "allow" =>
    \/ \E decision \in {"allow", "session"} : Clicked(r, decision)
    \/ \E q \in Requests : Clicked(q, "session") /\ scope[q] = scope[r] /\ scope[r] # NoScope

ShellsInv ==
  /\ TypeOK /\ ShellsTypeOK /\ Traced /\ Announced /\ Shown
  /\ AnswersAreClicks /\ AllowsAreClicks

LEMMA ShellsBegin == Init /\ ShellInit => ShellsInv
<1> SUFFICES ASSUME Init, ShellInit PROVE ShellsInv
  OBVIOUS
<1>1. TypeOK
  BY DEF Init, TypeOK, MaybeScope
<1>2. emitted = <<>> /\ Len(emitted) = 0 /\ DOMAIN emitted = {}
  BY DEF Init
<1>3. ShellsTypeOK
  BY <1>2 DEF ShellInit, ShellsTypeOK
<1>4. Traced /\ Announced /\ Shown
  BY <1>2 DEF ShellInit, Traced, Announced, Shown
<1>5. AnswersAreClicks /\ AllowsAreClicks
  BY <1>2 DEF Init, ShellInit, AnswersAreClicks, AllowsAreClicks
<1> QED BY <1>1, <1>3, <1>4, <1>5 DEF ShellsInv

-----------------------------------------------------------------------------
(* The gate, as the pages see it: what it has emitted stays, and so does    *)
(* the scope of a request that was made.                                    *)
Goes(d) == \E r \in Requests : Resolve(r, d) /\ Clicked(r, d)
Gate ==
  \/ \E r \in Requests, s \in MaybeScope : RequestGranted(r, s) \/ RequestPrompt(r, s)
  \/ \E r \in Requests : Timeout(r)
  \/ DenyAll
  \/ \E d \in Decisions : Goes(d)

LEMMA CallsStay ==
  ASSUME TypeOK, Gate
  PROVE  /\ \A r \in Requests : Called(r) => Called(r)' /\ scope'[r] = scope[r]
         /\ grantedScopes \subseteq grantedScopes'
<1> USE DEF TypeOK, Called
<1>1. ASSUME NEW r \in Requests, NEW s \in MaybeScope, RequestGranted(r, s) \/ RequestPrompt(r, s)
      PROVE  /\ \A q \in Requests : Called(q) => Called(q)' /\ scope'[q] = scope[q]
             /\ grantedScopes \subseteq grantedScopes'
  BY <1>1 DEF RequestGranted, RequestPrompt
<1>2. ASSUME NEW r \in Requests, Timeout(r)
      PROVE  /\ \A q \in Requests : Called(q) => Called(q)' /\ scope'[q] = scope[q]
             /\ grantedScopes \subseteq grantedScopes'
  BY <1>2 DEF Timeout, SettleWith
<1>3. ASSUME NEW r \in Requests, NEW d \in Decisions, Resolve(r, d)
      PROVE  /\ \A q \in Requests : Called(q) => Called(q)' /\ scope'[q] = scope[q]
             /\ grantedScopes \subseteq grantedScopes'
  BY <1>3 DEF Resolve, SettleWith, Verdict
<1>4. CASE DenyAll
  BY <1>4 DEF DenyAll, SettleWith
<1> QED BY <1>1, <1>2, <1>3, <1>4 DEF Gate, Goes

LEMMA EventsStay ==
  ASSUME TypeOK, Gate
  PROVE  \/ UNCHANGED emitted
         \/ \E r \in Requests : /\ emitted' = Append(emitted, [type |-> "requested", id |-> r])
                                /\ ~Called(r) /\ Called(r)'
         \/ \E r \in Requests, d \in Decisions :
              /\ emitted' = Append(emitted, [type |-> "resolved", id |-> r, decision |-> Verdict(d)])
              /\ Resolve(r, d) /\ Clicked(r, d)
<1>1. ASSUME NEW r \in Requests, NEW s \in MaybeScope, RequestPrompt(r, s)
      PROVE  /\ emitted' = Append(emitted, [type |-> "requested", id |-> r])
             /\ ~Called(r) /\ Called(r)'
  BY <1>1 DEF RequestPrompt, TypeOK, Called
<1>2. ASSUME NEW r \in Requests, NEW s \in MaybeScope, RequestGranted(r, s) PROVE UNCHANGED emitted
  BY <1>2 DEF RequestGranted
<1>3. ASSUME NEW r \in Requests, Timeout(r) PROVE UNCHANGED emitted
  BY <1>3 DEF Timeout
<1>4. DenyAll => UNCHANGED emitted
  BY DEF DenyAll
<1>5. ASSUME NEW r \in Requests, NEW d \in Decisions, Resolve(r, d)
      PROVE  emitted' = Append(emitted, [type |-> "resolved", id |-> r, decision |-> Verdict(d)])
  BY <1>5 DEF Resolve
<1> QED BY <1>1, <1>2, <1>3, <1>4, <1>5 DEF Gate, Goes

(* One more event, the last.                                                *)
LEMMA Appended ==
  ASSUME emitted \in Seq(Events), NEW e \in Events, emitted' = Append(emitted, e)
  PROVE  /\ DOMAIN emitted = 1..Len(emitted) /\ DOMAIN emitted' = 1..(Len(emitted) + 1)
         /\ Len(emitted) \in Nat /\ Len(emitted') = Len(emitted) + 1
         /\ emitted'[Len(emitted) + 1] = e
         /\ \A i \in 1..Len(emitted) : emitted'[i] = emitted[i] /\ emitted[i] \in Events
OBVIOUS

LEMMA EventFields ==
  /\ \A r \in Requests : /\ [type |-> "requested", id |-> r] \in Events
                         /\ [type |-> "requested", id |-> r].type = "requested"
                         /\ [type |-> "requested", id |-> r].id = r
  /\ \A r \in Requests, d \in Decisions :
       LET e == [type |-> "resolved", id |-> r, decision |-> Verdict(d)]
       IN  e \in Events /\ e.type = "resolved" /\ e.id = r /\ e.decision = Verdict(d)
  /\ \A e \in Events : e.id \in Requests
BY DEF Events, Verdict

(* A new event e is of a request that is made, and announces it first.      *)
LEMMA EventsKeep ==
  ASSUME ShellsInv, Gate, UNCHANGED <<streaming, cursor, prompt, clicked>>
  PROVE  /\ (\A i \in DOMAIN emitted : Called(emitted[i].id))'
         /\ Announced' /\ Shown' /\ cursor' \in [Shells -> 0..Len(emitted')]
<1>1. /\ emitted \in Seq(Events) /\ cursor \in [Shells -> 0..Len(emitted)] /\ streaming \subseteq Shells
      /\ Traced /\ Announced /\ Shown /\ TypeOK
  BY DEF ShellsInv, TypeOK, ShellsTypeOK
<1>2. \A r \in Requests : Called(r) => Called(r)'
  BY <1>1, CallsStay
<1>3. \A i \in DOMAIN emitted : emitted[i].id \in Requests /\ promise'[emitted[i].id] # "uncalled"
  <2>1. \A i \in DOMAIN emitted : emitted[i] \in Events
    BY <1>1
  <2> QED BY <1>1, <1>2, <2>1, EventFields DEF Traced, Called
<1>4. CASE UNCHANGED emitted
  <2>1. (\A i \in DOMAIN emitted : Called(emitted[i].id))'
    BY <1>3, <1>4 DEF Called
  <2>2. Announced' /\ Shown'
    BY <1>1, <1>4 DEF Announced, Shown
  <2> QED BY <1>1, <1>4, <2>1, <2>2
<1>5. ASSUME NEW e \in Events, emitted' = Append(emitted, e), e.id \in Requests, Called(e.id)',
             e.type = "requested" => ~Called(e.id)
      PROVE  /\ (\A i \in DOMAIN emitted : Called(emitted[i].id))'
             /\ Announced' /\ Shown' /\ cursor' \in [Shells -> 0..Len(emitted')]
  <2> DEFINE n == Len(emitted)
  <2>1. /\ DOMAIN emitted = 1..n /\ DOMAIN emitted' = 1..(n + 1) /\ n \in Nat /\ Len(emitted') = n + 1
        /\ emitted'[n + 1] = e /\ \A i \in 1..n : emitted'[i] = emitted[i]
    BY <1>1, <1>5, Appended
  <2> HIDE DEF n
  <2>2. \A i \in DOMAIN emitted' : i \in 1..n \/ i = n + 1
    BY <2>1
  <2>3. (\A i \in DOMAIN emitted : Called(emitted[i].id))'
    <3>1. promise'[e.id] # "uncalled"
      BY <1>5 DEF Called
    <3>2. \A i \in 1..n : promise'[emitted'[i].id] # "uncalled"
      BY <1>3, <2>1
    <3> QED BY <2>1, <2>2, <3>1, <3>2 DEF Called
  <2>4. Announced'
    <3> SUFFICES ASSUME NEW i \in DOMAIN emitted', NEW j \in DOMAIN emitted', i < j,
                        emitted'[i].type = "resolved", emitted'[j].type = "requested"
                 PROVE  emitted'[i].id # emitted'[j].id
      BY DEF Announced
    <3>1. i \in 1..n
      BY <2>1
    <3>2. CASE j \in 1..n
      BY <1>1, <2>1, <3>1, <3>2 DEF Announced
    <3>3. CASE j = n + 1
      BY <1>1, <1>5, <2>1, <3>1, <3>3 DEF Traced
    <3> QED BY <2>2, <3>2, <3>3
  <2>5. Shown'
    <3> SUFFICES ASSUME NEW p \in streaming, NEW i \in DOMAIN emitted', i <= cursor[p],
                        emitted'[i].type = "resolved"
                 PROVE  emitted'[i].id # prompt[p]
      BY DEF Shown
    <3>1. cursor[p] \in 0..n
      BY <1>1 DEF n
    <3>2. i \in 1..n
      BY <2>1, <3>1
    <3> QED BY <1>1, <2>1, <3>2 DEF Shown
  <2>6. cursor' \in [Shells -> 0..Len(emitted')]
    <3>1. 0..n \subseteq 0..Len(emitted')
      BY <2>1
    <3> QED BY <1>1, <3>1 DEF n
  <2> QED BY <2>3, <2>4, <2>5, <2>6
<1>6. ASSUME NEW r \in Requests, NEW d \in Decisions, Resolve(r, d), Clicked(r, d) PROVE Called(r)'
  BY <1>1, <1>2, <1>6 DEF Clicked, Traced
<1>7. ASSUME NEW r \in Requests, emitted' = Append(emitted, [type |-> "requested", id |-> r]), ~Called(r),
             Called(r)'
      PROVE  /\ (\A i \in DOMAIN emitted : Called(emitted[i].id))'
             /\ Announced' /\ Shown' /\ cursor' \in [Shells -> 0..Len(emitted')]
  <2> DEFINE e == [type |-> "requested", id |-> r]
  <2>1. e \in Events /\ e.id = r
    BY EventFields
  <2> HIDE DEF e
  <2>2. emitted' = Append(emitted, e)
    BY <1>7 DEF e
  <2> QED BY <1>5, <1>7, <2>1, <2>2
<1>8. ASSUME NEW r \in Requests, NEW d \in Decisions, Resolve(r, d), Clicked(r, d),
             emitted' = Append(emitted, [type |-> "resolved", id |-> r, decision |-> Verdict(d)])
      PROVE  /\ (\A i \in DOMAIN emitted : Called(emitted[i].id))'
             /\ Announced' /\ Shown' /\ cursor' \in [Shells -> 0..Len(emitted')]
  <2> DEFINE e == [type |-> "resolved", id |-> r, decision |-> Verdict(d)]
  <2>1. e \in Events /\ e.id = r /\ e.type # "requested"
    BY EventFields
  <2> HIDE DEF e
  <2>2. emitted' = Append(emitted, e) /\ Called(r)'
    BY <1>6, <1>8 DEF e
  <2> QED BY <1>5, <2>1, <2>2
<1> QED BY <1>1, <1>4, <1>7, <1>8, EventsStay

-----------------------------------------------------------------------------
(* What is answered, granted and allowed was clicked.                       *)
LEMMA AnswersKeep ==
  ASSUME ShellsInv, Gate, UNCHANGED clicked
  PROVE  AnswersAreClicks'
<1>1. /\ emitted \in Seq(Events) /\ clicked \subseteq [id : Requests, decision : Decisions]
      /\ Traced /\ AnswersAreClicks /\ TypeOK
  BY DEF ShellsInv, TypeOK, ShellsTypeOK
<1>2. \A c \in clicked : c.id \in Requests /\ Called(c.id) /\ scope'[c.id] = scope[c.id]
  BY <1>1, CallsStay DEF Traced
<1>3. ASSUME NEW i \in DOMAIN emitted', emitted'[i].type = "resolved"
      PROVE  \E c \in clicked : c.id = emitted'[i].id /\ Verdict(c.decision) = emitted'[i].decision
  <2>1. CASE i \in DOMAIN emitted /\ emitted'[i] = emitted[i]
    BY <1>1, <1>3, <2>1 DEF AnswersAreClicks
  <2>2. CASE UNCHANGED emitted
    BY <2>1, <2>2
  <2>3. ASSUME NEW e \in Events, emitted' = Append(emitted, e)
        PROVE  (i \in DOMAIN emitted /\ emitted'[i] = emitted[i]) \/ emitted'[i] = e
    BY <1>1, <2>3, Appended
  <2>4. ASSUME NEW r \in Requests, emitted' = Append(emitted, [type |-> "requested", id |-> r])
        PROVE  i \in DOMAIN emitted /\ emitted'[i] = emitted[i]
    <3> DEFINE e == [type |-> "requested", id |-> r]
    <3>1. e \in Events /\ e.type # "resolved"
      BY EventFields
    <3> QED BY <1>3, <2>3, <2>4, <3>1
  <2>5. ASSUME NEW r \in Requests, NEW d \in Decisions, Clicked(r, d),
               emitted' = Append(emitted, [type |-> "resolved", id |-> r, decision |-> Verdict(d)])
        PROVE  \E c \in clicked : c.id = emitted'[i].id /\ Verdict(c.decision) = emitted'[i].decision
    <3> DEFINE e == [type |-> "resolved", id |-> r, decision |-> Verdict(d)]
    <3>1. e \in Events /\ e.id = r /\ e.decision = Verdict(d)
      BY EventFields
    <3>2. CASE emitted'[i] = e
      BY <2>5, <3>1, <3>2 DEF Clicked
    <3> QED BY <2>1, <2>3, <2>5, <3>1, <3>2
  <2> QED BY <1>1, <2>1, <2>2, <2>4, <2>5, EventsStay
<1>4. ASSUME NEW s \in grantedScopes'
      PROVE  \E c \in clicked : c.decision = "session" /\ scope'[c.id] = s
  <2>1. CASE s \in grantedScopes
    BY <1>1, <1>2, <2>1 DEF AnswersAreClicks
  <2>2. CASE s \notin grantedScopes
    <3>1. PICK r \in Requests : Resolve(r, "session") /\ Clicked(r, "session") /\ s = scope[r]
      BY <2>2 DEF Gate, Goes, RequestGranted, RequestPrompt, Timeout, DenyAll, Resolve
    <3> QED BY <1>2, <3>1 DEF Clicked
  <2> QED BY <2>1, <2>2
<1> QED BY <1>3, <1>4 DEF AnswersAreClicks

LEMMA AllowsKeep ==
  ASSUME ShellsInv, Gate, UNCHANGED clicked
  PROVE  AllowsAreClicks'
<1>1. /\ clicked \subseteq [id : Requests, decision : Decisions]
      /\ Traced /\ AnswersAreClicks /\ AllowsAreClicks /\ TypeOK
  BY DEF ShellsInv, ShellsTypeOK
<1>2. \A r \in Requests : Called(r) => scope'[r] = scope[r]
  BY <1>1, CallsStay
<1>3. \A q \in Requests, d \in Decisions : Clicked(q, d) => Clicked(q, d)' /\ scope'[q] = scope[q]
  BY <1>1, <1>2 DEF Clicked, Traced
<1>4. ASSUME NEW r \in Requests, promise'[r] = "allow"
      PROVE  \/ \E decision \in {"allow", "session"} : Clicked(r, decision)
             \/ \E q \in Requests : Clicked(q, "session") /\ scope'[q] = scope'[r] /\ scope'[r] # NoScope
  <2>1. CASE promise[r] = "allow"
    <3>1. scope'[r] = scope[r]
      BY <1>2, <2>1 DEF Called
    <3>2. \A q \in Requests : Clicked(q, "session") => scope'[q] = scope[q]
      BY <1>3 DEF Decisions
    <3> QED BY <1>1, <2>1, <3>1, <3>2 DEF AllowsAreClicks
  <2>2. ASSUME promise[r] # "allow", NEW s \in MaybeScope, RequestGranted(r, s)
        PROVE  \E q \in Requests : Clicked(q, "session") /\ scope'[q] = scope'[r] /\ scope'[r] # NoScope
    <3>1. scope'[r] = s /\ s # NoScope /\ s \in grantedScopes
      BY <1>1, <2>2 DEF RequestGranted, TypeOK
    <3>2. PICK c \in clicked : c.decision = "session" /\ scope[c.id] = s
      BY <1>1, <3>1 DEF AnswersAreClicks
    <3>3. c.id \in Requests /\ c = [id |-> c.id, decision |-> "session"]
      BY <1>1, <3>2
    <3>4. Clicked(c.id, "session")
      BY <3>2, <3>3 DEF Clicked
    <3>5. scope'[c.id] = s
      BY <1>3, <3>2, <3>3, <3>4 DEF Decisions
    <3> QED BY <3>1, <3>3, <3>4, <3>5
  <2>3. ASSUME promise[r] # "allow", NEW d \in Decisions, Resolve(r, d), Clicked(r, d)
        PROVE  \E decision \in {"allow", "session"} : Clicked(r, decision)
    <3>1. d # "deny"
      BY <1>1, <1>4, <2>3 DEF Resolve, SettleWith, Verdict, TypeOK
    <3> QED BY <2>3, <3>1 DEF Decisions
  <2>4. ASSUME promise[r] # "allow"
        PROVE  \/ \E s \in MaybeScope : RequestGranted(r, s)
               \/ \E d \in Decisions : Resolve(r, d) /\ Clicked(r, d)
    <3>1. ASSUME NEW q \in Requests, NEW s \in MaybeScope, RequestGranted(q, s) PROVE q = r
      BY <1>1, <1>4, <2>4, <3>1 DEF RequestGranted, TypeOK
    <3>2. ASSUME NEW q \in Requests, NEW s \in MaybeScope, RequestPrompt(q, s) PROVE FALSE
      BY <1>1, <1>4, <2>4, <3>2 DEF RequestPrompt, TypeOK
    <3>3. ASSUME NEW q \in Requests, Timeout(q) PROVE FALSE
      BY <1>1, <1>4, <2>4, <3>3 DEF Timeout, SettleWith, TypeOK
    <3>4. ~DenyAll
      BY <1>1, <1>4, <2>4 DEF DenyAll, SettleWith, TypeOK
    <3>5. ASSUME NEW q \in Requests, NEW d \in Decisions, Resolve(q, d) PROVE q = r
      BY <1>1, <1>4, <2>4, <3>5 DEF Resolve, TypeOK
    <3> QED BY <3>1, <3>2, <3>3, <3>4, <3>5 DEF Gate, Goes
  <2> QED BY <2>1, <2>2, <2>3, <2>4
<1>5. \A q \in Requests, d \in Decisions : Clicked(q, d)' <=> Clicked(q, d)
  BY DEF Clicked
<1> QED BY <1>4, <1>5 DEF AllowsAreClicks, Decisions

LEMMA GateKeeps ==
  ASSUME ShellsInv, Gate, UNCHANGED <<streaming, cursor, prompt, away, loading, clicked>>,
         posts' \in [Shells -> SUBSET Posts],
         \A p \in Shells : \A post \in posts'[p] : Clicked(post.id, post.decision)
  PROVE  ShellsInv'
<1>1. /\ TypeOK /\ ShellsTypeOK /\ Traced
      /\ clicked \subseteq [id : Requests, decision : Decisions]
      /\ prompt \in [Shells -> Requests \cup {NoPrompt}]
  BY DEF ShellsInv, ShellsTypeOK
<1>2. TypeOK'
  <2>1. Gate => Next
    BY DEF Gate, Goes, Next
  <2> QED BY <1>1, <2>1, TypeStep
<1>3. (\A i \in DOMAIN emitted : Called(emitted[i].id))' /\ Announced' /\ Shown'
      /\ cursor' \in [Shells -> 0..Len(emitted')]
  BY EventsKeep
<1>4. ShellsTypeOK'
  BY <1>1, <1>3 DEF ShellsTypeOK
<1>5. Traced'
  <2>1. \A r \in Requests : Called(r) => Called(r)'
    BY <1>1, CallsStay
  <2>2. \A p \in Shells : prompt'[p] # NoPrompt => Called(prompt[p])'
    BY <1>1, <2>1 DEF Traced
  <2>3. \A c \in clicked : c.id \in Requests /\ Called(c.id)
    BY <1>1 DEF Traced
  <2>4. \A c \in clicked' : Called(c.id)'
    BY <2>1, <2>3
  <2>5. (\A p \in Shells : \A post \in posts[p] : Clicked(post.id, post.decision))'
    BY DEF Clicked
  <2> QED BY <1>3, <2>2, <2>4, <2>5 DEF Traced
<1> QED BY <1>2, <1>3, <1>4, <1>5, AnswersKeep, AllowsKeep DEF ShellsInv

-----------------------------------------------------------------------------
(* The pages, while the gate stands still.                                  *)
LEMMA PagesKeep ==
  ASSUME ShellsInv, UNCHANGED gateVars, ShellsTypeOK', Shown', clicked \subseteq clicked',
         \A p \in Shells : prompt'[p] # NoPrompt => Called(prompt'[p]),
         \A c \in clicked' : Called(c.id),
         \A p \in Shells : \A post \in posts'[p] : [id |-> post.id, decision |-> post.decision] \in clicked'
  PROVE  ShellsInv'
<1>1. UNCHANGED <<promise, scope, pending, timer, grantedScopes, emitted>>
  BY DEF gateVars
<1>2. TypeOK' /\ Announced'
  BY <1>1 DEF ShellsInv, TypeOK, Announced
<1>3. Traced'
  BY <1>1 DEF ShellsInv, Traced, Called, Clicked
<1>4. AnswersAreClicks'
  BY <1>1 DEF ShellsInv, AnswersAreClicks
<1>5. AllowsAreClicks'
  BY <1>1 DEF ShellsInv, AllowsAreClicks, Clicked
<1> QED BY <1>2, <1>3, <1>4, <1>5 DEF ShellsInv

LEMMA OfPages ==
  ASSUME ShellsInv
  PROVE  /\ streaming \subseteq Shells /\ away \subseteq Shells /\ loading \subseteq Shells
         /\ cursor \in [Shells -> 0..Len(emitted)] /\ prompt \in [Shells -> Requests \cup {NoPrompt}]
         /\ posts \in [Shells -> SUBSET Posts] /\ clicked \subseteq [id : Requests, decision : Decisions]
         /\ emitted \in Seq(Events) /\ Len(emitted) \in Nat /\ Shown /\ TypeOK
         /\ \A p \in Shells : prompt[p] # NoPrompt => Called(prompt[p])
         /\ \A c \in clicked : Called(c.id)
         /\ \A i \in DOMAIN emitted : Called(emitted[i].id) /\ emitted[i] \in Events
         /\ \A p \in Shells : \A post \in posts[p] : [id |-> post.id, decision |-> post.decision] \in clicked
BY DEF ShellsInv, ShellsTypeOK, TypeOK, Traced, Clicked

(* A page's stream opens, closes, or moves on; its prompt is emptied.       *)
LEMMA StreamsKeep ==
  ASSUME ShellsInv, NEW p \in Shells, OpenStream(p) \/ CloseStream(p)
  PROVE  ShellsInv'
<1>1. ShellsTypeOK'
  <2>1. 0 \in 0..Len(emitted) /\ Len(emitted) \in 0..Len(emitted)
    BY OfPages
  <2>2. UNCHANGED <<emitted, prompt, away, loading, posts, clicked>> /\ streaming' \subseteq Shells
    BY OfPages DEF OpenStream, CloseStream, gateVars
  <2>3. cursor' \in [Shells -> 0..Len(emitted)]
    BY <2>1, OfPages DEF OpenStream, CloseStream
  <2> QED BY <2>2, <2>3, OfPages DEF ShellsTypeOK
<1>2. Shown'
  <2>1. CASE OpenStream(p)
    <3>1. \A i \in DOMAIN emitted : emitted[i].id \in Requests
      BY OfPages, EventFields
    <3>2. \A q \in streaming \ {p} : cursor'[q] = cursor[q] /\ q \in Shells
      BY <2>1, OfPages DEF OpenStream
    <3> QED BY <2>1, <3>1, <3>2, OfPages, ShellsAssumption DEF OpenStream, Shown, gateVars
  <2>2. CASE CloseStream(p)
    <3>1. \A q \in streaming \ {p} : cursor'[q] = cursor[q]
      BY <2>2, OfPages DEF CloseStream
    <3> QED BY <2>2, <3>1, OfPages DEF CloseStream, Shown, gateVars
  <2> QED BY <2>1, <2>2
<1> QED BY <1>1, <1>2, OfPages, PagesKeep DEF OpenStream, CloseStream

LEMMA ReceiveKeeps == ASSUME ShellsInv, NEW p \in Shells, Receive(p) PROVE ShellsInv'
<1> DEFINE n == cursor[p] + 1
           event == emitted[n]
           shown == IF event.type = "requested" THEN event.id ELSE NoPrompt
<1>1. /\ UNCHANGED <<gateVars, streaming, away, loading, posts, clicked>>
      /\ prompt' = [prompt EXCEPT ![p] = shown] /\ cursor' = [cursor EXCEPT ![p] = n]
      /\ p \in streaming
  BY OfPages DEF Receive
<1>2. n \in DOMAIN emitted /\ n \in 0..Len(emitted) /\ cursor[p] \in Nat
  BY OfPages DEF Receive
<1>3. event \in Events /\ event.id \in Requests /\ Called(event.id)
  BY <1>2, OfPages, EventFields
<1>4. UNCHANGED emitted
  BY <1>1 DEF gateVars
<1>5. \A i \in DOMAIN emitted : i \in Nat /\ (i <= n => i = n \/ i < n)
  BY <1>2, OfPages
<1>6. \A i \in DOMAIN emitted : i <= n /\ emitted[i].type = "resolved" => emitted[i].id # shown
  <2> SUFFICES ASSUME NEW i \in DOMAIN emitted, i <= n, emitted[i].type = "resolved"
               PROVE  emitted[i].id # shown
    OBVIOUS
  <2>1. CASE event.type # "requested"
    <3>1. emitted[i].id \in Requests
      BY OfPages, EventFields
    <3> QED BY <2>1, <3>1, ShellsAssumption
  <2>2. CASE event.type = "requested"
    <3>1. i # n
      BY <2>2
    <3>2. i < n
      BY <1>5, <3>1
    <3>3. Announced
      BY DEF ShellsInv
    <3> QED BY <1>2, <2>2, <3>2, <3>3 DEF Announced
  <2> QED BY <2>1, <2>2
<1>7. prompt'[p] = shown /\ cursor'[p] = n /\ \A q \in Shells \ {p} : prompt'[q] = prompt[q] /\ cursor'[q] = cursor[q]
  BY <1>1, OfPages
<1>8. shown \in Requests \cup {NoPrompt} /\ (shown # NoPrompt => Called(shown))
  BY <1>3
<1> HIDE DEF n, event, shown
<1>9. ShellsTypeOK'
  BY <1>1, <1>2, <1>4, <1>8, OfPages DEF ShellsTypeOK
<1>10. Shown'
  BY <1>1, <1>4, <1>6, <1>7, OfPages DEF Shown
<1>11. \A q \in Shells : prompt'[q] # NoPrompt => Called(prompt'[q])
  BY <1>7, <1>8, OfPages
<1> QED BY <1>1, <1>9, <1>10, <1>11, OfPages, PagesKeep

(* A prompt is emptied, and a POST may be over.                             *)
LEMMA EmptiedKeeps ==
  ASSUME ShellsInv, NEW p \in Shells, UNCHANGED <<gateVars, streaming, cursor, away, clicked>>,
         prompt' \in {prompt, [prompt EXCEPT ![p] = NoPrompt]}, loading' \subseteq loading,
         posts' \in [Shells -> SUBSET Posts], \A q \in Shells : posts'[q] \subseteq posts[q]
  PROVE  ShellsInv'
<1>1. UNCHANGED emitted
  BY DEF gateVars
<1>2. /\ prompt' \in [Shells -> Requests \cup {NoPrompt}]
      /\ \A q \in Shells : prompt'[q] \in {prompt[q], NoPrompt}
  BY OfPages
<1>3. ShellsTypeOK'
  BY <1>1, <1>2, OfPages DEF ShellsTypeOK
<1>4. Shown'
  <2>1. \A i \in DOMAIN emitted : emitted[i].id # NoPrompt
    BY OfPages, EventFields, ShellsAssumption
  <2> QED BY <1>1, <1>2, <2>1, OfPages DEF Shown
<1>5. \A q \in Shells : prompt'[q] # NoPrompt => Called(prompt'[q])
  BY <1>2, OfPages
<1>6. \A q \in Shells : \A post \in posts'[q] : [id |-> post.id, decision |-> post.decision] \in clicked'
  BY OfPages
<1> QED BY <1>3, <1>4, <1>5, <1>6, OfPages, PagesKeep

LEMMA SwitchThreadKeeps == ASSUME ShellsInv, NEW p \in Shells, SwitchThread(p) PROVE ShellsInv'
<1>1. ShellsTypeOK' /\ Shown'
  BY OfPages DEF SwitchThread, ShellsTypeOK, Shown, gateVars
<1> QED BY <1>1, OfPages, PagesKeep DEF SwitchThread

LEMMA ClickKeeps ==
  ASSUME ShellsInv, NEW p \in Shells, NEW decision \in Decisions, Click(p, decision)
  PROVE  ShellsInv'
<1> DEFINE r == prompt[p]
           post == [id |-> r, decision |-> decision, away |-> p \in away, served |-> FALSE]
           click == [id |-> r, decision |-> decision]
<1>1. /\ UNCHANGED <<gateVars, streaming, cursor, prompt, away, loading>>
      /\ posts' = [posts EXCEPT ![p] = @ \cup {post}] /\ clicked' = clicked \cup {click}
  BY DEF Click
<1>2. r \in Requests /\ Called(r)
  BY OfPages DEF Click
<1>3. post \in Posts /\ click \in [id : Requests, decision : Decisions]
  BY <1>2 DEF Posts
<1>4. /\ posts' \in [Shells -> SUBSET Posts] /\ posts'[p] = posts[p] \cup {post}
      /\ \A q \in Shells \ {p} : posts'[q] = posts[q]
  BY <1>1, <1>3, OfPages
<1>5. ShellsTypeOK' /\ Shown'
  BY <1>1, <1>3, <1>4, OfPages DEF ShellsTypeOK, Shown, gateVars
<1>6. \A c \in clicked' : Called(c.id)
  BY <1>1, <1>2, OfPages
<1>7. ASSUME NEW q \in Shells, NEW sent \in posts'[q]
      PROVE  [id |-> sent.id, decision |-> sent.decision] \in clicked'
  <2>1. CASE sent = post
    <3>1. sent.id = r /\ sent.decision = decision
      BY <2>1
    <3> QED BY <1>1, <3>1
  <2>2. CASE sent \in posts[q]
    <3>1. [id |-> sent.id, decision |-> sent.decision] \in clicked
      BY <2>2, OfPages
    <3> HIDE DEF r, click
    <3> QED BY <1>1, <3>1
  <2> HIDE DEF post
  <2>3. sent = post \/ sent \in posts[q]
    BY <1>4
  <2> QED BY <2>1, <2>2, <2>3
<1> QED BY <1>1, <1>5, <1>6, <1>7, OfPages, PagesKeep

LEMMA Served ==
  ASSUME ShellsInv, NEW p \in Shells, NEW post \in posts[p],
         posts' = [posts EXCEPT ![p] = (@ \ {post}) \cup {[post EXCEPT !.served = TRUE]}]
  PROVE  /\ post.id \in Requests /\ post.decision \in Decisions /\ Clicked(post.id, post.decision)
         /\ posts' \in [Shells -> SUBSET Posts]
         /\ \A q \in Shells : \A sent \in posts'[q] : Clicked(sent.id, sent.decision)
<1> DEFINE answered == [post EXCEPT !.served = TRUE]
<1>1. post \in Posts
  BY OfPages
<1>2. /\ answered \in Posts /\ answered.id = post.id /\ answered.decision = post.decision
      /\ post.id \in Requests /\ post.decision \in Decisions
  BY <1>1 DEF Posts
<1> HIDE DEF answered
<1>3. posts' = [posts EXCEPT ![p] = (@ \ {post}) \cup {answered}]
  BY DEF answered
<1>4. posts' \in [Shells -> SUBSET Posts] /\ \A q \in Shells : posts'[q] \subseteq posts[q] \cup {answered}
  BY <1>2, <1>3, OfPages
<1>5. \A q \in Shells : \A sent \in posts[q] : Clicked(sent.id, sent.decision)
  BY OfPages DEF Clicked
<1>6. \A q \in Shells : \A sent \in posts'[q] : Clicked(sent.id, sent.decision) \/ (sent = answered /\ q = p)
  BY <1>3, <1>4, <1>5, OfPages
<1> QED BY <1>2, <1>4, <1>5, <1>6

LEMMA ApproveKeeps ==
  ASSUME ShellsInv, NEW p \in Shells, NEW post \in posts[p], Approve(p, post)
  PROVE  ShellsInv'
<1>1. /\ posts' = [posts EXCEPT ![p] = (@ \ {post}) \cup {[post EXCEPT !.served = TRUE]}]
      /\ UNCHANGED <<streaming, cursor, prompt, away, loading, clicked>>
      /\ Resolve(post.id, post.decision) \/ UNCHANGED gateVars
  BY DEF Approve
<1>2. /\ post.id \in Requests /\ post.decision \in Decisions /\ Clicked(post.id, post.decision)
      /\ posts' \in [Shells -> SUBSET Posts]
      /\ \A q \in Shells : \A sent \in posts'[q] : Clicked(sent.id, sent.decision)
  BY <1>1, Served
<1>3. CASE Resolve(post.id, post.decision)
  <2>1. Gate
    BY <1>2, <1>3 DEF Gate, Goes
  <2> QED BY <1>1, <1>2, <2>1, GateKeeps
<1>4. CASE UNCHANGED gateVars
  <2>1. ShellsTypeOK' /\ Shown'
    BY <1>1, <1>2, <1>4, OfPages DEF ShellsTypeOK, Shown, gateVars
  <2> QED BY <1>1, <1>2, <1>4, <2>1, OfPages, PagesKeep DEF Clicked
<1> QED BY <1>1, <1>3, <1>4

LEMMA ShellStepKeeps == ASSUME ShellsInv, NEW p \in Shells, ShellStep(p) PROVE ShellsInv'
<1>1. CASE ThreadLoaded(p)
  <2>1. posts' = posts /\ loading' \subseteq loading
    BY <1>1 DEF ThreadLoaded
  <2> QED BY <1>1, <2>1, OfPages, EmptiedKeeps DEF ThreadLoaded
<1>2. ASSUME NEW post \in posts[p], Responded(p, post) \/ PostFailed(p, post) PROVE ShellsInv'
  <2>1. /\ posts' = [posts EXCEPT ![p] = @ \ {post}] /\ loading' \subseteq loading
        /\ prompt' \in {prompt, [prompt EXCEPT ![p] = NoPrompt]}
        /\ UNCHANGED <<gateVars, streaming, cursor, away, clicked>>
    BY <1>2 DEF Responded, PostFailed
  <2>2. posts' \in [Shells -> SUBSET Posts] /\ \A q \in Shells : posts'[q] \subseteq posts[q]
    BY <2>1, OfPages
  <2> QED BY <2>1, <2>2, EmptiedKeeps
<1> QED BY <1>1, <1>2, StreamsKeep, ReceiveKeeps, SwitchThreadKeeps, ClickKeeps, ApproveKeeps DEF ShellStep

LEMMA ShellsStep == ShellsInv /\ [GateStep \/ \E p \in Shells : ShellStep(p)]_vars => ShellsInv' /\ [Next]_gateVars
<1> SUFFICES ASSUME ShellsInv, [GateStep \/ \E p \in Shells : ShellStep(p)]_vars
             PROVE  ShellsInv' /\ [Next]_gateVars
  OBVIOUS
<1>1. CASE GateStep
  <2>1. Gate /\ Next /\ UNCHANGED shellVars
    BY <1>1 DEF GateStep, Gate, Next
  <2>2. UNCHANGED <<streaming, cursor, prompt, away, loading, posts, clicked>>
    BY <2>1 DEF shellVars
  <2>3. \A p \in Shells : \A post \in posts'[p] : Clicked(post.id, post.decision)
    BY <2>2, OfPages DEF Clicked
  <2> QED BY <2>1, <2>2, <2>3, OfPages, GateKeeps
<1>2. ASSUME NEW p \in Shells, ShellStep(p) PROVE ShellsInv' /\ [Next]_gateVars
  <2>1. ASSUME NEW post \in posts[p], Approve(p, post) PROVE Next \/ UNCHANGED gateVars
    <3>1. post.id \in Requests /\ post.decision \in Decisions
      BY <2>1, Served DEF Approve
    <3> QED BY <2>1, <3>1 DEF Approve, Next
  <2>2. Next \/ UNCHANGED gateVars
    BY <1>2, <2>1 DEF ShellStep, OpenStream, CloseStream, Receive, SwitchThread, ThreadLoaded, Click,
                      Responded, PostFailed
  <2> QED BY <1>2, <2>2, ShellStepKeeps
<1>3. CASE UNCHANGED vars
  <2>1. UNCHANGED <<gateVars, streaming, cursor, away, clicked, prompt, loading, posts>>
    BY <1>3 DEF vars, shellVars
  <2>2. ShellsTypeOK' /\ Shown'
    BY <2>1, OfPages DEF ShellsTypeOK, Shown, gateVars
  <2> QED BY <2>1, <2>2, OfPages, PagesKeep
<1> QED BY <1>1, <1>2, <1>3

(* The invariant the theorems about the pages rest on.                      *)
LEMMA ShellsInvHolds == ShellsSpec => []ShellsInv
BY ShellsBegin, ShellsStep, PTL DEF ShellsSpec

(* Every variable of the pages keeps its kind.                              *)
THEOREM ShellsTypeCorrect == ShellsSpec => []ShellsTypeOK
<1>1. ShellsInv => ShellsTypeOK
  BY DEF ShellsInv
<1> QED BY <1>1, ShellsInvHolds, PTL

(* api/approve and page.tsx, resolveApproval: the gate is answered with     *)
(* what somebody clicked on that very prompt, whatever the pages show by    *)
(* then.                                                                    *)
THEOREM AnswersWereClicked == ShellsSpec => []AnswersAreClicks
<1>1. ShellsInv => AnswersAreClicks
  BY DEF ShellsInv
<1> QED BY <1>1, ShellsInvHolds, PTL

(* approvals.ts, request and resolve: no tool goes ahead but by a click on  *)
(* its own prompt or, with a scope, a click of "this session" on one of     *)
(* that scope.                                                              *)
THEOREM AllowsWereClicked == ShellsSpec => []AllowsAreClicks
<1>1. ShellsInv => AllowsAreClicks
  BY DEF ShellsInv
<1> QED BY <1>1, ShellsInvHolds, PTL

(* page.tsx, applyEvent: a page that has applied every event shows no       *)
(* prompt that was answered, on this page or on another.                    *)
THEOREM AnsweredPromptsClear == ShellsSpec => []AnsweredPromptClears
<1>1. ShellsInv => AnsweredPromptClears
  <2> SUFFICES ASSUME ShellsInv, NEW p \in streaming, cursor[p] = Len(emitted),
                      NEW i \in DOMAIN emitted, emitted[i].type = "resolved"
               PROVE  emitted[i].id # prompt[p]
    BY DEF AnsweredPromptClears
  <2>1. i <= cursor[p]
    BY OfPages
  <2> QED BY <2>1, OfPages DEF Shown
<1> QED BY <1>1, ShellsInvHolds, PTL

(* What the pages do to the gate are calls of its methods: with any number  *)
(* of pages answering, the gate's reports are true, a waiting tool can be   *)
(* answered, and the gate keeps its promise to the tools.                   *)
THEOREM GateIsTheGate ==
  ShellsSpec => Spec /\ ImplementsConsent /\ [](ToldTruth /\ WaiterIsReachable)
<1>1. ShellsSpec => Spec
  BY ShellsInvHolds, ShellsStep, PTL DEF ShellsSpec, Spec
<1> QED BY <1>1, GateImplementsConsent, ToldOnlyTruth, WaitersReachable, PTL
=============================================================================
