--------------------------- MODULE ApprovalShells ---------------------------
(***************************************************************************)
(* The gate of one session together with the web pages that answer it.     *)
(*                                                                         *)
(*   gate --emit--> chat route's SSE stream --> page.tsx applyEvent        *)
(*   page.tsx resolveApproval --POST--> api/approve --> gate.resolve       *)
(*                                                                         *)
(* A page has ONE prompt slot (its `approval` state) that any requested    *)
(* event overwrites and any resolved event or finished POST empties.  The  *)
(* prompt is a full-screen overlay that takes the focus: while it shows,   *)
(* nothing is sent from the page and no thread chosen, but a new thread    *)
(* that the page was waiting for opens all the same.                       *)
(***************************************************************************)
EXTENDS ApprovalGate, FiniteSets

CONSTANTS Shells,     \* browser pages open on the thread
          NoPrompt,   \* an empty prompt slot
          Movers,     \* the pages whose user changes threads meanwhile
  MaxPosts,   \* POSTs one page has in flight at once (bound)
  MaxClicks   \* distinct buttons clicked over the whole run (bound)

ASSUME ShellsAssumption ==
  NoPrompt \notin Requests /\ Movers \subseteq Shells /\ MaxPosts \in Nat /\ MaxClicks \in Nat

VARIABLES
  streaming,  \* pages whose chat POST is streaming events
  cursor,     \* cursor[p]: events p has applied or missed, 0 when not streaming
  prompt,     \* prompt[p]: the request whose prompt p shows
  away,       \* pages whose threadId is another thread's
  loading,    \* pages waiting for GET /api/threads/<id>
  posts,      \* posts[p]: the approve POSTs p is awaiting
  clicked     \* history: every button clicked on a request's prompt

shellVars == <<streaming, cursor, prompt, away, loading, posts, clicked>>
vars == <<gateVars, shellVars>>

Posts == [id : Requests, decision : Decisions, away : BOOLEAN, served : BOOLEAN]

ShellInit ==
  /\ streaming = {}
  /\ cursor = [p \in Shells |-> 0]
  /\ prompt = [p \in Shells |-> NoPrompt]
  /\ away = {}
  /\ loading = {}
  /\ posts = [p \in Shells |-> {}]
  /\ clicked = {}

(* The tools, the timers, a shutdown: the gate's own steps. *)
GateStep ==
  /\ \/ \E r \in Requests, s \in MaybeScope : RequestGranted(r, s) \/ RequestPrompt(r, s)
     \/ \E r \in Requests : Timeout(r)
     \/ DenyAll
  /\ UNCHANGED shellVars

(* Sending a message adds the page's listener; earlier events are not       *)
(* replayed to it.                                                          *)
OpenStream(p) ==
  /\ p \notin streaming /\ p \notin away /\ prompt[p] = NoPrompt
  /\ streaming' = streaming \cup {p}
  /\ cursor' = [cursor EXCEPT ![p] = Len(emitted)]
  /\ UNCHANGED <<gateVars, prompt, away, loading, posts, clicked>>

(* The turn ended or the connection dropped; the prompt slot is left alone. *)
CloseStream(p) ==
  /\ p \in streaming
  /\ streaming' = streaming \ {p}
  /\ cursor' = [cursor EXCEPT ![p] = 0]
  /\ UNCHANGED <<gateVars, prompt, away, loading, posts, clicked>>

(* Mutant: the page leaves approval.resolved to its own POST. *)
ReceiveRequestsOnly(p) ==
  /\ p \in streaming /\ cursor[p] < Len(emitted)
  /\ LET event == emitted[cursor[p] + 1]
     IN  prompt' = [prompt EXCEPT ![p] = IF event.type = "requested" THEN event.id ELSE @]
  /\ cursor' = [cursor EXCEPT ![p] = @ + 1]
  /\ UNCHANGED <<gateVars, streaming, away, loading, posts, clicked>>

(* applyEvent of the next event on the stream. *)
Receive(p) ==
  /\ p \in streaming /\ cursor[p] < Len(emitted)
  /\ LET event == emitted[cursor[p] + 1]
     IN  prompt' = [prompt EXCEPT ![p] = IF event.type = "requested" THEN event.id ELSE NoPrompt]
  /\ cursor' = [cursor EXCEPT ![p] = @ + 1]
  /\ UNCHANGED <<gateVars, streaming, away, loading, posts, clicked>>

(* Another thread, a new one perhaps, or this one again; its transcript is  *)
(* fetched while the old thread's stream, if any, keeps feeding this page.  *)
SwitchThread(p) ==
  /\ p \in Movers
  /\ \/ away' = away \cup {p}
     \/ p \in away /\ prompt[p] = NoPrompt /\ away' = away \ {p}
  /\ loading' = loading \cup {p}
  /\ UNCHANGED <<gateVars, streaming, cursor, prompt, posts, clicked>>

(* The transcript arrives and resets the prompt slot. *)
ThreadLoaded(p) ==
  /\ p \in loading
  /\ loading' = loading \ {p}
  /\ prompt' = [prompt EXCEPT ![p] = NoPrompt]
  /\ UNCHANGED <<gateVars, streaming, cursor, away, posts, clicked>>

(* A button of the prompt.  "Allow ... this session" exists only for a      *)
(* scoped request; the POST names the thread the page is on NOW.            *)
Click(p, decision) ==
  /\ prompt[p] # NoPrompt
  /\ decision = "session" => scope[prompt[p]] # NoScope
  /\ Cardinality(posts[p]) < MaxPosts
  /\ Cardinality(clicked \cup {[id |-> prompt[p], decision |-> decision]}) <= MaxClicks
  /\ LET post == [id |-> prompt[p], decision |-> decision, away |-> p \in away, served |-> FALSE]
     IN  /\ post \notin posts[p]
         /\ posts' = [posts EXCEPT ![p] = @ \cup {post}]
         /\ clicked' = clicked \cup {[id |-> post.id, decision |-> decision]}
  /\ UNCHANGED <<gateVars, streaming, cursor, prompt, away, loading>>

(* Mutant: the route answers whatever is pending, not the id it was sent. *)
ApproveAnyPending(p, post) ==
  /\ post \in posts[p] /\ ~post.served
  /\ posts' = [posts EXCEPT ![p] = (@ \ {post}) \cup {[post EXCEPT !.served = TRUE]}]
  /\ IF ~post.away /\ pending # {} THEN \E r \in pending : Resolve(r, post.decision)
                                   ELSE UNCHANGED gateVars
  /\ UNCHANGED <<streaming, cursor, prompt, away, loading, clicked>>

(* POST /api/approve: 200 if the gate knew the id, 404 and no effect        *)
(* otherwise.  The page does not look at which.                             *)
Approve(p, post) ==
  /\ post \in posts[p] /\ ~post.served
  /\ posts' = [posts EXCEPT ![p] = (@ \ {post}) \cup {[post EXCEPT !.served = TRUE]}]
  /\ IF ~post.away /\ post.id \in pending THEN Resolve(post.id, post.decision)
                                          ELSE UNCHANGED gateVars
  /\ UNCHANGED <<streaming, cursor, prompt, away, loading, clicked>>

(* The response is back: the slot is emptied whatever it shows by then. *)
Responded(p, post) ==
  /\ post \in posts[p] /\ post.served
  /\ posts' = [posts EXCEPT ![p] = @ \ {post}]
  /\ prompt' = [prompt EXCEPT ![p] = NoPrompt]
  /\ UNCHANGED <<gateVars, streaming, cursor, away, loading, clicked>>

(* fetch rejects, before or after the route ran: the slot keeps its prompt. *)
PostFailed(p, post) ==
  /\ post \in posts[p]
  /\ posts' = [posts EXCEPT ![p] = @ \ {post}]
  /\ UNCHANGED <<gateVars, streaming, cursor, prompt, away, loading, clicked>>

ShellStep(p) ==
  \/ OpenStream(p) \/ CloseStream(p) \/ Receive(p) \/ SwitchThread(p) \/ ThreadLoaded(p)
  \/ \E d \in Decisions : Click(p, d)
  \/ \E post \in posts[p] : Approve(p, post) \/ Responded(p, post) \/ PostFailed(p, post)

ShellsSpec ==
  /\ Init /\ ShellInit
  /\ [][GateStep \/ \E p \in Shells : ShellStep(p)]_vars

-----------------------------------------------------------------------------
(* Every variable of the pages holds a value of its kind. *)
ShellsTypeOK ==
  /\ streaming \subseteq Shells /\ away \subseteq Shells /\ loading \subseteq Shells
  /\ cursor \in [Shells -> 0..Len(emitted)]
  /\ prompt \in [Shells -> Requests \cup {NoPrompt}]
  /\ posts \in [Shells -> SUBSET Posts]
  /\ clicked \subseteq [id : Requests, decision : Decisions]

(* Nothing is allowed, and no class of action granted, but by a click on    *)
(* that very action's prompt (or on one of that class), whatever prompt the *)
(* page showed by the time the POST arrived.                                *)
AnswersAreClicks ==
  /\ \A i \in DOMAIN emitted : emitted[i].type = "resolved" =>
       \E c \in clicked : c.id = emitted[i].id /\ Verdict(c.decision) = emitted[i].decision
  /\ \A s \in grantedScopes :
       \E c \in clicked : c.decision = "session" /\ scope[c.id] = s

(* A page that has applied every event shows no prompt that some page       *)
(* already answered: "every connected shell clears its prompt".             *)
AnsweredPromptClears ==
  \A p \in streaming : cursor[p] = Len(emitted) =>
    \A i \in DOMAIN emitted : emitted[i].type = "resolved" => emitted[i].id # prompt[p]

(* As the approve route and the gate's test put it, every shell can clear   *)
(* its prompt: a page that has applied every event shows no prompt of a     *)
(* request that is already settled.  A timeout and denyAll emit nothing.    *)
SettledPromptClears ==
  \A p \in streaming : cursor[p] = Len(emitted) /\ prompt[p] # NoPrompt
                         => promise[prompt[p]] = "waiting"
=============================================================================
