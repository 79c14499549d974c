------------------------------ MODULE Connectors ------------------------------
(***************************************************************************)
(* One OAuth connector: signing in, the token's row, and tools that use it *)
(* concurrently.                                                           *)
(*   packages/connectors/src/oauth.ts, tokens.ts, providers.ts, tools.ts   *)
(*   packages/session/src/manager.ts   confirm                             *)
(*                                                                         *)
(* A refresh token is a number, 0 for none; what a row's access token is   *)
(* does not matter, only whether it has expired.  usableAccessToken reads  *)
(* the row, waits for the provider and puts what it got, so a row can      *)
(* change in between.  The caller of the library puts the token of a       *)
(* sign-in and removes the row: no route of the application does yet.      *)
(***************************************************************************)
EXTENDS Naturals, Sequences

CONSTANTS
  Calls,          \* tool calls
  SignIns,        \* flows the user begins
  MaxIssued,      \* refresh tokens the provider issues (bound)
  MaxExpiries     \* times the row's access token runs out (bound)

VARIABLES
  provider,       \* its id, whether it may send, gives refresh tokens, rotates them
  live,           \* refresh tokens the provider accepts
  issued, expiries,
  row,            \* the token store's row
  signIn,         \* flows, by what the caller's pending record is worth
  call,           \* where each call is, and the requests it has still to make
  allowed,        \* history variable: calls whose message the user allowed
  sent,           \* history variable: messages sent, by call
  lost            \* history variable: a rotated token never reached the store

vars == <<provider, live, issued, expiries, row, signIn, call, allowed, sent, lost>>

NoRow == [here |-> FALSE, refresh |-> 0, expired |-> FALSE]
Row(refresh) == [here |-> TRUE, refresh |-> refresh, expired |-> FALSE]
Idle == [at |-> "idle", with |-> 0, got |-> 0, left |-> <<>>]

(* What a tool does with its token, in order: "get" must succeed, "try" may *)
(* fail for a part, "ask" is confirm, "post" sends.                         *)
DriveTools == {<<"get">>, <<"get", "get">>}
GmailTools(canSend) == {<<"get", "try">>, <<"get">>} \cup (IF canSend THEN {<<"ask", "post">>} ELSE {})
SlackTools(canPost) == {<<"get">>} \cup (IF canPost THEN {<<"ask", "post">>} ELSE {})

(* buildConnectorTools.                                                     *)
ToolsOf(p) ==
  CASE p.id = "drive" -> DriveTools
    [] p.id = "gmail" -> GmailTools(p.sends)
    [] p.id = "slack" -> SlackTools(p.sends)

(* driveProvider, gmailProvider, slackProvider: Drive has nothing to send   *)
(* with; Google's refresh tokens come with offline access and stay.         *)
Providers ==
  {p \in [id : {"drive", "gmail", "slack"}, sends : BOOLEAN, offline : BOOLEAN, rotates : BOOLEAN] :
     /\ p.id = "drive" => ~p.sends
     /\ p.id \in {"drive", "gmail"} => p.offline /\ ~p.rotates
     /\ p.rotates => p.offline}

TypeOK ==
  /\ provider \in Providers /\ live \subseteq Nat /\ issued \in Nat /\ expiries \in Nat
  /\ row \in [here : BOOLEAN, refresh : Nat, expired : BOOLEAN]
  /\ signIn \in [SignIns -> {"none", "begun", "late", "exchanging"}]
  /\ call \in [Calls -> [at : {"idle", "refreshing", "granted", "refused", "running", "over"},
                         with : Nat, got : Nat, left : Seq({"get", "try", "ask", "post"})]]
  /\ allowed \subseteq Calls /\ sent \subseteq Calls /\ lost \in BOOLEAN

Init ==
  /\ provider \in Providers
  /\ live = {} /\ issued = 0 /\ expiries = 0
  /\ row = NoRow
  /\ signIn = [i \in SignIns |-> "none"]
  /\ call = [c \in Calls |-> Idle]
  /\ allowed = {} /\ sent = {} /\ lost = FALSE

-----------------------------------------------------------------------------
(* beginAuthorization: the caller keeps the pending record.                 *)
Begin(i) ==
  /\ signIn[i] = "none" /\ signIn' = [signIn EXCEPT ![i] = "begun"]
  /\ UNCHANGED <<provider, live, issued, expiries, row, call, allowed, sent, lost>>

(* AUTHORIZATION_TTL_MS passes.                                             *)
TooLate(i) ==
  /\ signIn[i] = "begun" /\ signIn' = [signIn EXCEPT ![i] = "late"]
  /\ UNCHANGED <<provider, live, issued, expiries, row, call, allowed, sent, lost>>

(* completeAuthorization, in time and with this flow's state; a callback    *)
(* that is late or another flow's throws and changes nothing, and the       *)
(* record is not used up.                                                   *)
Callback(i) ==
  /\ signIn[i] = "begun"
  /\ signIn' = [signIn EXCEPT ![i] = "exchanging"]
  /\ UNCHANGED <<provider, live, issued, expiries, row, call, allowed, sent, lost>>

(* The provider takes the code, once, and the caller puts the token - or    *)
(* the exchange fails.                                                      *)
Exchanged(i) ==
  /\ signIn[i] = "exchanging" /\ issued < MaxIssued
  /\ LET refresh == IF provider.offline THEN issued + 1 ELSE 0
     IN  row' = Row(refresh) /\ live' = live \cup ({refresh} \ {0})
  /\ issued' = issued + 1
  /\ signIn' = [signIn EXCEPT ![i] = "none"]
  /\ UNCHANGED <<provider, expiries, call, allowed, sent, lost>>

ExchangeFails(i) ==
  /\ signIn[i] = "exchanging" /\ signIn' = [signIn EXCEPT ![i] = "begun"]
  /\ UNCHANGED <<provider, live, issued, expiries, row, call, allowed, sent, lost>>

Disconnect ==
  /\ row.here /\ row' = NoRow
  /\ UNCHANGED <<provider, live, issued, expiries, signIn, call, allowed, sent, lost>>

(* Sixty seconds before the access token's end.                             *)
Expire ==
  /\ row.here /\ ~row.expired /\ expiries < MaxExpiries
  /\ expiries' = expiries + 1 /\ row' = [row EXCEPT !.expired = TRUE]
  /\ UNCHANGED <<provider, live, issued, signIn, call, allowed, sent, lost>>

-----------------------------------------------------------------------------
Over == [Idle EXCEPT !.at = "over"]
Granted(c, token) == [at |-> "granted", with |-> call[c].with, got |-> token, left |-> call[c].left]
Running(script) == [at |-> "running", with |-> 0, got |-> 0, left |-> script]

(* usableAccessToken, up to its first await: no row is "not connected"; an  *)
(* expired one that cannot be refreshed is removed.                         *)
UseToken(c, script) ==
  /\ call[c].at = "idle"
  /\ \/ /\ ~row.here
        /\ call' = [call EXCEPT ![c] = Over] /\ row' = row
     \/ /\ row.here /\ ~row.expired
        /\ call' = [call EXCEPT ![c] = Running(script)] /\ row' = row
     \/ /\ row.here /\ row.expired /\ row.refresh # 0
        /\ call' = [call EXCEPT ![c] = [at |-> "refreshing", with |-> row.refresh, got |-> 0, left |-> script]]
        /\ row' = row
     \/ /\ row.here /\ row.expired /\ row.refresh = 0
        /\ call' = [call EXCEPT ![c] = Over] /\ row' = NoRow
  /\ UNCHANGED <<provider, live, issued, expiries, signIn, allowed, sent, lost>>

(* The provider refuses a token it no longer accepts; one that rotates      *)
(* gives another and forgets the old.                                       *)
ProviderAnswers(c) ==
  LET old == call[c].with
  IN  /\ call[c].at = "refreshing"
      /\ \/ /\ old \notin live
            /\ call' = [call EXCEPT ![c].at = "refused"]
            /\ UNCHANGED <<live, issued>>
         \/ /\ old \in live /\ ~provider.rotates
            /\ call' = [call EXCEPT ![c] = Granted(c, 0)]
            /\ UNCHANGED <<live, issued>>
         \/ /\ old \in live /\ provider.rotates /\ issued < MaxIssued
            /\ call' = [call EXCEPT ![c] = Granted(c, issued + 1)]
            /\ live' = (live \ {old}) \cup {issued + 1} /\ issued' = issued + 1
      /\ UNCHANGED <<provider, expiries, row, signIn, allowed, sent, lost>>

(* Mutant: the row is the provider's answer and nothing more.               *)
RefreshedAsAnswered(c) == Row(call[c].got)

(* refreshAccessToken: the old refresh token stays unless a new one came.   *)
Refreshed(c) == Row(IF call[c].got # 0 THEN call[c].got ELSE call[c].with)

(* The answer arrives: what came is put in the row, whatever the row is by  *)
(* now; a refusal fails the call and leaves the row.                        *)
RefreshArrives(c) ==
  /\ \/ /\ call[c].at = "granted" /\ row' = Refreshed(c)
        /\ call' = [call EXCEPT ![c] = Running(call[c].left)]
     \/ /\ call[c].at = "refused" /\ row' = row
        /\ call' = [call EXCEPT ![c] = Over]
  /\ UNCHANGED <<provider, live, issued, expiries, signIn, allowed, sent, lost>>

(* It never arrives: the call fails and the row stays as it is.             *)
RefreshLost(c) ==
  /\ call[c].at \in {"granted", "refused"}
  /\ call' = [call EXCEPT ![c] = Over]
  /\ lost' = (lost \/ call[c].got # 0)
  /\ UNCHANGED <<provider, live, issued, expiries, row, signIn, allowed, sent>>

-----------------------------------------------------------------------------
Step(c, kinds) == call[c].at = "running" /\ call[c].left # <<>> /\ Head(call[c].left) \in kinds
Went(c) == IF Len(call[c].left) = 1 THEN Over ELSE [call[c] EXCEPT !.left = Tail(call[c].left)]
Goes(c) == call' = [call EXCEPT ![c] = Went(c)]
Stops(c) == call' = [call EXCEPT ![c] = Over]

(* fetchJson and callJson: a response that is not ok ends the tool, except  *)
(* for one message of gmailSearch.                                          *)
Request(c) ==
  /\ \/ Step(c, {"get", "try"}) /\ Goes(c)
     \/ Step(c, {"get"}) /\ Stops(c)
  /\ UNCHANGED <<provider, live, issued, expiries, row, signIn, allowed, sent, lost>>

(* Mutant: an approval covers whatever the session sends from then on.      *)
ConfirmScoped(c) ==
  /\ Step(c, {"ask"})
  /\ \/ Goes(c) /\ allowed' = (IF allowed = {} THEN {c} ELSE allowed)
     \/ Stops(c) /\ allowed = {} /\ UNCHANGED allowed
  /\ UNCHANGED <<provider, live, issued, expiries, row, signIn, sent, lost>>

(* confirm: the gate, with no scope.  The token was taken before, and may   *)
(* run out while the user reads.                                            *)
Confirm(c) ==
  /\ Step(c, {"ask"})
  /\ \/ Goes(c) /\ allowed' = allowed \cup {c}
     \/ Stops(c) /\ UNCHANGED allowed
  /\ UNCHANGED <<provider, live, issued, expiries, row, signIn, sent, lost>>

(* gmailSend, slackPost: it is sent, whether the answer comes or not, or it *)
(* is refused.                                                              *)
Post(c) ==
  /\ Step(c, {"post"}) /\ Stops(c)
  /\ sent' \in {sent, sent \cup {c}}
  /\ UNCHANGED <<provider, live, issued, expiries, row, signIn, allowed, lost>>

Next ==
  \/ \E i \in SignIns : Begin(i) \/ TooLate(i) \/ Callback(i) \/ Exchanged(i) \/ ExchangeFails(i)
  \/ Disconnect \/ Expire
  \/ \E c \in Calls :
       \/ \E script \in ToolsOf(provider) : UseToken(c, script)
       \/ ProviderAnswers(c) \/ RefreshArrives(c) \/ RefreshLost(c)
       \/ Request(c) \/ Confirm(c) \/ Post(c)

Spec == Init /\ [][Next]_vars

-----------------------------------------------------------------------------
(* "Dropping the old one would disconnect the account on the next expiry":   *)
(* a connection that began with a refresh token has one that the provider   *)
(* still accepts, however many calls refresh at once and whatever order     *)
(* their answers come in - but while a rotated token is on its way, and     *)
(* from then on if it is lost there.                                        *)
ConnectionLasts ==
  (row.here /\ provider.offline /\ ~lost /\ \A c \in Calls : call[c].got = 0) => row.refresh \in live

(* "It asks, every time": nothing is sent for a call but what the user      *)
(* allowed for that very call.                                              *)
SendsAreAllowed == sent \subseteq allowed
==============================================================================
