--------------------------- MODULE SessionManager ---------------------------
(***************************************************************************)
(* One thread as SessionManager keeps it: rows in the store, a directory,  *)
(* and at most one live Session, built on the first message:               *)
(*   packages/session/src/manager.ts   get, getConnectors, deleteThread    *)
(*   packages/store/src/store.ts       threads and messages                *)
(*   packages/core/src/agent.ts        what a turn appends, and when       *)
(*   apps/web/app/api                  chat, approve, threads/[id]         *)
(*                                                                         *)
(* A caller is a chat POST: it gets the session and runs a turn on it.     *)
(* The code between two awaits is one step.  A session object is a number; *)
(* an object that a caller still runs a turn on may not be the live one.   *)
(***************************************************************************)
EXTENDS Integers, Sequences, SequencesExt

CONSTANTS
  Callers,        \* chat POSTs that can be in flight together
  MaxPosts,       \* POSTs over the whole run (bound)
  MaxDeletes,     \* deleteThread calls (bound)
  MaxRestarts     \* times the process dies (bound)

VARIABLES
  row, stored,    \* the thread's row in the store, and its messages by seq
  dir,            \* the thread's workspace directory exists
  live,           \* sessions.get(id): a session object, or None
  made, history,  \* session objects built, and each one's Agent.history
  connectors,     \* "none", "starting" (the cached promise) or "ready"
  caller,         \* caller[c]: where a POST is, its session, what it loaded
  deleter,        \* where deleteThread is
  posts, deletes, restarts, said,
  spawned,        \* history: initConnectors runs since the process began
  doubled,        \* history: a second session replaced a live one
  crossed,        \* history: a deletion overlapped a POST
  unkept          \* history: the messages whose append failed

store == <<row, stored, dir>>
memory == <<live, made, history, connectors, spawned>>
bounds == <<posts, deletes, restarts>>
flags == <<doubled, crossed, unkept>>
vars == <<store, memory, caller, deleter, bounds, said, flags>>

None == 0
Gone == [at |-> "idle", session |-> None, loaded |-> <<>>]
Getting == {"starting", "connecting"}
InTurn == {"sending", "thinking", "waiting"}
Busy(c) == caller[c].at # "idle"
Moves(c, place) == caller' = [caller EXCEPT ![c].at = place]

Init ==
  /\ row = FALSE /\ stored = <<>> /\ dir = FALSE
  /\ live = None /\ made = 0 /\ history = <<>>
  /\ connectors = "none" /\ spawned = 0
  /\ caller = [c \in Callers |-> Gone] /\ deleter = "idle"
  /\ posts = 0 /\ deletes = 0 /\ restarts = 0 /\ said = 0
  /\ doubled = FALSE /\ crossed = FALSE /\ unkept = {}

(* get, up to its first await: a live session is returned; otherwise the    *)
(* thread gets its row, and its messages are loaded.                        *)
Post(c) ==
  /\ ~Busy(c) /\ posts < MaxPosts
  /\ posts' = posts + 1
  /\ crossed' = (crossed \/ deleter # "idle")
  /\ \/ /\ live # None
        /\ caller' = [caller EXCEPT ![c] = [at |-> "sending", session |-> live, loaded |-> <<>>]]
        /\ UNCHANGED row
     \/ /\ live = None
        /\ row' = TRUE
        /\ caller' = [caller EXCEPT ![c] = [at |-> "starting", session |-> None, loaded |-> stored]]
  /\ UNCHANGED <<stored, dir, memory, deleter, deletes, restarts, said, doubled, unkept>>

(* Mutant: getConnectors caches its result and not its promise. *)
StartedUncached(c) ==
  /\ caller[c].at = "starting"
  /\ dir' = TRUE
  /\ \/ connectors # "ready" /\ connectors' = "starting" /\ spawned' = spawned + 1
     \/ connectors = "ready" /\ UNCHANGED <<connectors, spawned>>
  /\ Moves(c, "connecting")
  /\ UNCHANGED <<row, stored, live, made, history, deleter, bounds, said, flags>>

(* workspace.start has made the directory; getConnectors starts the servers *)
(* or joins whoever did.                                                    *)
Started(c) ==
  /\ caller[c].at = "starting"
  /\ dir' = TRUE
  /\ \/ connectors = "none" /\ connectors' = "starting" /\ spawned' = spawned + 1
     \/ connectors # "none" /\ UNCHANGED <<connectors, spawned>>
  /\ Moves(c, "connecting")
  /\ UNCHANGED <<row, stored, live, made, history, deleter, bounds, said, flags>>

(* Every configured server is connected, or has failed to. *)
ConnectorsUp ==
  /\ connectors = "starting"
  /\ connectors' = "ready"
  /\ UNCHANGED <<store, live, made, history, spawned, caller, deleter, bounds, said, flags>>

(* Mutant: the session is returned and not put in the map. *)
BuiltUnlisted(c) ==
  /\ caller[c].at = "connecting" /\ connectors = "ready"
  /\ made' = made + 1
  /\ history' = Append(history, caller[c].loaded)
  /\ caller' = [caller EXCEPT ![c] = [at |-> "sending", session |-> made', loaded |-> <<>>]]
  /\ UNCHANGED <<store, live, connectors, spawned, deleter, bounds, said, flags>>

(* get, from its last await on: the session is built on the history loaded  *)
(* at the start, and becomes the live one whatever is live by now.          *)
Built(c) ==
  /\ caller[c].at = "connecting" /\ connectors = "ready"
  /\ made' = made + 1
  /\ history' = Append(history, caller[c].loaded)
  /\ live' = made'
  /\ doubled' = (doubled \/ live # None)
  /\ caller' = [caller EXCEPT ![c] = [at |-> "sending", session |-> made', loaded |-> <<>>]]
  /\ UNCHANGED <<store, connectors, spawned, deleter, bounds, said, crossed, unkept>>

(* A message joins the session's history, and then, by onMessage, the rows   *)
(* of the thread.  The append is a transaction that may be rolled back and    *)
(* throw, and always is when the thread has no row; the history keeps the     *)
(* message all the same.                                                      *)
Say(c, kept) ==
  /\ kept => row
  /\ said' = said + 1
  /\ history' = [history EXCEPT ![caller[c].session] = Append(@, said')]
  /\ stored' = IF kept THEN Append(stored, said') ELSE stored
  /\ unkept' = IF kept THEN unkept ELSE unkept \cup {said'}

(* send begins: the user's message.  When onMessage throws, so does send.    *)
Ask(c) ==
  /\ caller[c].at = "sending"
  /\ \E kept \in BOOLEAN :
       /\ Say(c, kept)
       /\ caller' = [caller EXCEPT ![c] = IF kept THEN [@ EXCEPT !.at = "thinking"] ELSE Gone]
  /\ UNCHANGED <<row, dir, live, made, connectors, spawned, deleter, bounds, doubled, crossed>>

(* Mutant: onMessage is called for the user's messages only. *)
AnswerUnstored(c) ==
  /\ caller[c].at = "thinking" /\ row
  /\ said' = said + 1
  /\ history' = [history EXCEPT ![caller[c].session] = Append(@, said')]
  /\ caller' = [caller EXCEPT ![c] = Gone]
  /\ UNCHANGED <<store, live, made, connectors, spawned, deleter, bounds, flags>>

(* The turn ends with an answer, appended or not.  The cost is recorded      *)
(* first; where that throws, as it does without a row, the turn fails.       *)
Answer(c) ==
  /\ caller[c].at = "thinking" /\ row
  /\ \E kept \in BOOLEAN : Say(c, kept)
  /\ caller' = [caller EXCEPT ![c] = Gone]
  /\ UNCHANGED <<row, dir, live, made, connectors, spawned, deleter, bounds, doubled, crossed>>

(* The turn ends in an error: the user's message stays, unanswered. *)
TurnFails(c) ==
  /\ caller[c].at = "thinking"
  /\ caller' = [caller EXCEPT ![c] = Gone]
  /\ UNCHANGED <<store, memory, deleter, bounds, said, flags>>

(* A tool of the turn asks the session's approval gate ... *)
Prompt(c) ==
  /\ caller[c].at = "thinking"
  /\ Moves(c, "waiting")
  /\ UNCHANGED <<store, memory, deleter, bounds, said, flags>>

(* ... which answers to the gate of the live session (POST /api/approve    *)
(* peeks), or to its own timer.                                             *)
Approve(c) ==
  /\ caller[c].at = "waiting" /\ live = caller[c].session
  /\ Moves(c, "thinking")
  /\ UNCHANGED <<store, memory, deleter, bounds, said, flags>>

TimeOut(c) ==
  /\ caller[c].at = "waiting"
  /\ Moves(c, "thinking")
  /\ UNCHANGED <<store, memory, deleter, bounds, said, flags>>

(* deleteThread, up to its first await: what waits on the live session's    *)
(* gate is denied.                                                          *)
Delete ==
  /\ deleter = "idle" /\ deletes < MaxDeletes
  /\ deletes' = deletes + 1
  /\ crossed' = (crossed \/ \E c \in Callers : Busy(c))
  /\ \/ /\ live # None
        /\ deleter' = "disposing"
        /\ caller' = [c \in Callers |->
                        IF caller[c].at = "waiting" /\ caller[c].session = live
                          THEN [caller[c] EXCEPT !.at = "thinking"] ELSE caller[c]]
        /\ UNCHANGED <<row, stored>>
     \/ /\ live = None
        /\ deleter' = "removing"
        /\ row' = FALSE /\ stored' = <<>>
        /\ UNCHANGED caller
  /\ UNCHANGED <<dir, memory, posts, restarts, said, doubled, unkept>>

(* Mutant: the live session is not taken out of the map. *)
DisposedKept ==
  /\ deleter = "disposing"
  /\ row' = FALSE /\ stored' = <<>>
  /\ deleter' = "removing"
  /\ UNCHANGED <<dir, memory, caller, bounds, said, flags>>

(* The workspace is disposed of: the session leaves the map, and the row    *)
(* goes with its messages and costs.                                        *)
Disposed ==
  /\ deleter = "disposing"
  /\ live' = None
  /\ row' = FALSE /\ stored' = <<>>
  /\ deleter' = "removing"
  /\ UNCHANGED <<dir, made, history, connectors, spawned, caller, bounds, said, flags>>

Removed ==
  /\ deleter = "removing"
  /\ dir' = FALSE
  /\ deleter' = "idle"
  /\ UNCHANGED <<row, stored, memory, caller, bounds, said, flags>>

(* The process dies: the store and the directory survive. *)
Restart ==
  /\ restarts < MaxRestarts
  /\ restarts' = restarts + 1
  /\ live' = None /\ connectors' = "none" /\ spawned' = 0
  /\ caller' = [c \in Callers |-> Gone] /\ deleter' = "idle"
  /\ doubled' = FALSE /\ crossed' = FALSE
  /\ UNCHANGED <<store, made, history, posts, deletes, said, unkept>>

Next ==
  \/ \E c \in Callers :
       \/ Post(c) \/ Started(c) \/ Built(c)
       \/ Ask(c) \/ Answer(c) \/ TurnFails(c)
       \/ Prompt(c) \/ Approve(c) \/ TimeOut(c)
  \/ ConnectorsUp
  \/ Delete \/ Disposed \/ Removed
  \/ Restart

Spec == Init /\ [][Next]_vars

-----------------------------------------------------------------------------
(* Every variable has its kind, and a turn runs on some session.           *)
CallerRecords(n) == [at : {"idle"} \cup Getting \cup InTurn, session : 0..n, loaded : Seq(Nat)]
CallersOK ==
  /\ caller \in [Callers -> CallerRecords(made)]
  /\ \A c \in Callers : caller[c].at \in InTurn => caller[c].session # None
ThreadOK ==
  /\ stored \in Seq(Nat)
  /\ made \in Nat /\ live \in 0..made
  /\ history \in Seq(Seq(Nat)) /\ Len(history) = made
  /\ connectors \in {"none", "starting", "ready"} /\ spawned \in Nat
  /\ deleter \in {"idle", "disposing", "removing"}
  /\ posts \in Nat /\ deletes \in Nat /\ restarts \in Nat /\ said \in Nat
TypeOK ==
  /\ CallersOK /\ ThreadOK
  /\ row \in BOOLEAN /\ dir \in BOOLEAN /\ doubled \in BOOLEAN /\ crossed \in BOOLEAN
  /\ unkept \subseteq Nat

(* What the agent remembers is what a reload would show, in the order it was *)
(* said, but for the messages whose append failed: across concurrent turns,  *)
(* failed turns and restarts, unless a second session for the thread or an   *)
(* overlapping deletion parted the two (agent.ts history, appendMessages).   *)
InOrder(s) == \A i, j \in DOMAIN s : i < j => s[i] < s[j]
HistoryIsStored ==
  ~doubled /\ ~crossed /\ live # None =>
    /\ ToSet(stored) = ToSet(history[live]) \ unkept
    /\ InOrder(stored) /\ InOrder(history[live])

(* With two sessions on one thread they forget each other's messages, yet the*)
(* store has what either of them remembers, but for failed appends, until the*)
(* thread is deleted under them.                                             *)
NothingSaidIsLost ==
  ~crossed =>
    /\ \A c \in Callers : caller[c].at \in InTurn =>
         ToSet(history[caller[c].session]) \ unkept \subseteq ToSet(stored)
    /\ live # None => ToSet(history[live]) \ unkept \subseteq ToSet(stored)

(* A live session has both halves of its thread, unless a deletion overlapped*)
(* a POST (the two halves of deleteThread's comment).                       *)
LiveThreadIsWhole == (~crossed /\ live # None /\ deleter = "idle") => row /\ dir

(* Two sessions built on a cold start do not each start every MCP server    *)
(* (the comment on getConnectors).                                          *)
ConnectorsStartOnce == spawned <= 1

(* A prompt a turn waits on is one POST /api/approve can reach, unless a    *)
(* second session or a deletion came between.                               *)
PromptsAreAnswerable ==
  ~doubled /\ ~crossed => \A c \in Callers : caller[c].at = "waiting" => caller[c].session = live
=============================================================================
