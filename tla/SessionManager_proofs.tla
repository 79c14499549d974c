------------------------ MODULE SessionManager_proofs ------------------------
(***************************************************************************)
(* For any number of POSTs, deletions and restarts: what SessionManager.cfg *)
(* checks on a small instance.                                             *)
(*                                                                         *)
(* A caller holds what it read before an await: a session that may no      *)
(* longer be the live one, messages that may no longer be the thread's.    *)
(* The invariant says of each caller what of that is still true, and until *)
(* when: until a deletion overlaps a POST (Whole, Kept) or a second        *)
(* session is built (Remembered).  Messages are numbered as they are said,  *)
(* so one comes after all that were, and none whose append failed is in the *)
(* store (Dated).                                                           *)
(***************************************************************************)
EXTENDS SessionManager, TLAPS

StartedOnce == spawned = IF connectors = "none" THEN 0 ELSE 1

Whole ==
  ~crossed =>
    /\ \A c \in Callers : Busy(c) => row /\ deleter = "idle"
    /\ \A c \in Callers : caller[c].at \in InTurn \cup {"connecting"} => dir
    /\ live # None /\ deleter = "idle" => row /\ dir
    /\ deleter = "removing" => live = None

Kept ==
  ~crossed =>
    /\ \A c \in Callers : caller[c].at \in InTurn =>
         ToSet(history[caller[c].session]) \ unkept \subseteq ToSet(stored)
    /\ \A c \in Callers : caller[c].at \in Getting => ToSet(caller[c].loaded) \subseteq ToSet(stored)
    /\ live # None => ToSet(history[live]) \ unkept \subseteq ToSet(stored)

Remembered ==
  ~doubled /\ ~crossed =>
    /\ \A c \in Callers : caller[c].at \in InTurn => caller[c].session = live
    /\ \A c \in Callers : caller[c].at \in Getting /\ live = None => caller[c].loaded = stored
    /\ live # None => ToSet(stored) = ToSet(history[live]) \ unkept

UpTo(s, n) == InOrder(s) /\ \A i \in DOMAIN s : s[i] <= n
Dated ==
  /\ UpTo(stored, said)
  /\ \A i \in 1..made : UpTo(history[i], said)
  /\ \A c \in Callers : UpTo(caller[c].loaded, said)
  /\ \A m \in unkept : m <= said
  /\ ToSet(stored) \cap unkept = {}

IInv == TypeOK /\ StartedOnce /\ Whole /\ Kept /\ Remembered /\ Dated

-----------------------------------------------------------------------------
LEMMA AppendIn ==
  ASSUME NEW S, NEW s \in Seq(S), NEW x \in S
  PROVE  Append(s, x) \in Seq(S) /\ ToSet(Append(s, x)) = ToSet(s) \cup {x}
<1> DEFINE t == Append(s, x)
<1>1. /\ t \in Seq(S) /\ Len(s) \in Nat /\ DOMAIN s = 1..Len(s) /\ DOMAIN t = 1..Len(s) + 1
      /\ \A i \in 1..Len(s) : t[i] = s[i]
      /\ t[Len(s) + 1] = x
  OBVIOUS
<1> HIDE DEF t
<1>2. ASSUME NEW y PROVE y \in ToSet(t) <=> y \in ToSet(s) \cup {x}
  <2>1. y \in ToSet(t) <=> \E i \in 1..Len(s) + 1 : y = t[i]
    BY <1>1 DEF ToSet
  <2>2. y \in ToSet(s) <=> \E i \in 1..Len(s) : y = s[i]
    BY <1>1 DEF ToSet
  <2>3. (\E i \in 1..Len(s) + 1 : y = t[i]) <=> (\E i \in 1..Len(s) : y = t[i]) \/ y = t[Len(s) + 1]
    BY <1>1
  <2> QED BY <1>1, <2>1, <2>2, <2>3
<1> QED BY <1>1, <1>2 DEF t

LEMMA AppendUpTo ==
  ASSUME NEW s \in Seq(Nat), NEW n \in Nat, UpTo(s, n)
  PROVE  UpTo(Append(s, n + 1), n + 1) /\ UpTo(s, n + 1)
<1> DEFINE t == Append(s, n + 1)
<1>1. /\ Len(s) \in Nat /\ DOMAIN s = 1..Len(s) /\ DOMAIN t = 1..Len(s) + 1
      /\ \A i \in 1..Len(s) : t[i] = s[i] /\ s[i] \in Nat
      /\ t[Len(s) + 1] = n + 1
  OBVIOUS
<1> HIDE DEF t
<1>2. /\ \A i, j \in 1..Len(s) : i < j => s[i] < s[j]
      /\ \A i \in 1..Len(s) : s[i] <= n
  BY <1>1 DEF UpTo, InOrder
<1>3. ASSUME NEW i \in 1..Len(s) + 1, NEW j \in 1..Len(s) + 1, i < j PROVE t[i] < t[j]
  <2>1. i \in 1..Len(s) /\ t[i] = s[i] /\ s[i] \in Nat /\ s[i] <= n
    BY <1>1, <1>2, <1>3
  <2>2. CASE j = Len(s) + 1
    BY <1>1, <2>1, <2>2
  <2>3. CASE j \in 1..Len(s)
    BY <1>1, <1>2, <1>3, <2>1, <2>3
  <2> QED BY <1>1, <2>2, <2>3
<1>4. \A i \in 1..Len(s) + 1 : t[i] <= n + 1
  BY <1>1, <1>2
<1>5. UpTo(t, n + 1)
  BY <1>1, <1>3, <1>4 DEF UpTo, InOrder
<1>6. UpTo(s, n + 1)
  BY <1>1, <1>2 DEF UpTo, InOrder
<1> QED BY <1>5, <1>6 DEF t

LEMMA InitIInv == Init => IInv
<1> SUFFICES ASSUME Init PROVE IInv
  OBVIOUS
<1>1. TypeOK
  <2>1. Gone \in [at : {"idle"} \cup Getting \cup InTurn, session : 0..made, loaded : Seq(Nat)]
    BY DEF Init, Gone, None
  <2>2. caller = [c \in Callers |-> Gone] /\ Gone.at \notin InTurn
    BY DEF Init, Gone, InTurn
  <2>3. <<>> \in Seq(Nat) /\ <<>> \in Seq(Seq(Nat)) /\ Len(<<>>) = 0
    OBVIOUS
  <2>4. CallersOK
    BY <2>1, <2>2 DEF CallersOK, CallerRecords
  <2>5. /\ stored = <<>> /\ history = <<>> /\ made = 0 /\ live = 0 /\ connectors = "none" /\ spawned = 0
        /\ deleter = "idle" /\ posts = 0 /\ deletes = 0 /\ restarts = 0 /\ said = 0
    BY DEF Init, None
  <2>6. ThreadOK
    BY <2>3, <2>5 DEF ThreadOK
  <2> QED BY <2>4, <2>6 DEF Init, TypeOK
<1>2. \A c \in Callers : caller[c].at = "idle"
  BY DEF Init, Gone
<1>3. StartedOnce /\ Whole /\ Kept /\ Remembered
  BY <1>2 DEF Init, StartedOnce, Whole, Kept, Remembered, None, Busy, Getting, InTurn
<1>4. Dated
  <2>1. stored = <<>> /\ made = 0 /\ said = 0 /\ unkept = {} /\ \A c \in Callers : caller[c].loaded = <<>>
    BY DEF Init, Gone
  <2>2. UpTo(<<>>, 0)
    BY DEF UpTo, InOrder
  <2> QED BY <2>1, <2>2 DEF Dated
<1> QED BY <1>1, <1>3, <1>4 DEF IInv

(* A message is said: what it leaves alone, and what it keeps.              *)
LEMMA SayKeeps ==
  ASSUME TypeOK, NEW c \in Callers, caller[c].at \in InTurn, NEW kept \in BOOLEAN, Say(c, kept)
  PROVE  /\ history' \in Seq(Seq(Nat)) /\ Len(history') = Len(history)
         /\ stored' \in Seq(Nat) /\ said' = said + 1
         /\ \A i \in 1..made : i # caller[c].session => history'[i] = history[i]
         /\ history'[caller[c].session] = Append(history[caller[c].session], said')
         /\ ToSet(history'[caller[c].session]) = ToSet(history[caller[c].session]) \cup {said'}
         /\ kept => unkept' = unkept /\ stored' = Append(stored, said') /\ ToSet(stored') = ToSet(stored) \cup {said'}
         /\ ~kept => unkept' = unkept \cup {said'} /\ stored' = stored
         /\ \A i \in 1..made : ToSet(history[i]) \ unkept \subseteq ToSet(stored)
                              => ToSet(history'[i]) \ unkept' \subseteq ToSet(stored')
<1> DEFINE s == caller[c].session
<1>1. s \in 1..made /\ made \in Nat /\ s \in 1..Len(history) /\ stored \in Seq(Nat) /\ said' \in Nat /\ said' = said + 1
  BY DEF TypeOK, CallersOK, CallerRecords, ThreadOK, None, Say
<1>2. history[s] \in Seq(Nat) /\ history \in Seq(Seq(Nat)) /\ Len(history) = made
  BY <1>1 DEF TypeOK, ThreadOK
<1>3. /\ Append(history[s], said') \in Seq(Nat) /\ Append(stored, said') \in Seq(Nat)
      /\ ToSet(Append(history[s], said')) = ToSet(history[s]) \cup {said'}
      /\ ToSet(Append(stored, said')) = ToSet(stored) \cup {said'}
  <2> DEFINE h == history[s]
             x == said'
  <2>1. h \in Seq(Nat) /\ x \in Nat /\ stored \in Seq(Nat)
    BY <1>1, <1>2
  <2> HIDE DEF h, x
  <2>2. Append(h, x) \in Seq(Nat) /\ ToSet(Append(h, x)) = ToSet(h) \cup {x}
    BY <2>1, AppendIn
  <2>3. Append(stored, x) \in Seq(Nat) /\ ToSet(Append(stored, x)) = ToSet(stored) \cup {x}
    BY <2>1, AppendIn
  <2> QED BY <2>2, <2>3 DEF h, x
<1>4. history' = [history EXCEPT ![s] = Append(history[s], said')]
  BY DEF Say
<1>5. /\ history' \in Seq(Seq(Nat)) /\ Len(history') = Len(history)
      /\ history'[s] = Append(history[s], said')
      /\ \A i \in 1..made : i # s => history'[i] = history[i]
  BY <1>1, <1>2, <1>3, <1>4
<1>6. /\ kept => unkept' = unkept /\ stored' = Append(stored, said')
      /\ ~kept => unkept' = unkept \cup {said'} /\ stored' = stored
  BY DEF Say
<1> HIDE DEF s
<1>7. ASSUME NEW i \in 1..made, ToSet(history[i]) \ unkept \subseteq ToSet(stored)
      PROVE  ToSet(history'[i]) \ unkept' \subseteq ToSet(stored')
  BY <1>3, <1>5, <1>6, <1>7
<1> QED BY <1>1, <1>3, <1>5, <1>6, <1>7 DEF s

-----------------------------------------------------------------------------
(* TypeOK, flags apart.                                                     *)
TypesOK == CallersOK /\ ThreadOK

(* A record with another place.                                             *)
LEMMA AtOnly ==
  ASSUME NEW n, NEW r \in CallerRecords(n), NEW p
  PROVE  [r EXCEPT !.at = p] = [at |-> p, session |-> r.session, loaded |-> r.loaded]
BY DEF CallerRecords

(* A caller goes somewhere, or to another record.                           *)
LEMMA CallerMoves ==
  ASSUME CallersOK, ThreadOK, NEW c \in Callers, NEW r \in CallerRecords(made'), r.at \in InTurn => r.session # None,
         made' \in {made, made + 1}, caller' = [caller EXCEPT ![c] = r]
  PROVE  CallersOK'
<1>1. \A d \in Callers : caller[d] \in CallerRecords(made')
  BY DEF CallersOK, ThreadOK, CallerRecords
<1>2. \A d \in Callers : caller'[d] = IF d = c THEN r ELSE caller[d]
  BY DEF CallersOK
<1>3. caller' \in [Callers -> CallerRecords(made')]
  BY <1>1 DEF CallersOK
<1> QED BY <1>2, <1>3 DEF CallersOK

LEMMA TypesStep == ASSUME TypeOK, [Next]_vars PROVE TypesOK'
<1>0. CallersOK /\ ThreadOK
  BY DEF TypeOK
<1> USE DEF store, memory, bounds, flags
<1>a. \A c \in Callers : caller[c].at \in {"idle"} \cup Getting \cup InTurn /\ caller[c].session \in 0..made
        /\ caller[c].loaded \in Seq(Nat) /\ caller[c] = [at |-> caller[c].at, session |-> caller[c].session, loaded |-> caller[c].loaded]
  BY <1>0 DEF CallersOK, CallerRecords
<1>b. Gone \in CallerRecords(made) /\ Gone.at \notin InTurn
  BY <1>0 DEF Gone, CallerRecords, InTurn, ThreadOK, None
<1>c. ASSUME NEW c \in Callers, NEW place \in Getting \cup InTurn, Moves(c, place), made' = made,
             place \in InTurn => caller[c].at \in InTurn
      PROVE  CallersOK'
  <2> DEFINE r == [at |-> place, session |-> caller[c].session, loaded |-> caller[c].loaded]
  <2>1. r \in CallerRecords(made') /\ (r.at \in InTurn => r.session # None)
    BY <1>0, <1>a, <1>c DEF CallerRecords, CallersOK
  <2>2. caller' = [caller EXCEPT ![c] = r]
    <3>1. [caller[c] EXCEPT !.at = place] = r
      BY <1>0, AtOnly DEF CallersOK
    <3> HIDE DEF r
    <3> QED BY <1>0, <1>c, <3>1 DEF Moves, CallersOK
  <2> HIDE DEF r
  <2> QED BY <1>0, <1>c, <2>1, <2>2, CallerMoves
<1>d. ASSUME NEW c \in Callers, caller' = [caller EXCEPT ![c] = Gone], made' = made
      PROVE  CallersOK'
  BY <1>0, <1>b, <1>d, CallerMoves
<1>1. ASSUME NEW c \in Callers, Post(c) PROVE TypesOK'
  <2>1. ThreadOK'
    <3>1. UNCHANGED <<stored, live, made, history, connectors, spawned, deleter, deletes, restarts, said>> /\ posts' = posts + 1
      BY <1>1 DEF Post
    <3> QED BY <1>0, <3>1 DEF ThreadOK
  <2>2. CASE live # None
    <3> DEFINE r == [at |-> "sending", session |-> live, loaded |-> <<>>]
    <3>1. r \in CallerRecords(made') /\ r.session # None /\ caller' = [caller EXCEPT ![c] = r] /\ made' = made
      BY <1>0, <1>1, <2>2 DEF Post, CallerRecords, InTurn, ThreadOK
    <3> HIDE DEF r
    <3> QED BY <1>0, <2>1, <3>1, CallerMoves DEF TypesOK
  <2>3. CASE live = None
    <3> DEFINE r == [at |-> "starting", session |-> None, loaded |-> stored]
    <3>1. r \in CallerRecords(made') /\ r.at \notin InTurn /\ caller' = [caller EXCEPT ![c] = r] /\ made' = made
      BY <1>0, <1>1, <2>3 DEF Post, CallerRecords, Getting, InTurn, ThreadOK, None
    <3> HIDE DEF r
    <3> QED BY <1>0, <2>1, <3>1, CallerMoves DEF TypesOK
  <2> QED BY <2>2, <2>3
<1>2. ASSUME NEW c \in Callers, Started(c) PROVE TypesOK'
  <2>1. ThreadOK'
    BY <1>0, <1>2 DEF Started, ThreadOK
  <2>2. "connecting" \in Getting /\ "connecting" \notin InTurn
    BY DEF Getting, InTurn
  <2>3. CallersOK'
    BY <1>2, <1>c, <2>2 DEF Started
  <2> QED BY <2>1, <2>3 DEF TypesOK
<1>3. ASSUME NEW c \in Callers, Built(c) PROVE TypesOK'
  <2>1. made' = made + 1 /\ caller[c].loaded \in Seq(Nat) /\ history' = Append(history, caller[c].loaded)
    BY <1>3, <1>a DEF Built
  <2>2. history' \in Seq(Seq(Nat)) /\ Len(history') = made'
    BY <1>0, <2>1 DEF ThreadOK
  <2>3. ThreadOK'
    BY <1>0, <1>3, <2>1, <2>2 DEF ThreadOK, Built
  <2> DEFINE r == [at |-> "sending", session |-> made', loaded |-> <<>>]
  <2>4. r \in CallerRecords(made') /\ r.session # None /\ caller' = [caller EXCEPT ![c] = r]
    BY <1>0, <1>3, <2>1 DEF Built, CallerRecords, InTurn, ThreadOK, None
  <2> HIDE DEF r
  <2> QED BY <1>0, <2>1, <2>3, <2>4, CallerMoves DEF TypesOK
<1>4. ASSUME NEW c \in Callers, Ask(c) PROVE TypesOK'
  <2>1. caller[c].at \in InTurn /\ (\E kept \in BOOLEAN : Say(c, kept)) /\ "thinking" \in InTurn /\ made' = made
    BY <1>4 DEF Ask, InTurn
  <2>2. /\ history' \in Seq(Seq(Nat)) /\ Len(history') = Len(history)
        /\ stored' \in Seq(Nat) /\ said' = said + 1
    BY <2>1, SayKeeps
  <2>3. ThreadOK'
    BY <1>0, <1>4, <2>2 DEF Ask, ThreadOK
  <2>4. (caller' = [caller EXCEPT ![c] = Gone]) \/ Moves(c, "thinking")
    BY <1>4 DEF Ask, Moves
  <2>5. CallersOK'
    BY <1>c, <1>d, <2>1, <2>4
  <2> QED BY <2>3, <2>5 DEF TypesOK
<1>5. ASSUME NEW c \in Callers, Answer(c) PROVE TypesOK'
  <2>1. /\ history' \in Seq(Seq(Nat)) /\ Len(history') = Len(history)
        /\ stored' \in Seq(Nat) /\ said' = said + 1
    BY <1>5, SayKeeps DEF Answer, InTurn
  <2>2. ThreadOK'
    BY <1>0, <1>5, <2>1 DEF Answer, ThreadOK
  <2>3. CallersOK'
    BY <1>5, <1>d DEF Answer
  <2> QED BY <2>2, <2>3 DEF TypesOK
<1>6. ASSUME NEW c \in Callers, TurnFails(c) \/ Prompt(c) \/ Approve(c) \/ TimeOut(c) PROVE TypesOK'
  <2>1. ThreadOK' /\ made' = made /\ caller[c].at \in InTurn /\ {"waiting", "thinking"} \subseteq InTurn
    BY <1>0, <1>6 DEF TurnFails, Prompt, Approve, TimeOut, ThreadOK, InTurn
  <2>2. (caller' = [caller EXCEPT ![c] = Gone]) \/ Moves(c, "waiting") \/ Moves(c, "thinking")
    BY <1>6 DEF TurnFails, Prompt, Approve, TimeOut
  <2>3. CallersOK'
    BY <1>c, <1>d, <2>1, <2>2
  <2> QED BY <2>1, <2>3 DEF TypesOK
<1>7. CASE ConnectorsUp \/ Disposed \/ Removed \/ UNCHANGED vars
  <2>1. ThreadOK'
    <3>1. CASE Disposed
      <4>1. /\ stored' = <<>> /\ live' = 0 /\ deleter' = "removing"
            /\ UNCHANGED <<made, history, connectors, spawned, posts, deletes, restarts, said>>
        BY <3>1 DEF Disposed, None
      <4> QED BY <1>0, <4>1 DEF ThreadOK
    <3>2. CASE ConnectorsUp \/ Removed \/ UNCHANGED vars
      BY <1>0, <3>2 DEF ConnectorsUp, Removed, ThreadOK, vars
    <3> QED BY <1>7, <3>1, <3>2
  <2>2. CallersOK'
    BY <1>0, <1>7 DEF ConnectorsUp, Disposed, Removed, CallersOK, vars
  <2> QED BY <2>1, <2>2 DEF TypesOK
<1>8. CASE Delete
  <2>1. ThreadOK'
    <3>1. /\ (stored' = stored \/ stored' = <<>>) /\ deletes' = deletes + 1 /\ deleter' \in {"disposing", "removing"}
          /\ UNCHANGED <<live, made, history, connectors, spawned, posts, restarts, said>>
      BY <1>8 DEF Delete
    <3>2. stored \in Seq(Nat) /\ <<>> \in Seq(Nat)
      BY <1>0 DEF ThreadOK
    <3>3. stored' \in Seq(Nat)
      BY <3>1, <3>2
    <3> QED BY <1>0, <3>1, <3>3 DEF ThreadOK
  <2>2. \A c \in Callers : caller[c].at \in InTurn =>
          [caller[c] EXCEPT !.at = "thinking"] \in CallerRecords(made) /\ [caller[c] EXCEPT !.at = "thinking"].session = caller[c].session
    <3> TAKE c \in Callers
    <3> HAVE caller[c].at \in InTurn
    <3>1. "thinking" \in InTurn
      BY DEF InTurn
    <3>2. [caller[c] EXCEPT !.at = "thinking"] =
            [at |-> "thinking", session |-> caller[c].session, loaded |-> caller[c].loaded]
      BY <1>0, AtOnly DEF CallersOK
    <3> QED BY <1>a, <3>1, <3>2 DEF CallerRecords
  <2>3. CallersOK'
    <3>1. CASE live # None
      <4>1. caller' = [c \in Callers |-> IF caller[c].at = "waiting" /\ caller[c].session = live
                          THEN [caller[c] EXCEPT !.at = "thinking"] ELSE caller[c]]
        BY <1>8, <3>1 DEF Delete
      <4>2. \A c \in Callers : caller[c].at = "waiting" => caller[c].at \in InTurn
        BY DEF InTurn
      <4>3. made' = made
        BY <1>8 DEF Delete
      <4> QED BY <1>0, <2>2, <4>1, <4>2, <4>3 DEF CallersOK
    <3>2. CASE live = None
      BY <1>0, <1>8, <3>2 DEF Delete, CallersOK
    <3> QED BY <3>1, <3>2
  <2> QED BY <2>1, <2>3 DEF TypesOK
<1>9. CASE Restart
  <2>1. ThreadOK'
    <3>1. /\ UNCHANGED <<stored, made, history, posts, deletes, said>> /\ live' = 0 /\ restarts' = restarts + 1
          /\ connectors' = "none" /\ spawned' = 0 /\ deleter' = "idle"
      BY <1>9 DEF Restart, None
    <3> QED BY <1>0, <3>1 DEF ThreadOK
  <2>2. caller' = [c \in Callers |-> Gone] /\ made' = made
    BY <1>9 DEF Restart
  <2>3. CallersOK'
    BY <1>b, <2>2 DEF CallersOK
  <2> QED BY <2>1, <2>3 DEF TypesOK
<1> QED BY <1>1, <1>2, <1>3, <1>4, <1>5, <1>6, <1>7, <1>8, <1>9 DEF Next

LEMMA TypeStep == ASSUME TypeOK, [Next]_vars PROVE TypeOK'
<1>1. TypesOK'
  BY TypesStep
<1>2. row' \in BOOLEAN
  BY DEF TypeOK, Next, vars, store, memory, bounds, flags, Post, Started, Built, Ask, Answer, TurnFails, Say,
     Prompt, Approve, TimeOut, ConnectorsUp, Delete, Disposed, Removed, Restart
<1>3. dir' \in BOOLEAN
  BY DEF TypeOK, Next, vars, store, memory, bounds, flags, Post, Started, Built, Ask, Answer, TurnFails, Say,
     Prompt, Approve, TimeOut, ConnectorsUp, Delete, Disposed, Removed, Restart
<1>4. doubled' \in BOOLEAN
  BY DEF TypeOK, Next, vars, store, memory, bounds, flags, Post, Started, Built, Ask, Answer, TurnFails, Say,
     Prompt, Approve, TimeOut, ConnectorsUp, Delete, Disposed, Removed, Restart
<1>5. crossed' \in BOOLEAN
  BY DEF TypeOK, Next, vars, store, memory, bounds, flags, Post, Started, Built, Ask, Answer, TurnFails, Say,
     Prompt, Approve, TimeOut, ConnectorsUp, Delete, Disposed, Removed, Restart
<1>6. unkept' \subseteq Nat
  <2>1. said \in Nat /\ unkept \subseteq Nat
    BY DEF TypeOK, ThreadOK
  <2>2. unkept' = unkept \/ unkept' = unkept \cup {said + 1}
    BY DEF Next, vars, store, memory, bounds, flags, Post, Started, Built, Ask, Answer, TurnFails, Say,
       Prompt, Approve, TimeOut, ConnectorsUp, Delete, Disposed, Removed, Restart
  <2>3. {said + 1} \subseteq Nat
    BY <2>1
  <2> QED BY <2>1, <2>2, <2>3
<1> QED BY <1>1, <1>2, <1>3, <1>4, <1>5, <1>6 DEF TypeOK, TypesOK

LEMMA StartedOnceStep == ASSUME TypeOK, StartedOnce, [Next]_vars PROVE StartedOnce'
BY DEF StartedOnce, Next, vars, store, memory, bounds, flags, Post, Started, Built, Ask, Answer, TurnFails,
   Prompt, Approve, TimeOut, ConnectorsUp, Delete, Disposed, Removed, Restart

-----------------------------------------------------------------------------
(* Where a POST puts its caller.                                            *)
LEMMA PostMoves ==
  ASSUME CallersOK, NEW c \in Callers, Post(c)
  PROVE  /\ \A d \in Callers \ {c} : caller'[d] = caller[d]
         /\ \/ live # None /\ caller'[c] = [at |-> "sending", session |-> live, loaded |-> <<>>]
            \/ live = None /\ caller'[c] = [at |-> "starting", session |-> None, loaded |-> stored]
<1>1. caller \in [Callers -> CallerRecords(made)]
  BY DEF CallersOK
<1>2. CASE live # None
  <2>1. caller' = [caller EXCEPT ![c] = [at |-> "sending", session |-> live, loaded |-> <<>>]]
    BY <1>2 DEF Post
  <2> QED BY <1>1, <1>2, <2>1
<1>3. CASE live = None
  <2>1. caller' = [caller EXCEPT ![c] = [at |-> "starting", session |-> None, loaded |-> stored]]
    BY <1>3 DEF Post
  <2> QED BY <1>1, <1>3, <2>1
<1> QED BY <1>2, <1>3

LEMMA WholeStep == ASSUME TypeOK, Whole, [Next]_vars PROVE Whole'
<1> SUFFICES ASSUME ~crossed' PROVE Whole'
  BY DEF Whole
<1> USE DEF None, Busy, Getting, InTurn, Moves, store, memory, bounds, flags
<1>0. Whole /\ TypeOK
  OBVIOUS
<1>a. \A c \in Callers : caller \in [Callers -> CallerRecords(made)]
  BY DEF TypeOK, CallersOK
<1>1. ASSUME NEW c \in Callers, Post(c) PROVE Whole'
  <2>1. /\ ~crossed /\ deleter = "idle" /\ live' = live /\ dir' = dir /\ deleter' = deleter
    BY <1>1 DEF Post
  <2>a. (live # None /\ row' = row) \/ (live = None /\ row' = TRUE)
    BY <1>1 DEF Post
  <2>b. /\ \A d \in Callers \ {c} : caller'[d] = caller[d]
        /\ caller'[c].at = "starting" \/ (caller'[c].at = "sending" /\ live # None)
    BY <1>1, PostMoves DEF TypeOK
  <2>2. live # None => row /\ dir
    BY <2>1 DEF Whole
  <2>3. row'
    BY <2>a, <2>2
  <2>4. \A d \in Callers : caller'[d].at \in InTurn \cup {"connecting"} => dir'
    BY <2>1, <2>b, <2>2 DEF Whole
  <2> QED BY <2>1, <2>2, <2>3, <2>4 DEF Whole
<1>2. ASSUME NEW c \in Callers, Started(c) PROVE Whole'
  BY <1>2, <1>a DEF Started, Whole
<1>3. ASSUME NEW c \in Callers, Built(c) PROVE Whole'
  BY <1>3, <1>a DEF Built, Whole
<1>4. ASSUME NEW c \in Callers, Ask(c) \/ Answer(c) \/ TurnFails(c) \/ Prompt(c) \/ Approve(c) \/ TimeOut(c)
      PROVE  Whole'
  BY <1>4, <1>a DEF Ask, Answer, TurnFails, Prompt, Approve, TimeOut, Gone, Whole
<1>5. CASE ConnectorsUp
  BY <1>5 DEF ConnectorsUp, Whole
<1>6. CASE Delete
  <2>1. /\ \A c \in Callers : caller[c].at = "idle"
        /\ deleter' \in {"disposing", "removing"} /\ live' = live /\ dir' = dir /\ ~crossed
        /\ deleter' = "removing" => live = None
    BY <1>6 DEF Delete
  <2>2. \A c \in Callers : caller'[c].at = "idle"
    BY <1>6, <2>1, <1>a DEF Delete
  <2> QED BY <2>1, <2>2 DEF Whole
<1>7. CASE Disposed \/ Removed
  BY <1>7 DEF Disposed, Removed, Whole
<1>8. CASE Restart
  BY <1>8 DEF Restart, Whole, Gone
<1>9. CASE UNCHANGED vars
  BY <1>9 DEF vars, Whole
<1> QED BY <1>1, <1>2, <1>3, <1>4, <1>5, <1>6, <1>7, <1>8, <1>9 DEF Next

(* What is said comes after everything that was.                            *)
LEMMA DatedStep == ASSUME TypeOK, Dated, [Next]_vars PROVE Dated'
<1> USE DEF None, Busy, Getting, InTurn, Moves, store, memory, bounds, flags
<1>a. /\ caller \in [Callers -> CallerRecords(made)] /\ made \in Nat /\ live \in 0..made
      /\ history \in Seq(Seq(Nat)) /\ Len(history) = made /\ said \in Nat /\ stored \in Seq(Nat)
      /\ \A c \in Callers : caller[c].at \in InTurn => caller[c].session \in 1..made
  BY DEF TypeOK, CallersOK, ThreadOK, CallerRecords
<1>b. \A c \in Callers : caller[c] \in CallerRecords(made) /\ caller[c].loaded \in Seq(Nat)
  BY <1>a DEF CallerRecords
<1>c. UpTo(<<>>, said) /\ ToSet(<<>>) = {}
  BY DEF UpTo, InOrder, ToSet
<1>d. \A i \in 1..made : history[i] \in Seq(Nat)
  BY <1>a
<1>1. ASSUME NEW c \in Callers, Post(c) PROVE Dated'
  <2>1. UNCHANGED <<stored, history, made, said, unkept>>
    BY <1>1 DEF Post
  <2>2. /\ \A d \in Callers \ {c} : caller'[d] = caller[d]
        /\ caller'[c].loaded = <<>> \/ caller'[c].loaded = stored
    BY <1>1, PostMoves DEF TypeOK
  <2> QED BY <1>c, <2>1, <2>2 DEF Dated
<1>2. ASSUME NEW c \in Callers, Built(c) PROVE Dated'
  <2>1. /\ UNCHANGED <<stored, said, unkept>> /\ made' = made + 1 /\ history' = Append(history, caller[c].loaded)
        /\ \A d \in Callers \ {c} : caller'[d] = caller[d]
        /\ caller'[c].loaded = <<>>
    BY <1>2, <1>a DEF Built
  <2>2. \A i \in 1..made' : history'[i] = IF i = made + 1 THEN caller[c].loaded ELSE history[i]
    BY <1>a, <1>b, <2>1
  <2>3. \A i \in 1..made' : UpTo(history'[i], said')
    <3> TAKE i \in 1..made'
    <3>1. i = made + 1 \/ i \in 1..made
      BY <1>a, <2>1
    <3> QED BY <2>1, <2>2, <3>1 DEF Dated
  <2> QED BY <1>c, <2>1, <2>3 DEF Dated
<1>3. ASSUME NEW c \in Callers, Ask(c) \/ Answer(c) PROVE Dated'
  <2>1. PICK kept \in BOOLEAN : Say(c, kept) /\ (Ask(c) =>
          caller' = [caller EXCEPT ![c] = IF kept THEN [@ EXCEPT !.at = "thinking"] ELSE Gone])
    BY <1>3 DEF Ask, Answer
  <2>2. caller[c].at \in InTurn /\ made' = made /\ \A d \in Callers \ {c} : caller'[d] = caller[d]
    BY <1>3, <1>a DEF Ask, Answer
  <2>3. caller'[c].loaded \in {<<>>, caller[c].loaded}
    BY <1>3, <1>a, <1>b, <2>1 DEF Answer, Gone, CallerRecords
  <2>4. \A s \in Seq(Nat) : UpTo(s, said) => UpTo(s, said') /\ UpTo(Append(s, said'), said')
    BY <1>a, <2>1, <2>2, SayKeeps, AppendUpTo
  <2>5. \A i \in 1..made' : UpTo(history'[i], said')
    <3> TAKE i \in 1..made'
    <3>1. UpTo(history[i], said) /\ history[i] \in Seq(Nat) /\ i \in 1..made
      BY <1>d, <2>2 DEF Dated
    <3>2. history'[i] = history[i] \/ history'[i] = Append(history[i], said')
      BY <2>1, <2>2, <3>1, SayKeeps
    <3>3. UpTo(history[i], said') /\ UpTo(Append(history[i], said'), said')
      BY <2>4, <3>1
    <3> QED BY <3>2, <3>3
  <2>6. UpTo(stored', said')
    <3>1. stored' = stored \/ stored' = Append(stored, said')
      BY <2>1, <2>2, SayKeeps
    <3>2. UpTo(stored, said') /\ UpTo(Append(stored, said'), said')
      BY <1>a, <2>4 DEF Dated
    <3> QED BY <3>1, <3>2
  <2>7. \A d \in Callers : UpTo(caller'[d].loaded, said')
    <3> TAKE d \in Callers
    <3>1. UpTo(<<>>, said')
      BY DEF UpTo, InOrder
    <3>2. \A a \in Callers : UpTo(caller[a].loaded, said) /\ caller[a].loaded \in Seq(Nat)
      BY <1>b DEF Dated
    <3>3. \A a \in Callers : UpTo(caller[a].loaded, said')
      BY <2>4, <3>2
    <3> QED BY <2>2, <2>3, <3>1, <3>3
  <2>8. said' = said + 1 /\ unkept \subseteq Nat /\ unkept' \subseteq unkept \cup {said'}
    BY <2>1, <2>2, SayKeeps DEF TypeOK
  <2>9. \A m \in unkept' : m <= said'
    BY <1>a, <2>8 DEF Dated
  <2>10. said' \notin unkept /\ said' \notin ToSet(stored)
    BY <1>a, <2>8 DEF Dated, UpTo, ToSet
  <2>11. ToSet(stored') \cap unkept' = {}
    BY <2>1, <2>2, <2>10, SayKeeps DEF Dated
  <2> QED BY <2>5, <2>6, <2>7, <2>9, <2>11 DEF Dated
<1>4. ASSUME NEW c \in Callers, Started(c) \/ TurnFails(c) \/ Prompt(c) \/ Approve(c) \/ TimeOut(c) PROVE Dated'
  <2>1. /\ UNCHANGED <<stored, history, made, said, unkept>> /\ \A d \in Callers \ {c} : caller'[d] = caller[d]
        /\ caller'[c].loaded \in {<<>>, caller[c].loaded}
    BY <1>4, <1>a, <1>b DEF Started, TurnFails, Prompt, Approve, TimeOut, Gone, CallerRecords
  <2> QED BY <1>c, <2>1 DEF Dated
<1>5. CASE Delete
  <2>1. /\ UNCHANGED <<history, made, said, unkept>> /\ stored' \in {stored, <<>>}
    BY <1>5 DEF Delete
  <2>2. \A c \in Callers : caller'[c].loaded = caller[c].loaded
    BY <1>5, <1>a, <1>b DEF Delete, CallerRecords
  <2> QED BY <1>c, <2>1, <2>2 DEF Dated
<1>6. CASE ConnectorsUp \/ Disposed \/ Removed \/ UNCHANGED vars
  <2>1. UNCHANGED <<history, made, said, unkept, caller>> /\ stored' \in {stored, <<>>}
    BY <1>6 DEF ConnectorsUp, Disposed, Removed, vars
  <2> QED BY <1>c, <2>1 DEF Dated
<1>7. CASE Restart
  <2>1. UNCHANGED <<stored, history, made, said, unkept>> /\ \A c \in Callers : caller'[c].loaded = <<>>
    BY <1>7 DEF Restart, Gone
  <2> QED BY <1>c, <2>1 DEF Dated
<1> QED BY <1>1, <1>2, <1>3, <1>4, <1>5, <1>6, <1>7 DEF Next

LEMMA KeptStep == ASSUME TypeOK, Whole, Kept, [Next]_vars PROVE Kept'
<1> SUFFICES ASSUME ~crossed' PROVE Kept'
  BY DEF Kept
<1> USE DEF None, Busy, Getting, InTurn, Moves, store, memory, bounds, flags
<1>a. /\ caller \in [Callers -> CallerRecords(made)] /\ made \in Nat /\ live \in 0..made
      /\ history \in Seq(Seq(Nat)) /\ Len(history) = made
      /\ \A c \in Callers : caller[c].at \in InTurn => caller[c].session \in 1..made
  BY DEF TypeOK, CallersOK, ThreadOK, CallerRecords
<1>b. \A c \in Callers : caller[c] \in CallerRecords(made)
  BY <1>a
<1>c. ToSet(<<>>) = {}
  BY DEF ToSet
<1>1. ASSUME NEW c \in Callers, Post(c) PROVE Kept'
  <2>1. ~crossed /\ UNCHANGED <<stored, history, live, unkept>>
    BY <1>1 DEF Post
  <2>2. /\ \A d \in Callers \ {c} : caller'[d] = caller[d]
        /\ \/ caller'[c].at = "sending" /\ caller'[c].session = live /\ live # None
           \/ caller'[c].at = "starting" /\ caller'[c].loaded = stored
    BY <1>1, PostMoves DEF TypeOK
  <2> QED BY <2>1, <2>2 DEF Kept
<1>2. ASSUME NEW c \in Callers, Started(c) PROVE Kept'
  <2>1. /\ ~crossed /\ UNCHANGED <<stored, history, live, unkept>> /\ caller[c].at \in Getting
        /\ \A d \in Callers \ {c} : caller'[d] = caller[d]
        /\ caller'[c].at = "connecting" /\ caller'[c].loaded = caller[c].loaded
    BY <1>2, <1>a, <1>b DEF Started, CallerRecords
  <2> QED BY <2>1 DEF Kept
<1>3. ASSUME NEW c \in Callers, Built(c) PROVE Kept'
  <2>1. /\ ~crossed /\ stored' = stored /\ unkept' = unkept /\ live' = made + 1 /\ caller[c].at \in Getting
        /\ \A d \in Callers \ {c} : caller'[d] = caller[d]
        /\ caller'[c].at = "sending" /\ caller'[c].session = made + 1
        /\ history' = Append(history, caller[c].loaded)
    BY <1>3, <1>a DEF Built
  <2>2. caller[c].loaded \in Seq(Nat)
    BY <1>b DEF CallerRecords
  <2>3. history'[made + 1] = caller[c].loaded /\ \A i \in 1..made : history'[i] = history[i]
    BY <1>a, <2>1, <2>2
  <2>4. ToSet(history'[made + 1]) \ unkept' \subseteq ToSet(stored')
    BY <2>1, <2>3 DEF Kept
  <2>5. \A d \in Callers : caller'[d].at \in InTurn => ToSet(history'[caller'[d].session]) \ unkept' \subseteq ToSet(stored')
    BY <1>a, <2>1, <2>3, <2>4 DEF Kept
  <2>6. \A d \in Callers : caller'[d].at \in Getting => ToSet(caller'[d].loaded) \subseteq ToSet(stored')
    BY <2>1 DEF Kept
  <2> QED BY <2>1, <2>4, <2>5, <2>6 DEF Kept
<1>d. ASSUME NEW c \in Callers, caller[c].at \in InTurn, NEW kept \in BOOLEAN, Say(c, kept), crossed' = crossed,
             live' = live, \A d \in Callers \ {c} : caller'[d] = caller[d],
             caller'[c].at \notin Getting, caller'[c].at \in InTurn => caller'[c].session = caller[c].session
      PROVE  Kept'
  <2>1. /\ ToSet(stored) \subseteq ToSet(stored')
        /\ \A i \in 1..made : ToSet(history[i]) \ unkept \subseteq ToSet(stored)
                             => ToSet(history'[i]) \ unkept' \subseteq ToSet(stored')
    BY <1>d, SayKeeps
  <2>2. \A d \in Callers : caller'[d].at \in InTurn => caller[d].at \in InTurn /\ caller'[d].session = caller[d].session
    BY <1>d
  <2>3. \A d \in Callers : caller'[d].at \in InTurn => ToSet(history'[caller'[d].session]) \ unkept' \subseteq ToSet(stored')
    BY <1>a, <1>d, <2>1, <2>2 DEF Kept
  <2>4. \A d \in Callers : caller'[d].at \in Getting => ToSet(caller'[d].loaded) \subseteq ToSet(stored')
    BY <1>d, <2>1 DEF Kept
  <2>5. live' # None => ToSet(history'[live']) \ unkept' \subseteq ToSet(stored')
    <3>1. live # None => live \in 1..made /\ ToSet(history[live]) \ unkept \subseteq ToSet(stored)
      BY <1>a, <1>d DEF Kept
    <3>2. live # None => ToSet(history'[live]) \ unkept' \subseteq ToSet(stored')
      BY <2>1, <3>1
    <3> QED BY <1>d, <3>2
  <2> QED BY <2>3, <2>4, <2>5 DEF Kept
<1>4. ASSUME NEW c \in Callers, Ask(c) \/ Answer(c) PROVE Kept'
  <2>1. PICK kept \in BOOLEAN : Say(c, kept) /\ (Ask(c) =>
          caller' = [caller EXCEPT ![c] = IF kept THEN [@ EXCEPT !.at = "thinking"] ELSE Gone])
    BY <1>4 DEF Ask, Answer
  <2>2. /\ caller[c].at \in InTurn /\ crossed' = crossed /\ live' = live
        /\ \A d \in Callers \ {c} : caller'[d] = caller[d]
    BY <1>4, <1>a DEF Ask, Answer
  <2>3. caller'[c].at \in {"thinking", "idle"} /\ (caller'[c].at = "thinking" => caller'[c].session = caller[c].session)
    BY <1>4, <1>a, <1>b, <2>1 DEF Answer, Gone, CallerRecords
  <2> QED BY <1>d, <2>1, <2>2, <2>3
<1>6. ASSUME NEW c \in Callers, TurnFails(c) \/ Prompt(c) \/ Approve(c) \/ TimeOut(c) PROVE Kept'
  <2>1. /\ ~crossed /\ UNCHANGED <<stored, history, live, unkept>> /\ caller[c].at \in InTurn
        /\ \A d \in Callers \ {c} : caller'[d] = caller[d]
        /\ caller'[c].at \notin Getting /\ (caller'[c].at \in InTurn => caller'[c].session = caller[c].session)
    BY <1>6, <1>a, <1>b DEF TurnFails, Prompt, Approve, TimeOut, Gone, CallerRecords
  <2> QED BY <2>1 DEF Kept
<1>7. CASE ConnectorsUp \/ Removed
  BY <1>7 DEF ConnectorsUp, Removed, Kept
<1>8. CASE Delete
  <2>1. /\ \A c \in Callers : caller[c].at = "idle"
        /\ ~crossed /\ live' = live /\ history' = history /\ unkept' = unkept /\ (live # None => stored' = stored)
    BY <1>8 DEF Delete
  <2>2. \A c \in Callers : caller'[c].at = "idle"
    BY <1>8, <2>1, <1>a DEF Delete
  <2> QED BY <2>1, <2>2 DEF Kept
<1>9. CASE Disposed
  <2>1. \A c \in Callers : caller[c].at = "idle"
    BY <1>9 DEF Disposed, Whole
  <2> QED BY <1>9, <2>1 DEF Disposed, Kept
<1>10. CASE Restart
  BY <1>10 DEF Restart, Kept, Gone
<1>11. CASE UNCHANGED vars
  BY <1>11 DEF vars, Kept
<1> QED BY <1>1, <1>2, <1>3, <1>4, <1>6, <1>7, <1>8, <1>9, <1>10, <1>11 DEF Next

LEMMA RememberedStep == ASSUME TypeOK, Whole, Dated, Remembered, [Next]_vars PROVE Remembered'
<1> SUFFICES ASSUME ~crossed', ~doubled' PROVE Remembered'
  BY DEF Remembered
<1> USE DEF None, Busy, Getting, InTurn, Moves, store, memory, bounds, flags
<1>a. /\ caller \in [Callers -> CallerRecords(made)] /\ made \in Nat /\ live \in 0..made
      /\ history \in Seq(Seq(Nat)) /\ Len(history) = made
      /\ \A c \in Callers : caller[c].at \in InTurn => caller[c].session \in 1..made
  BY DEF TypeOK, CallersOK, ThreadOK, CallerRecords
<1>b. \A c \in Callers : caller[c] \in CallerRecords(made)
  BY <1>a
<1>1. ASSUME NEW c \in Callers, Post(c) PROVE Remembered'
  <2>1. ~crossed /\ ~doubled /\ UNCHANGED <<stored, history, live, unkept>>
    BY <1>1 DEF Post
  <2>2. /\ \A d \in Callers \ {c} : caller'[d] = caller[d]
        /\ \/ caller'[c].at = "sending" /\ caller'[c].session = live /\ live # None
           \/ caller'[c].at = "starting" /\ caller'[c].loaded = stored
    BY <1>1, PostMoves DEF TypeOK
  <2> QED BY <2>1, <2>2 DEF Remembered
<1>2. ASSUME NEW c \in Callers, Started(c) PROVE Remembered'
  <2>1. /\ ~crossed /\ ~doubled /\ UNCHANGED <<stored, history, live, unkept>> /\ caller[c].at \in Getting
        /\ \A d \in Callers \ {c} : caller'[d] = caller[d]
        /\ caller'[c].at = "connecting" /\ caller'[c].loaded = caller[c].loaded
    BY <1>2, <1>a, <1>b DEF Started, CallerRecords
  <2> QED BY <2>1 DEF Remembered
<1>3. ASSUME NEW c \in Callers, Built(c) PROVE Remembered'
  <2>1. /\ ~crossed /\ ~doubled /\ live = None /\ stored' = stored /\ unkept' = unkept /\ live' = made + 1 /\ caller[c].at \in Getting
        /\ \A d \in Callers \ {c} : caller'[d] = caller[d]
        /\ caller'[c].at = "sending" /\ caller'[c].session = made + 1
        /\ history' = Append(history, caller[c].loaded)
    BY <1>3, <1>a DEF Built
  <2>2. caller[c].loaded \in Seq(Nat) /\ caller[c].loaded = stored
    BY <1>b, <2>1 DEF CallerRecords, Remembered
  <2>3. history'[made + 1] = stored
    BY <1>a, <2>1, <2>2
  <2>4. \A d \in Callers : caller[d].at \notin InTurn
    BY <1>a, <2>1 DEF Remembered
  <2>5. \A d \in Callers : caller'[d].at \in InTurn => caller'[d].session = live'
    BY <2>1, <2>4
  <2>6. ToSet(stored) = ToSet(stored) \ unkept
    BY DEF Dated
  <2> QED BY <1>a, <2>1, <2>3, <2>5, <2>6 DEF Remembered
<1>c. ASSUME NEW c \in Callers, caller[c].at \in InTurn, NEW kept \in BOOLEAN, Say(c, kept), ~crossed, ~doubled,
             live' = live, \A d \in Callers \ {c} : caller'[d] = caller[d],
             caller'[c].at \notin Getting, caller'[c].at \in InTurn => caller'[c].session = caller[c].session
      PROVE  Remembered'
  <2>1. caller[c].session = live /\ live # None /\ ToSet(stored) = ToSet(history[live]) \ unkept
    BY <1>a, <1>c DEF Remembered
  <2>2. /\ said' \notin unkept
        /\ ToSet(history'[live]) = ToSet(history[live]) \cup {said'}
        /\ kept => unkept' = unkept /\ ToSet(stored') = ToSet(stored) \cup {said'}
        /\ ~kept => unkept' = unkept \cup {said'} /\ stored' = stored
        /\ said' \notin ToSet(stored)
    <3>1. said' = said + 1 /\ said \in Nat
      BY <1>c, SayKeeps DEF TypeOK, ThreadOK
    <3>2. said' \notin unkept
      BY <3>1 DEF Dated, TypeOK
    <3>3. said' \notin ToSet(stored)
      BY <3>1 DEF Dated, UpTo, ToSet, TypeOK, ThreadOK
    <3> QED BY <1>c, <2>1, <3>2, <3>3, SayKeeps
  <2>3. ToSet(stored') = ToSet(history'[live']) \ unkept'
    BY <1>c, <2>1, <2>2
  <2>4. \A d \in Callers : caller'[d].at \in InTurn => caller'[d].session = live'
    BY <1>c DEF Remembered
  <2> QED BY <1>c, <2>1, <2>3, <2>4 DEF Remembered
<1>4. ASSUME NEW c \in Callers, Ask(c) \/ Answer(c) PROVE Remembered'
  <2>1. PICK kept \in BOOLEAN : Say(c, kept) /\ (Ask(c) =>
          caller' = [caller EXCEPT ![c] = IF kept THEN [@ EXCEPT !.at = "thinking"] ELSE Gone])
    BY <1>4 DEF Ask, Answer
  <2>2. /\ caller[c].at \in InTurn /\ ~crossed /\ ~doubled /\ live' = live
        /\ \A d \in Callers \ {c} : caller'[d] = caller[d]
    BY <1>4, <1>a DEF Ask, Answer
  <2>3. caller'[c].at \in {"thinking", "idle"} /\ (caller'[c].at = "thinking" => caller'[c].session = caller[c].session)
    BY <1>4, <1>a, <1>b, <2>1 DEF Answer, Gone, CallerRecords
  <2> QED BY <1>c, <2>1, <2>2, <2>3
<1>6. ASSUME NEW c \in Callers, TurnFails(c) \/ Prompt(c) \/ Approve(c) \/ TimeOut(c) PROVE Remembered'
  <2>1. /\ ~crossed /\ ~doubled /\ UNCHANGED <<stored, history, live, unkept>> /\ caller[c].at \in InTurn
        /\ \A d \in Callers \ {c} : caller'[d] = caller[d]
        /\ caller'[c].at \notin Getting /\ (caller'[c].at \in InTurn => caller'[c].session = caller[c].session)
    BY <1>6, <1>a, <1>b DEF TurnFails, Prompt, Approve, TimeOut, Gone, CallerRecords
  <2> QED BY <2>1 DEF Remembered
<1>7. CASE ConnectorsUp \/ Removed
  BY <1>7 DEF ConnectorsUp, Removed, Remembered
<1>8. CASE Delete
  <2>1. /\ \A c \in Callers : caller[c].at = "idle"
        /\ ~crossed /\ ~doubled /\ live' = live /\ history' = history /\ unkept' = unkept /\ (live # None => stored' = stored)
    BY <1>8 DEF Delete
  <2>2. \A c \in Callers : caller'[c].at = "idle"
    BY <1>8, <2>1, <1>a DEF Delete
  <2> QED BY <2>1, <2>2 DEF Remembered
<1>9. CASE Disposed
  <2>1. \A c \in Callers : caller[c].at = "idle"
    BY <1>9 DEF Disposed, Whole
  <2> QED BY <1>9, <2>1 DEF Disposed, Remembered
<1>10. CASE Restart
  BY <1>10 DEF Restart, Remembered, Gone
<1>11. CASE UNCHANGED vars
  BY <1>11 DEF vars, Remembered
<1> QED BY <1>1, <1>2, <1>3, <1>4, <1>6, <1>7, <1>8, <1>9, <1>10, <1>11 DEF Next

LEMMA Invariant == Spec => []IInv
<1>1. IInv /\ [Next]_vars => IInv'
  BY TypeStep, StartedOnceStep, WholeStep, DatedStep, KeptStep, RememberedStep DEF IInv
<1> QED BY <1>1, InitIInv, PTL DEF Spec

-----------------------------------------------------------------------------
(* Every variable keeps its kind (manager.ts, the live sessions and the     *)
(* store's rows).                                                           *)
THEOREM TypeCorrect == Spec => []TypeOK
<1>1. IInv => TypeOK
  BY DEF IInv
<1> QED BY <1>1, Invariant, PTL

(* However many cold starts meet, the MCP servers are started once in a     *)
(* process's life (getConnectors).                                          *)
THEOREM ServersStartOnce == Spec => []ConnectorsStartOnce
<1>1. IInv => ConnectorsStartOnce
  BY DEF IInv, StartedOnce, ConnectorsStartOnce
<1> QED BY <1>1, Invariant, PTL

(* A live session has its row and its directory, unless a deletion          *)
(* overlapped a POST (deleteThread).                                        *)
THEOREM ThreadsAreWhole == Spec => []LiveThreadIsWhole
<1>1. IInv => LiveThreadIsWhole
  BY DEF IInv, Whole, LiveThreadIsWhole
<1> QED BY <1>1, Invariant, PTL

(* What a session remembers is in the store but for failed appends, also    *)
(* when two run on one thread (appendMessages).                             *)
THEOREM MessagesAreKept == Spec => []NothingSaidIsLost
<1>1. IInv => NothingSaidIsLost
  BY DEF IInv, Kept, NothingSaidIsLost
<1> QED BY <1>1, Invariant, PTL

(* The live session's history is what a reload would show, in order, but    *)
(* for failed appends, unless a second session or an overlapping deletion   *)
(* parted them (get, loadMessages).                                         *)
THEOREM HistoriesAgree == Spec => []HistoryIsStored
<1>1. IInv => HistoryIsStored
  <2> SUFFICES ASSUME IInv, ~doubled, ~crossed, live # None
               PROVE  ToSet(stored) = ToSet(history[live]) \ unkept /\ InOrder(stored) /\ InOrder(history[live])
    BY DEF HistoryIsStored
  <2>1. live \in 1..made
    BY DEF IInv, TypeOK, ThreadOK, None
  <2> QED BY <2>1 DEF IInv, Remembered, Dated, UpTo
<1> QED BY <1>1, Invariant, PTL

(* A turn that waits for an answer runs on the session that POST            *)
(* /api/approve finds (peek).                                               *)
THEOREM PromptsReach == Spec => []PromptsAreAnswerable
<1>1. IInv => PromptsAreAnswerable
  BY DEF IInv, Remembered, PromptsAreAnswerable, InTurn
<1> QED BY <1>1, Invariant, PTL
=============================================================================
