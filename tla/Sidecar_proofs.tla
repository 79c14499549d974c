--------------------------- MODULE Sidecar_proofs ---------------------------
(***************************************************************************)
(* What holds of the supervisor for every restart budget and any number of *)
(* restarts and healthy runs.  Hardly any of the properties is inductive   *)
(* alone: they stand together on what the queue may hold.                  *)
(***************************************************************************)
EXTENDS Sidecar, FiniteSetTheorems, TLAPS

Tasks == [kind : {"ready", "exit"}, gen : Generations]

(* The type invariant in three parts: the controller's flags, its other     *)
(* variables, and what it and the operating system hold by generation.      *)
Flags ==
  /\ stopping \in BOOLEAN /\ relaunchAfterStop \in BOOLEAN
  /\ restartTask \in BOOLEAN /\ readyWatchdog \in BOOLEAN

Scalars ==
  /\ app \in {"opening", "up", "gone"}
  /\ state \in {"idle", "starting", "running", "restarting", "failed"} /\ endpoint \in 0..generation
  /\ generation \in 0..LaunchBound /\ process \in {None, generation}
  /\ consecutiveFailures \in 0..MaxFailures
  /\ readyAt \in {"none", "recent", "long"}
  /\ userRestarts \in 0..MaxUserRestarts /\ healthyRuns \in 0..MaxHealthyRuns /\ attempts \in Nat

Tables ==
  /\ child \in [Generations -> {"unborn", "dead"} \cup Living]
  /\ killTasks \subseteq Generations /\ told \subseteq Generations /\ pipe \subseteq Generations
  /\ queue \in Seq(Tasks)

(* The children: none is from the future, the one that lives is the one the *)
(* controller holds, and nothing is due to be launched beside it.           *)
Children ==
  /\ \A g \in Generations : g > generation => child[g] = "unborn"
  /\ \A g, h \in Generations : Lives(g) /\ Lives(h) => g = h
  /\ app # "gone" => \A g \in Generations : Lives(g) => g = process
  /\ app # "gone" /\ restartTask => process = None
  /\ app = "opening" => /\ process = None /\ queue = <<>> /\ ~stopping /\ ~restartTask
                        /\ consecutiveFailures = 0

(* The news of exits: true, told once, and of the held process if they are  *)
(* of the current generation; and a held process that is dead has its news  *)
(* under way.                                                               *)
News ==
  /\ \A i \in DOMAIN queue : queue[i].kind = "exit" => child[queue[i].gen] = "dead"
  /\ \A i, j \in DOMAIN queue : queue[i] = queue[j] /\ queue[i].kind = "exit" => i = j
  /\ app = "up" => \A i \in DOMAIN queue : queue[i] = Task("exit", generation) => process = generation
  /\ app = "up" /\ process # None /\ ~Lives(process)
       => \E i \in DOMAIN queue : queue[i] = Task("exit", process)

(* The failures leave room for the launch that is due or under way, and the *)
(* launches are counted by the failures they led to, but for the one held.  *)
Budget ==
  /\ attempts <= MaxFailures
  /\ app # "gone" =>
       /\ process # None \/ restartTask => consecutiveFailures < MaxFailures
       /\ stopping => relaunchAfterStop /\ process # None
       /\ ~stopping => attempts <= consecutiveFailures + (IF process = None THEN 0 ELSE 1)

IInv == Flags /\ Scalars /\ Tables /\ Children /\ News /\ Budget

(* The numbers a launch can get. *)
LEMMA LaunchBoundType == LaunchBound \in Nat /\ Generations \subseteq Nat /\ None \notin Generations
<1>1. (1 + MaxUserRestarts + MaxHealthyRuns) \in Nat  BY SidecarAssumption
<1>2. (1 + MaxUserRestarts + MaxHealthyRuns) * MaxFailures \in Nat  BY <1>1, SidecarAssumption
<1>3. LaunchBound \in Nat  BY <1>2 DEF LaunchBound
<1>4. QED  BY <1>3 DEF Generations, None

(* The rest of a queue, element by element. *)
LEMMA QueueTail ==
  ASSUME NEW T, NEW q \in Seq(T), q # <<>>
  PROVE  /\ Tail(q) \in Seq(T) /\ 1 \in DOMAIN q /\ Head(q) = q[1]
         /\ \A i \in DOMAIN Tail(q) : i \in Nat /\ i >= 1 /\ i + 1 \in DOMAIN q /\ Tail(q)[i] = q[i + 1]
         /\ \A i \in DOMAIN q : i \in Nat /\ (i # 1 => i - 1 \in DOMAIN Tail(q) /\ Tail(q)[i - 1] = q[i])
  OBVIOUS

(* A queue with one more task, element by element. *)
LEMMA QueueAppend ==
  ASSUME NEW T, NEW q \in Seq(T), NEW t \in T
  PROVE  /\ Append(q, t) \in Seq(T)
         /\ Len(q) + 1 \in DOMAIN Append(q, t) /\ Len(q) + 1 \notin DOMAIN q /\ Append(q, t)[Len(q) + 1] = t
         /\ \A i \in DOMAIN q : i \in DOMAIN Append(q, t) /\ Append(q, t)[i] = q[i]
         /\ \A i \in DOMAIN Append(q, t) : i \in DOMAIN q \/ i = Len(q) + 1
  OBVIOUS

(* The three parts are the type invariant. *)
LEMMA TypeParts == Flags /\ Scalars /\ Tables => TypeOK
  BY DEF TypeOK, Flags, Scalars, Tables, Tasks

(* A launch with nothing alive: at most one child lives after it, the one   *)
(* held, under a number no task in the queue has.                           *)
LEMMA LaunchFacts ==
  ASSUME Scalars, Tables, NEW before \in Nat, NEW ready \in {"none", "recent", "long"}, Launch(before, ready),
         \A g \in Generations : g > generation => child[g] = "unborn",
         \A g \in Generations : ~Lives(g)
  PROVE  /\ state' \in {"starting", "failed"} /\ endpoint' = endpoint /\ told' = told
         /\ generation' \in 0..LaunchBound /\ generation' >= generation
         /\ process' \in {None, generation'}
         /\ readyWatchdog' \in BOOLEAN /\ readyAt' \in {"none", "recent", "long"}
         /\ child' \in [Generations -> {"unborn", "dead"} \cup Living]
         /\ \A g \in Generations : g > generation' => child'[g] = "unborn"
         /\ \A g \in Generations : child'[g] \in Living => g = process'
         /\ \A g \in Generations : child[g] = "dead" => child'[g] = "dead" /\ g <= generation
         /\ process' # None => process' \in Generations /\ child'[process'] \in Living
         /\ attempts' = before + (IF process' = None THEN 0 ELSE 1)
<1> USE LaunchBoundType
<1>0. /\ generation \in Nat /\ generation <= LaunchBound
      /\ child \in [Generations -> {"unborn", "dead"} \cup Living]
      /\ {"unborn", "dead"} \cap Living = {}
      /\ "booting" \in Living
  BY DEF Scalars, Tables, Living
<1>1. CASE /\ state' = "failed" /\ process' = None /\ readyWatchdog' = FALSE
           /\ \/ generation' = generation /\ readyAt' = ready
              \/ generation < LaunchBound /\ generation' = generation + 1 /\ readyAt' = "none"
           /\ attempts' = before /\ UNCHANGED <<child, endpoint, told>>
  <2>1. generation' \in 0..LaunchBound /\ generation' >= generation /\ readyAt' \in {"none", "recent", "long"}
    BY <1>0, <1>1
  <2>2. \A g \in Generations : child'[g] = child[g]  BY <1>1
  <2>3. \A g \in Generations : child[g] = "dead" => g <= generation  BY <1>0 DEF Generations
  <2>4. \A g \in Generations : g > generation' => child'[g] = "unborn"  BY <1>0, <2>1, <2>2 DEF Generations
  <2>5. \A g \in Generations : child'[g] \in Living => g = process'  BY <2>2 DEF Lives
  <2>6. \A g \in Generations : child[g] = "dead" => child'[g] = "dead"  BY <2>2
  <2>7. child' \in [Generations -> {"unborn", "dead"} \cup Living]  BY <1>0, <1>1
  <2>8. readyWatchdog' \in BOOLEAN  BY <1>1
  <2>9. /\ state' \in {"starting", "failed"} /\ endpoint' = endpoint /\ told' = told /\ process' = None
        /\ attempts' = before + (IF process' = None THEN 0 ELSE 1)
    BY <1>1
  <2>10. QED  BY <2>1, <2>3, <2>4, <2>5, <2>6, <2>7, <2>8, <2>9
<1>2. CASE /\ generation < LaunchBound /\ generation' = generation + 1
           /\ child' = [child EXCEPT ![generation'] = "booting"]
           /\ process' = generation' /\ readyWatchdog' = TRUE /\ readyAt' = "none"
           /\ state' = "starting" /\ attempts' = before + 1 /\ UNCHANGED <<endpoint, told>>
  <2>1. generation' \in 0..LaunchBound /\ generation' >= generation /\ generation' \in Generations
    BY <1>0, <1>2 DEF Generations
  <2>2. child' \in [Generations -> {"unborn", "dead"} \cup Living] /\ child'[generation'] = "booting"
    BY <1>0, <1>2, <2>1
  <2>3. \A g \in Generations : g # generation' => child'[g] = child[g]  BY <1>0, <1>2
  <2>4. child[generation'] = "unborn"  BY <1>0, <1>2, <2>1
  <2>5. \A g \in Generations : child[g] = "dead" => g <= generation  BY <1>0 DEF Generations
  <2>6. \A g \in Generations : g > generation' => child'[g] = "unborn"
    BY <1>0, <1>2, <2>3 DEF Generations
  <2>7. \A g \in Generations : child[g] = "dead" => child'[g] = "dead"  BY <2>3, <2>4
  <2>8. QED  BY <1>0, <1>2, <2>1, <2>2, <2>3, <2>5, <2>6, <2>7 DEF Lives
<1>3. QED  BY <1>1, <1>2 DEF Launch

(* The initial state. *)
LEMMA InitIInv == Init => IInv
<1> SUFFICES ASSUME Init  PROVE IInv  OBVIOUS
<1> USE LaunchBoundType, SidecarAssumption DEF Init
<1>0. Flags  BY DEF Flags
<1>1. Scalars  BY DEF Scalars, None
<1>1a. Tables  BY DEF Tables, Living
<1>2. Children  BY DEF Children, Lives, Living
<1>3. News  BY DEF News
<1>4. Budget  BY DEF Budget, None
<1>5. QED  BY <1>0, <1>1, <1>1a, <1>2, <1>3, <1>4 DEF IInv

(* Every launch: it preserves the invariant if nothing is alive, the queue  *)
(* holds no news of the generation it supersedes, and the failures leave    *)
(* room for one more.                                                       *)
LEMMA LaunchIInv ==
  ASSUME IInv, app \in {"opening", "up"}, app' = "up",
         NEW before \in Nat, NEW ready \in {"none", "recent", "long"}, Launch(before, ready),
         \A g \in Generations : ~Lives(g),
         ~stopping', relaunchAfterStop' \in BOOLEAN, restartTask' = FALSE, stopping' \in BOOLEAN,
         consecutiveFailures' \in 0..MaxFailures, consecutiveFailures' < MaxFailures, before <= consecutiveFailures',
         killTasks' \subseteq Generations, pipe' \subseteq Generations,
         userRestarts' \in 0..MaxUserRestarts, healthyRuns' \in 0..MaxHealthyRuns,
         queue' \in Seq(Tasks),
         \A i \in DOMAIN queue' : queue'[i] \in Tasks,
         \A i \in DOMAIN queue' : queue'[i].kind = "exit" => child[queue'[i].gen] = "dead",
         \A i, j \in DOMAIN queue' : queue'[i] = queue'[j] /\ queue'[i].kind = "exit" => i = j,
         \A i \in DOMAIN queue' : queue'[i] # Task("exit", generation)
  PROVE  IInv'
<1> USE LaunchBoundType, SidecarAssumption
<1>1. Flags /\ Scalars /\ Tables /\ Children /\ News /\ Budget  BY DEF IInv
<1>2. \A g \in Generations : g > generation => child[g] = "unborn"  BY <1>1 DEF Children
<1>3. /\ state' \in {"starting", "failed"} /\ endpoint' = endpoint /\ told' = told
      /\ generation' \in 0..LaunchBound /\ generation' >= generation
      /\ process' \in {None, generation'}
      /\ readyAt' \in {"none", "recent", "long"}
      /\ child' \in [Generations -> {"unborn", "dead"} \cup Living]
      /\ attempts' = before + (IF process' = None THEN 0 ELSE 1)
  BY <1>1, <1>2, LaunchFacts
<1>4. /\ \A g \in Generations : g > generation' => child'[g] = "unborn"
      /\ \A g \in Generations : child'[g] \in Living => g = process'
      /\ \A g \in Generations : child[g] = "dead" => child'[g] = "dead" /\ g <= generation
      /\ process' # None => process' \in Generations /\ child'[process'] \in Living
  BY <1>1, <1>2, LaunchFacts
<1>5. readyWatchdog' \in BOOLEAN  BY <1>1, <1>2, LaunchFacts
<1>6. Flags'  BY <1>5 DEF Flags
<1>7. Scalars'  BY <1>1, <1>3 DEF Scalars
<1>8. Tables'  BY <1>1, <1>3 DEF Tables
<1>9. Children'  BY <1>4 DEF Children, Lives
<1>10. News'
  <2>1. \A i \in DOMAIN queue' : queue'[i].kind = "exit" => child'[queue'[i].gen] = "dead"
    BY <1>4 DEF Tasks
  <2>2. \A i \in DOMAIN queue' : queue'[i] = Task("exit", generation') => process' = generation'
    <3>1. SUFFICES ASSUME NEW i \in DOMAIN queue', queue'[i] = Task("exit", generation')  PROVE FALSE
      OBVIOUS
    <3>2. queue'[i].gen = generation' /\ queue'[i].kind = "exit" /\ generation' \in Generations
      BY <3>1 DEF Task, Tasks
    <3>3. generation' <= generation  BY <1>4, <3>2
    <3>4. generation' = generation  BY <1>1, <1>3, <3>3 DEF Scalars
    <3>5. QED  BY <3>1, <3>4
  <2>3. process' # None => Lives(process)'  BY <1>4 DEF Lives
  <2>4. QED  BY <2>1, <2>2, <2>3 DEF News
<1>11. Budget'  BY <1>3 DEF Budget
<1>12. QED  BY <1>6, <1>7, <1>8, <1>9, <1>10, <1>11 DEF IInv

(* The first launch. *)
LEMMA StartStep == ASSUME IInv, Start  PROVE IInv'
<1> USE LaunchBoundType, SidecarAssumption
<1>1. Flags /\ Scalars /\ Tables /\ Children /\ News /\ Budget  BY DEF IInv
<1>2. /\ \A g \in Generations : ~Lives(g)
      /\ readyAt \in {"none", "recent", "long"} /\ queue' = <<>> /\ Launch(0, readyAt)
      /\ app = "opening" /\ app' = "up" /\ consecutiveFailures' = 0
  BY <1>1 DEF Start, Children, Scalars, None
<1>3. ~stopping' /\ restartTask' = FALSE /\ relaunchAfterStop' \in BOOLEAN /\ stopping' \in BOOLEAN
  BY <1>1 DEF Start, Children, Flags
<1>4. /\ killTasks' \subseteq Generations /\ pipe' \subseteq Generations
      /\ userRestarts' \in 0..MaxUserRestarts /\ healthyRuns' \in 0..MaxHealthyRuns
  BY <1>1 DEF Start, Tables, Scalars, bounds
<1>5. queue' \in Seq(Tasks) /\ DOMAIN queue' = {}  BY <1>2
<1>6. /\ app \in {"opening", "up"} /\ 0 \in Nat
      /\ consecutiveFailures' \in 0..MaxFailures /\ consecutiveFailures' < MaxFailures /\ 0 <= consecutiveFailures'
  BY <1>2
<1>7. QED  BY <1>2, <1>3, <1>4, <1>5, <1>6, LaunchIInv

(* The user's restart, without and with a process to end first. *)
LEMMA RestartNowStep == ASSUME IInv, RestartNow  PROVE IInv'
<1> USE LaunchBoundType, SidecarAssumption
<1>1. Flags /\ Scalars /\ Tables /\ Children /\ News /\ Budget  BY DEF IInv
<1>2. /\ app = "up" /\ app' = "up" /\ restartTask' = FALSE /\ consecutiveFailures' = 0
      /\ pipe' = pipe /\ queue' = queue /\ healthyRuns' = healthyRuns
      /\ userRestarts' \in 0..MaxUserRestarts
  BY <1>1 DEF RestartNow, Scalars
<1>3. CASE process = None
  <2>1. /\ \A g \in Generations : ~Lives(g)
        /\ Launch(0, readyAt) /\ stopping' = FALSE /\ relaunchAfterStop' = relaunchAfterStop /\ killTasks' = killTasks
    BY <1>1, <1>2, <1>3 DEF RestartNow, Children
  <2>2. \A i \in DOMAIN queue : queue[i] \in Tasks  BY <1>1 DEF Tables
  <2>3. \A i \in DOMAIN queue' : queue'[i] # Task("exit", generation)
    BY <1>1, <1>2, <1>3, <2>2 DEF News, Tasks, Task
  <2>4. /\ \A i \in DOMAIN queue' : queue'[i].kind = "exit" => child[queue'[i].gen] = "dead"
        /\ \A i, j \in DOMAIN queue' : queue'[i] = queue'[j] /\ queue'[i].kind = "exit" => i = j
    BY <1>1, <1>2 DEF News
  <2>5. /\ readyAt \in {"none", "recent", "long"} /\ healthyRuns' \in 0..MaxHealthyRuns
        /\ killTasks' \subseteq Generations /\ pipe' \subseteq Generations /\ queue' \in Seq(Tasks)
    BY <1>1, <1>2, <2>1 DEF Scalars, Tables
  <2>6. stopping' \in BOOLEAN /\ ~stopping' /\ relaunchAfterStop' \in BOOLEAN  BY <1>1, <2>1 DEF Flags
  <2>7. /\ app \in {"opening", "up"} /\ 0 \in Nat
        /\ consecutiveFailures' \in 0..MaxFailures /\ consecutiveFailures' < MaxFailures /\ 0 <= consecutiveFailures'
        /\ \A i \in DOMAIN queue' : queue'[i] \in Tasks
    BY <1>2, <2>2
  <2>8. QED  BY <1>2, <2>1, <2>3, <2>4, <2>5, <2>6, <2>7, LaunchIInv
<1>4. CASE process # None
  <2>1. /\ stopping' = TRUE /\ relaunchAfterStop' = TRUE /\ readyWatchdog' = FALSE
        /\ state' = state /\ endpoint' = endpoint /\ process' = process /\ generation' = generation
        /\ readyAt' = readyAt /\ child' = child /\ attempts' = attempts
        /\ told' \subseteq told \cup {process} /\ killTasks' \subseteq killTasks \cup {process}
    BY <1>4 DEF RestartNow, BeginTermination, shown
  <2>2. Flags'  BY <1>2, <2>1 DEF Flags
  <2>3. Scalars'  BY <1>1, <1>2, <2>1 DEF Scalars
  <2>4. process \in Generations  BY <1>1, <1>4 DEF Scalars, Generations, None
  <2>5. Tables'  BY <1>1, <1>2, <2>1, <2>4 DEF Tables
  <2>6. Children'  BY <1>1, <1>2, <2>1 DEF Children, Lives
  <2>7. News'  BY <1>1, <1>2, <2>1 DEF News, Lives
  <2>8. Budget'  BY <1>1, <1>2, <1>4, <2>1 DEF Budget
  <2>9. QED  BY <2>2, <2>3, <2>5, <2>6, <2>7, <2>8 DEF IInv
<1>5. QED  BY <1>3, <1>4

(* What is left of the queue when its first task is taken. *)
LEMMA TakenTask ==
  ASSUME Tables, News, queue # <<>>, queue' = Tail(queue)
  PROVE  /\ queue' \in Seq(Tasks) /\ \A i \in DOMAIN queue' : queue'[i] \in Tasks
         /\ \A i \in DOMAIN queue' : queue'[i].kind = "exit" => child[queue'[i].gen] = "dead"
         /\ \A i, j \in DOMAIN queue' : queue'[i] = queue'[j] /\ queue'[i].kind = "exit" => i = j
         /\ \A i \in DOMAIN queue' : \E j \in DOMAIN queue : queue'[i] = queue[j]
         /\ \A j \in DOMAIN queue : queue[j] # Head(queue) => \E i \in DOMAIN queue' : queue'[i] = queue[j]
         /\ Head(queue) \in Tasks
         /\ Head(queue).kind = "exit" => /\ child[Head(queue).gen] = "dead"
                                         /\ \A i \in DOMAIN queue' : queue'[i] # Head(queue)
<1>1. queue \in Seq(Tasks)  BY DEF Tables
<1>2. /\ queue' \in Seq(Tasks) /\ 1 \in DOMAIN queue /\ Head(queue) = queue[1]
      /\ \A i \in DOMAIN queue' : i \in Nat /\ i >= 1 /\ i + 1 \in DOMAIN queue /\ queue'[i] = queue[i + 1]
      /\ \A i \in DOMAIN queue : i \in Nat /\ (i # 1 => i - 1 \in DOMAIN queue' /\ queue'[i - 1] = queue[i])
  BY <1>1, QueueTail
<1>3. /\ \A i \in DOMAIN queue : queue[i] \in Tasks
      /\ \A i \in DOMAIN queue' : queue'[i] \in Tasks
  BY <1>1, <1>2
<1>4. \A i \in DOMAIN queue' : queue'[i].kind = "exit" => child[queue'[i].gen] = "dead"  BY <1>2 DEF News
<1>5. \A i, j \in DOMAIN queue' : queue'[i] = queue'[j] /\ queue'[i].kind = "exit" => i = j
  <2>1. SUFFICES ASSUME NEW i \in DOMAIN queue', NEW j \in DOMAIN queue', queue'[i] = queue'[j], queue'[i].kind = "exit"
                 PROVE  i = j
    OBVIOUS
  <2>2. i + 1 = j + 1  BY <1>2, <2>1 DEF News
  <2>3. QED  BY <1>2, <2>2
<1>6. \A i \in DOMAIN queue' : \E j \in DOMAIN queue : queue'[i] = queue[j]  BY <1>2
<1>7. \A j \in DOMAIN queue : queue[j] # Head(queue) => \E i \in DOMAIN queue' : queue'[i] = queue[j]  BY <1>2
<1>8. ASSUME Head(queue).kind = "exit"
      PROVE  /\ child[Head(queue).gen] = "dead"
             /\ \A i \in DOMAIN queue' : queue'[i] # Head(queue)
  <2>1. child[Head(queue).gen] = "dead"  BY <1>2, <1>8 DEF News
  <2>2. ASSUME NEW i \in DOMAIN queue', queue'[i] = Head(queue)  PROVE FALSE
    <3>1. i + 1 = 1  BY <1>2, <1>8, <2>2 DEF News
    <3>2. QED  BY <1>2, <3>1
  <2>3. QED  BY <2>1, <2>2
<1>9. QED  BY <1>2, <1>3, <1>4, <1>5, <1>6, <1>7, <1>8

(* A stale task is dropped: it was no news of the held process. *)
LEMMA DropStaleStep == ASSUME IInv, DropStale  PROVE IInv'
<1> USE LaunchBoundType, SidecarAssumption
<1>1. Flags /\ Scalars /\ Tables /\ Children /\ News /\ Budget  BY DEF IInv
<1>2. /\ queue # <<>> /\ queue' = Tail(queue) /\ Head(queue).gen # generation /\ app = "up" /\ app' = app
      /\ state' = state /\ endpoint' = endpoint /\ process' = process /\ generation' = generation
      /\ consecutiveFailures' = consecutiveFailures /\ stopping' = stopping
      /\ relaunchAfterStop' = relaunchAfterStop /\ restartTask' = restartTask /\ readyWatchdog' = readyWatchdog
      /\ readyAt' = readyAt /\ killTasks' = killTasks /\ child' = child /\ told' = told /\ pipe' = pipe
      /\ userRestarts' = userRestarts /\ healthyRuns' = healthyRuns /\ attempts' = attempts
  BY DEF DropStale, shown, held, controls, os, bounds
<1>3. /\ queue' \in Seq(Tasks)
      /\ \A i \in DOMAIN queue' : queue'[i].kind = "exit" => child[queue'[i].gen] = "dead"
      /\ \A i, j \in DOMAIN queue' : queue'[i] = queue'[j] /\ queue'[i].kind = "exit" => i = j
      /\ \A i \in DOMAIN queue' : \E j \in DOMAIN queue : queue'[i] = queue[j]
      /\ \A j \in DOMAIN queue : queue[j] # Head(queue) => \E i \in DOMAIN queue' : queue'[i] = queue[j]
  BY <1>1, <1>2, TakenTask
<1>4. Flags'  BY <1>1, <1>2 DEF Flags
<1>5. Scalars'  BY <1>1, <1>2 DEF Scalars
<1>6. Tables'  BY <1>1, <1>2, <1>3 DEF Tables
<1>7. Children'  BY <1>1, <1>2 DEF Children, Lives
<1>8. News'
  <2>1. \A i \in DOMAIN queue' : queue'[i] = Task("exit", generation) => process = generation
    BY <1>1, <1>2, <1>3 DEF News
  <2>2. ASSUME process # None, ~Lives(process)  PROVE \E i \in DOMAIN queue' : queue'[i] = Task("exit", process)
    <3>1. PICK j \in DOMAIN queue : queue[j] = Task("exit", process)  BY <1>1, <1>2, <2>2 DEF News
    <3>2. queue[j].gen = generation  BY <1>1, <2>2, <3>1 DEF Scalars, Task
    <3>3. queue[j] # Head(queue)  BY <1>2, <3>2
    <3>4. PICK i \in DOMAIN queue' : queue'[i] = queue[j]  BY <1>3, <3>3
    <3>5. QED  BY <3>1, <3>4
  <2>3. QED  BY <1>2, <1>3, <2>1, <2>2 DEF News, Lives
<1>9. Budget'  BY <1>1, <1>2 DEF Budget
<1>10. QED  BY <1>4, <1>5, <1>6, <1>7, <1>8, <1>9 DEF IInv

(* A ready line of the current generation is believed. *)
LEMMA HandleReadyStep == ASSUME IInv, HandleReady  PROVE IInv'
<1> USE LaunchBoundType, SidecarAssumption
<1>1. Flags /\ Scalars /\ Tables /\ Children /\ News /\ Budget  BY DEF IInv
<1>2. /\ queue # <<>> /\ queue' = Tail(queue) /\ Head(queue) = Task("ready", generation) /\ app = "up" /\ app' = app
      /\ state' = "running" /\ endpoint' = generation /\ process' = process /\ generation' = generation
      /\ consecutiveFailures' = consecutiveFailures /\ stopping' = stopping
      /\ relaunchAfterStop' = relaunchAfterStop /\ restartTask' = restartTask /\ readyWatchdog' = FALSE
      /\ readyAt' = "recent" /\ killTasks' = killTasks /\ child' = child /\ told' = told /\ pipe' = pipe
      /\ userRestarts' = userRestarts /\ healthyRuns' = healthyRuns /\ attempts' = attempts
  BY DEF HandleReady, Takes, held, os, bounds
<1>3. /\ queue' \in Seq(Tasks)
      /\ \A i \in DOMAIN queue' : queue'[i].kind = "exit" => child[queue'[i].gen] = "dead"
      /\ \A i, j \in DOMAIN queue' : queue'[i] = queue'[j] /\ queue'[i].kind = "exit" => i = j
      /\ \A i \in DOMAIN queue' : \E j \in DOMAIN queue : queue'[i] = queue[j]
      /\ \A j \in DOMAIN queue : queue[j] # Head(queue) => \E i \in DOMAIN queue' : queue'[i] = queue[j]
  BY <1>1, <1>2, TakenTask
<1>4. Flags'  BY <1>1, <1>2 DEF Flags
<1>5. Scalars'  BY <1>1, <1>2 DEF Scalars
<1>6. Tables'  BY <1>1, <1>2, <1>3 DEF Tables
<1>7. Children'  BY <1>1, <1>2 DEF Children, Lives
<1>8. News'
  <2>1. \A i \in DOMAIN queue' : queue'[i] = Task("exit", generation) => process = generation
    BY <1>1, <1>2, <1>3 DEF News
  <2>2. ASSUME process # None, ~Lives(process)  PROVE \E i \in DOMAIN queue' : queue'[i] = Task("exit", process)
    <3>1. PICK j \in DOMAIN queue : queue[j] = Task("exit", process)  BY <1>1, <1>2, <2>2 DEF News
    <3>2. queue[j] # Head(queue)  BY <1>2, <3>1 DEF Task
    <3>3. PICK i \in DOMAIN queue' : queue'[i] = queue[j]  BY <1>3, <3>2
    <3>4. QED  BY <3>1, <3>3
  <2>3. QED  BY <1>2, <1>3, <2>1, <2>2 DEF News, Lives
<1>9. Budget'  BY <1>1, <1>2 DEF Budget
<1>10. QED  BY <1>4, <1>5, <1>6, <1>7, <1>8, <1>9 DEF IInv

(* The news of an exit: relaunch for the user, or one more failure. *)
LEMMA HandleExitStep == ASSUME IInv, HandleExit  PROVE IInv'
<1> USE LaunchBoundType, SidecarAssumption
<1>1. Flags /\ Scalars /\ Tables /\ Children /\ News /\ Budget  BY DEF IInv
<1>2. /\ queue # <<>> /\ queue' = Tail(queue) /\ Head(queue) = Task("exit", generation) /\ app = "up" /\ app' = app
      /\ pipe' \subseteq pipe /\ killTasks' = killTasks /\ userRestarts' = userRestarts /\ healthyRuns' = healthyRuns
  BY DEF HandleExit, Takes, bounds
<1>3. /\ queue' \in Seq(Tasks)
      /\ \A i \in DOMAIN queue' : queue'[i] \in Tasks
      /\ \A i \in DOMAIN queue' : queue'[i].kind = "exit" => child[queue'[i].gen] = "dead"
      /\ \A i, j \in DOMAIN queue' : queue'[i] = queue'[j] /\ queue'[i].kind = "exit" => i = j
      /\ \A i \in DOMAIN queue' : queue'[i] # Task("exit", generation)
  <2>1. Head(queue).kind = "exit"  BY <1>2 DEF Task
  <2>2. \A i \in DOMAIN queue' : queue'[i] # Head(queue)  BY <1>1, <1>2, <2>1, TakenTask
  <2>3. QED  BY <1>1, <1>2, <2>2, TakenTask
<1>4. generation \in Generations /\ child[generation] = "dead" /\ process = generation /\ process # None
  <2>1. Head(queue) \in Tasks /\ child[Head(queue).gen] = "dead"  BY <1>1, <1>2, TakenTask DEF Task
  <2>2. generation \in Generations /\ child[generation] = "dead"  BY <1>2, <2>1 DEF Tasks, Task
  <2>3. 1 \in DOMAIN queue /\ queue[1] = Task("exit", generation)  BY <1>1, <1>2, QueueTail DEF Tables
  <2>4. QED  BY <1>1, <1>2, <2>2, <2>3 DEF News
<1>5. \A g \in Generations : ~Lives(g)  BY <1>1, <1>2, <1>4 DEF Children, Lives, Living
<1>6. restartTask = FALSE  BY <1>1, <1>2, <1>4 DEF Children, Flags
<1>7. consecutiveFailures < MaxFailures /\ consecutiveFailures \in 0..MaxFailures
  BY <1>1, <1>2, <1>4 DEF Budget, Scalars
<1>8. killTasks' \subseteq Generations /\ pipe' \subseteq Generations  BY <1>1, <1>2 DEF Tables
<1>9. userRestarts' \in 0..MaxUserRestarts /\ healthyRuns' \in 0..MaxHealthyRuns  BY <1>1, <1>2 DEF Scalars
<1>10. CASE /\ stopping /\ relaunchAfterStop /\ stopping' = FALSE /\ relaunchAfterStop' = FALSE
            /\ restartTask' = FALSE /\ Launch(0, "none") /\ UNCHANGED consecutiveFailures
  <2>1. /\ app \in {"opening", "up"} /\ 0 \in Nat /\ "none" \in {"none", "recent", "long"}
        /\ consecutiveFailures' \in 0..MaxFailures /\ consecutiveFailures' < MaxFailures /\ 0 <= consecutiveFailures'
        /\ app' = "up"
    BY <1>2, <1>7, <1>10
  <2>2. ~stopping' /\ stopping' \in BOOLEAN /\ relaunchAfterStop' \in BOOLEAN /\ restartTask' = FALSE  BY <1>10
  <2>3. QED  BY <1>3, <1>5, <1>8, <1>9, <1>10, <2>1, <2>2, LaunchIInv
<1>11. CASE /\ ~stopping
            /\ consecutiveFailures' = IF Forgiven THEN 1 ELSE consecutiveFailures + 1
            /\ attempts' = IF readyAt = "long" THEN 0 ELSE attempts
            /\ process' = None /\ readyAt' = "none" /\ readyWatchdog' = FALSE
            /\ restartTask' = Retries(consecutiveFailures')
            /\ state' = IF Retries(consecutiveFailures') THEN "restarting" ELSE "failed"
            /\ UNCHANGED <<endpoint, generation, stopping, relaunchAfterStop, child, told>>
  <2>1. /\ endpoint' = endpoint /\ generation' = generation /\ stopping' = stopping
        /\ relaunchAfterStop' = relaunchAfterStop /\ child' = child /\ told' = told
    BY <1>11
  <2>2. restartTask' <=> consecutiveFailures' < MaxFailures  BY <1>11 DEF Retries
  <2>3. restartTask' \in BOOLEAN  BY <1>11 DEF Retries
  <2>4. state' \in {"restarting", "failed"}  BY <1>11
  <2>5. consecutiveFailures' \in 0..MaxFailures  BY <1>7, <1>11
  <2>6. attempts \in Nat /\ attempts <= consecutiveFailures + 1  BY <1>1, <1>2, <1>4, <1>11 DEF Budget, Scalars
  <2>7. attempts' \in Nat /\ attempts' <= consecutiveFailures' /\ attempts' <= MaxFailures
    BY <1>7, <1>11, <2>6 DEF Forgiven
  <2>8. Flags'  BY <1>1, <1>11, <2>1, <2>3 DEF Flags
  <2>9. Scalars'  BY <1>1, <1>2, <1>9, <1>11, <2>1, <2>4, <2>5, <2>7 DEF Scalars
  <2>10. Tables'  BY <1>1, <1>3, <1>8, <2>1 DEF Tables
  <2>11. Children'  BY <1>1, <1>2, <1>5, <1>11, <2>1 DEF Children, Lives
  <2>12. News'  BY <1>3, <1>11, <2>1 DEF News
  <2>13. Budget'  BY <1>1, <1>2, <1>11, <2>1, <2>2, <2>7 DEF Budget
  <2>14. QED  BY <2>8, <2>9, <2>10, <2>11, <2>12, <2>13 DEF IInv
<1>12. QED  BY <1>10, <1>11 DEF HandleExit

(* The launch after a backoff delay. *)
LEMMA RestartTaskStep == ASSUME IInv, RestartTaskRuns  PROVE IInv'
<1> USE LaunchBoundType, SidecarAssumption
<1>1. Flags /\ Scalars /\ Tables /\ Children /\ News /\ Budget  BY DEF IInv
<1>2. /\ app = "up" /\ app' = app /\ restartTask /\ restartTask' = FALSE /\ Launch(attempts, readyAt)
      /\ consecutiveFailures' = consecutiveFailures /\ stopping' = stopping
      /\ relaunchAfterStop' = relaunchAfterStop /\ killTasks' = killTasks /\ pipe' = pipe /\ queue' = queue
      /\ userRestarts' = userRestarts /\ healthyRuns' = healthyRuns
  BY DEF RestartTaskRuns, bounds
<1>3. process = None  BY <1>1, <1>2 DEF Children
<1>4. \A g \in Generations : ~Lives(g)  BY <1>1, <1>2, <1>3 DEF Children
<1>5. ~stopping  BY <1>1, <1>2, <1>3 DEF Budget
<1>6. /\ app \in {"opening", "up"} /\ app' = "up" /\ attempts \in Nat /\ readyAt \in {"none", "recent", "long"}
      /\ consecutiveFailures' \in 0..MaxFailures /\ consecutiveFailures' < MaxFailures /\ attempts <= consecutiveFailures'
  BY <1>1, <1>2, <1>3, <1>5 DEF Budget, Scalars
<1>7. ~stopping' /\ stopping' \in BOOLEAN /\ relaunchAfterStop' \in BOOLEAN  BY <1>1, <1>2, <1>5 DEF Flags
<1>8. /\ killTasks' \subseteq Generations /\ pipe' \subseteq Generations /\ queue' \in Seq(Tasks)
      /\ userRestarts' \in 0..MaxUserRestarts /\ healthyRuns' \in 0..MaxHealthyRuns
  BY <1>1, <1>2 DEF Tables, Scalars
<1>9. \A i \in DOMAIN queue' : queue'[i] \in Tasks  BY <1>8
<1>10. /\ \A i \in DOMAIN queue' : queue'[i].kind = "exit" => child[queue'[i].gen] = "dead"
       /\ \A i, j \in DOMAIN queue' : queue'[i] = queue'[j] /\ queue'[i].kind = "exit" => i = j
  BY <1>1, <1>2 DEF News
<1>11. \A i \in DOMAIN queue' : queue'[i] # Task("exit", generation)
  BY <1>1, <1>2, <1>3, <1>9 DEF News, Tasks, Task
<1>12. QED  BY <1>2, <1>4, <1>6, <1>7, <1>8, <1>9, <1>10, <1>11, LaunchIInv

(* The death of a child that lived: the only one, and not yet told of. *)
LEMMA DeathIInv ==
  ASSUME IInv, NEW g \in Generations, Lives(g), Dies(g), killTasks' \subseteq Generations,
         UNCHANGED <<app, shown, held, controls, told, pipe, bounds, attempts>>
  PROVE  IInv'
<1> USE LaunchBoundType, SidecarAssumption
<1> DEFINE t == Task("exit", g)
<1>1. Flags /\ Scalars /\ Tables /\ Children /\ News /\ Budget  BY DEF IInv
<1>2. /\ app' = app /\ state' = state /\ endpoint' = endpoint /\ process' = process /\ generation' = generation
      /\ consecutiveFailures' = consecutiveFailures /\ stopping' = stopping
      /\ relaunchAfterStop' = relaunchAfterStop /\ restartTask' = restartTask /\ readyWatchdog' = readyWatchdog
      /\ readyAt' = readyAt /\ told' = told /\ pipe' = pipe
      /\ userRestarts' = userRestarts /\ healthyRuns' = healthyRuns /\ attempts' = attempts
  BY DEF shown, held, controls, bounds
<1>3. /\ child' = [child EXCEPT ![g] = "dead"] /\ queue' = Append(queue, t) /\ t \in Tasks
  BY DEF Dies, Task, Tasks
<1>4. /\ child' \in [Generations -> {"unborn", "dead"} \cup Living] /\ child'[g] = "dead"
      /\ \A h \in Generations : h # g => child'[h] = child[h]
  BY <1>1, <1>3 DEF Tables
<1>5. /\ child[g] # "dead" /\ child[g] # "unborn" /\ "dead" \notin Living  BY DEF Lives, Living
<1>6. /\ queue' \in Seq(Tasks) /\ Len(queue) + 1 \in DOMAIN queue' /\ queue'[Len(queue) + 1] = t
      /\ \A i \in DOMAIN queue : i \in DOMAIN queue' /\ queue'[i] = queue[i]
      /\ \A i \in DOMAIN queue' : i \in DOMAIN queue \/ i = Len(queue) + 1
  BY <1>1, <1>3, QueueAppend DEF Tables
<1>7. \A i \in DOMAIN queue : queue[i] \in Tasks  BY <1>1 DEF Tables
<1>8. \A i \in DOMAIN queue : queue[i] # t  BY <1>1, <1>5 DEF News, Task
<1>9. Flags'  BY <1>1, <1>2 DEF Flags
<1>10. Scalars'  BY <1>1, <1>2 DEF Scalars
<1>11. Tables'  BY <1>1, <1>2, <1>4, <1>6 DEF Tables
<1>12. \A h \in Generations : child'[h] \in Living => Lives(h)  BY <1>4, <1>5 DEF Lives
<1>13. Children'
  <2>1. \A h \in Generations : h > generation => child'[h] = "unborn"  BY <1>1, <1>4, <1>5 DEF Children
  <2>2. app # "opening"  BY <1>1 DEF Children, None
  <2>3. QED  BY <1>1, <1>2, <1>12, <2>1, <2>2 DEF Children, Lives
<1>14. News'
  <2>1. \A i \in DOMAIN queue' : queue'[i].kind = "exit" => child'[queue'[i].gen] = "dead"
    <3>1. SUFFICES ASSUME NEW i \in DOMAIN queue', queue'[i].kind = "exit"  PROVE child'[queue'[i].gen] = "dead"
      OBVIOUS
    <3>2. CASE i \in DOMAIN queue
      <4>1. queue[i].gen \in Generations /\ child[queue[i].gen] = "dead"  BY <1>1, <1>6, <1>7, <3>1, <3>2 DEF News, Tasks
      <4>2. QED  BY <1>4, <1>6, <3>2, <4>1
    <3>3. CASE i = Len(queue) + 1  BY <1>4, <1>6, <3>3 DEF Task
    <3>4. QED  BY <1>6, <3>2, <3>3
  <2>2. \A i, j \in DOMAIN queue' : queue'[i] = queue'[j] /\ queue'[i].kind = "exit" => i = j
    BY <1>1, <1>6, <1>8 DEF News
  <2>3. app = "up" => \A i \in DOMAIN queue' : queue'[i] = Task("exit", generation) => process = generation
    <3>1. SUFFICES ASSUME app = "up", NEW i \in DOMAIN queue', queue'[i] = Task("exit", generation)
                   PROVE  process = generation
      OBVIOUS
    <3>2. CASE i \in DOMAIN queue  BY <1>1, <1>6, <3>1, <3>2 DEF News
    <3>3. CASE i = Len(queue) + 1
      <4>1. g = generation  BY <1>6, <3>1, <3>3 DEF Task
      <4>2. QED  BY <1>1, <3>1, <4>1 DEF Children
    <3>4. QED  BY <1>6, <3>2, <3>3
  <2>4. ASSUME app = "up", process # None, child'[process] \notin Living
        PROVE  \E i \in DOMAIN queue' : queue'[i] = Task("exit", process)
    <3>1. CASE process = g  BY <1>6, <3>1
    <3>2. CASE process # g
      <4>1. process \in Generations  BY <1>1, <2>4 DEF Scalars, Generations, None
      <4>2. ~Lives(process)  BY <1>4, <2>4, <3>2, <4>1 DEF Lives
      <4>3. QED  BY <1>1, <1>6, <2>4, <4>2 DEF News
    <3>3. QED  BY <3>1, <3>2
  <2>5. QED  BY <1>2, <2>1, <2>2, <2>3, <2>4 DEF News, Lives
<1>15. Budget'  BY <1>1, <1>2 DEF Budget
<1>16. QED  BY <1>9, <1>10, <1>11, <1>13, <1>14, <1>15 DEF IInv

(* A step that leaves the queue and every child alone, and the controller   *)
(* but for its watchdog and its clock.                                      *)
LEMMA QuietIInv ==
  ASSUME IInv, readyWatchdog' \in BOOLEAN, readyAt' \in {"none", "recent", "long"},
         healthyRuns' \in 0..MaxHealthyRuns, killTasks' \subseteq Generations, told' \subseteq Generations,
         app' = app \/ app' = "gone",
         UNCHANGED <<shown, held, stopping, relaunchAfterStop, restartTask, child, pipe, queue, userRestarts, attempts>>
  PROVE  IInv'
<1>1. Flags /\ Scalars /\ Tables /\ Children /\ News /\ Budget  BY DEF IInv
<1>2. /\ state' = state /\ endpoint' = endpoint /\ process' = process /\ generation' = generation
      /\ consecutiveFailures' = consecutiveFailures /\ stopping' = stopping
      /\ relaunchAfterStop' = relaunchAfterStop /\ restartTask' = restartTask
      /\ child' = child /\ pipe' = pipe /\ queue' = queue
      /\ userRestarts' = userRestarts /\ attempts' = attempts
  BY DEF shown, held
<1>3. Flags'  BY <1>1, <1>2 DEF Flags
<1>4. Scalars'  BY <1>1, <1>2 DEF Scalars
<1>5. Tables'  BY <1>1, <1>2 DEF Tables
<1>6. Children'  BY <1>1, <1>2 DEF Children, Lives
<1>7. News'  BY <1>1, <1>2 DEF News, Lives
<1>8. Budget'  BY <1>1, <1>2 DEF Budget
<1>9. QED  BY <1>3, <1>4, <1>5, <1>6, <1>7, <1>8 DEF IInv

(* The kill that is due two seconds after SIGTERM. *)
LEMMA KillTaskStep == ASSUME IInv, NEW g \in Generations, KillTask(g)  PROVE IInv'
<1>1. /\ killTasks' \subseteq Generations /\ told \subseteq Generations
      /\ readyAt \in {"none", "recent", "long"} /\ healthyRuns \in 0..MaxHealthyRuns
  BY DEF KillTask, IInv, Tables, Scalars
<1>2. UNCHANGED <<app, shown, held, controls, told, pipe, bounds, attempts>>  BY DEF KillTask
<1>3. CASE generation = g /\ Runs
  <2>1. g = process  BY <1>3, LaunchBoundType DEF IInv, Scalars, Runs
  <2>2. Lives(g) /\ Dies(g)  BY <1>3, <2>1 DEF KillTask, Runs
  <2>3. QED  BY <1>1, <1>2, <2>2, DeathIInv
<1>4. CASE ~(generation = g /\ Runs)
  <2>1. UNCHANGED <<child, queue>>  BY <1>4 DEF KillTask
  <2>2. readyWatchdog' \in BOOLEAN  BY <1>2 DEF IInv, Flags, controls
  <2>3. QED  BY <1>1, <1>2, <2>1, <2>2, QuietIInv DEF controls, bounds
<1>5. QED  BY <1>3, <1>4

(* The watchdog, the death of the app and the clock change no child and no  *)
(* task.                                                                    *)
LEMMA QuietSteps == ASSUME IInv, WatchdogFires \/ AppDies \/ Age \/ UNCHANGED vars  PROVE IInv'
<1> USE LaunchBoundType, SidecarAssumption
<1>1. /\ killTasks \subseteq Generations /\ told \subseteq Generations
      /\ readyAt \in {"none", "recent", "long"} /\ healthyRuns \in 0..MaxHealthyRuns
      /\ process # None => process \in Generations
  BY DEF IInv, Tables, Scalars, Generations, None
<1>2. readyWatchdog \in BOOLEAN  BY DEF IInv, Flags
<1>3. CASE WatchdogFires
  <2>1. /\ readyWatchdog' = FALSE /\ readyAt' = readyAt /\ healthyRuns' = healthyRuns /\ app' = app
        /\ UNCHANGED <<shown, held, stopping, relaunchAfterStop, restartTask, child, pipe, queue, userRestarts, attempts>>
    BY <1>3 DEF WatchdogFires, bounds
  <2>2. killTasks' \subseteq Generations /\ told' \subseteq Generations
    BY <1>1, <1>3 DEF WatchdogFires, BeginTermination, Runs
  <2>3. readyWatchdog' \in BOOLEAN  BY <2>1
  <2>4. readyAt' \in {"none", "recent", "long"} /\ healthyRuns' \in 0..MaxHealthyRuns  BY <1>1, <2>1
  <2>5. QED  BY <2>1, <2>2, <2>3, <2>4, QuietIInv
<1>4. CASE AppDies
  <2>1. /\ readyWatchdog' = readyWatchdog /\ readyAt' = readyAt /\ healthyRuns' = healthyRuns /\ app' = "gone"
        /\ killTasks' = killTasks
        /\ UNCHANGED <<shown, held, stopping, relaunchAfterStop, restartTask, child, pipe, queue, userRestarts, attempts>>
    BY <1>4 DEF AppDies, controls, bounds
  <2>2. killTasks' \subseteq Generations /\ told' \subseteq Generations  BY <1>1, <1>4, <2>1 DEF AppDies
  <2>3. readyWatchdog' \in BOOLEAN  BY <1>2, <2>1
  <2>4. readyAt' \in {"none", "recent", "long"} /\ healthyRuns' \in 0..MaxHealthyRuns  BY <1>1, <2>1
  <2>5. QED  BY <2>1, <2>2, <2>3, <2>4, QuietIInv
<1>5. CASE Age
  <2>1. /\ readyWatchdog' = readyWatchdog /\ readyAt' = "long" /\ healthyRuns' = healthyRuns + 1 /\ app' = app
        /\ killTasks' = killTasks /\ told' = told /\ healthyRuns < MaxHealthyRuns
        /\ UNCHANGED <<shown, held, stopping, relaunchAfterStop, restartTask, child, pipe, queue, userRestarts, attempts>>
    BY <1>5 DEF Age, os
  <2>2. killTasks' \subseteq Generations /\ told' \subseteq Generations  BY <1>1, <2>1
  <2>3. readyWatchdog' \in BOOLEAN  BY <1>2, <2>1
  <2>4. readyAt' \in {"none", "recent", "long"} /\ healthyRuns' \in 0..MaxHealthyRuns  BY <1>1, <2>1
  <2>5. QED  BY <2>1, <2>2, <2>3, <2>4, QuietIInv
<1>6. CASE UNCHANGED vars
  <2>1. /\ readyWatchdog' = readyWatchdog /\ readyAt' = readyAt /\ healthyRuns' = healthyRuns /\ app' = app
        /\ killTasks' = killTasks /\ told' = told
        /\ UNCHANGED <<shown, held, stopping, relaunchAfterStop, restartTask, child, pipe, queue, userRestarts, attempts>>
    BY <1>6 DEF vars, controls, os, bounds
  <2>2. killTasks' \subseteq Generations /\ told' \subseteq Generations  BY <1>1, <2>1
  <2>3. readyWatchdog' \in BOOLEAN  BY <1>2, <2>1
  <2>4. readyAt' \in {"none", "recent", "long"} /\ healthyRuns' \in 0..MaxHealthyRuns  BY <1>1, <2>1
  <2>5. QED  BY <2>1, <2>2, <2>3, <2>4, QuietIInv
<1>7. QED  BY <1>3, <1>4, <1>5, <1>6

(* The app is quit: whatever ran is dead, and the controller is done. *)
LEMMA QuitStep == ASSUME IInv, Quit  PROVE IInv'
<1> USE LaunchBoundType, SidecarAssumption
<1>1. Flags /\ Scalars /\ Tables /\ Children /\ News /\ Budget  BY DEF IInv
<1>2. /\ app' = "gone" /\ process' = None /\ readyAt' = "none" /\ state' = "idle"
      /\ stopping' = TRUE /\ relaunchAfterStop' = FALSE /\ restartTask' = FALSE /\ readyWatchdog' = FALSE
      /\ killTasks' = {} /\ endpoint' = endpoint /\ generation' = generation
      /\ consecutiveFailures' = consecutiveFailures /\ told' = told /\ pipe' = pipe /\ queue' = queue
      /\ userRestarts' = userRestarts /\ healthyRuns' = healthyRuns /\ attempts' = attempts
  BY DEF Quit, bounds
<1>3. /\ child' \in [Generations -> {"unborn", "dead"} \cup Living]
      /\ \A g \in Generations : child'[g] = child[g] \/ (Lives(g) /\ child'[g] = "dead")
  <2>1. child \in [Generations -> {"unborn", "dead"} \cup Living]  BY <1>1 DEF Tables
  <2>2. CASE Runs
    <3>1. child' = [child EXCEPT ![process] = "dead"] /\ Lives(process)  BY <2>2 DEF Quit, Runs
    <3>2. QED  BY <2>1, <3>1
  <2>3. CASE ~Runs
    <3>1. child' = child  BY <2>3 DEF Quit
    <3>2. QED  BY <2>1, <3>1
  <2>4. QED  BY <2>2, <2>3
<1>4. "dead" \notin Living /\ "unborn" \notin Living  BY DEF Living
<1>5. Flags'  BY <1>2 DEF Flags
<1>6. Scalars'  BY <1>1, <1>2 DEF Scalars
<1>7. Tables'  BY <1>1, <1>2, <1>3 DEF Tables
<1>8. Children'  BY <1>1, <1>2, <1>3, <1>4 DEF Children, Lives
<1>9. News'
  <2>1. \A i \in DOMAIN queue : queue[i] \in Tasks  BY <1>1 DEF Tables
  <2>2. \A i \in DOMAIN queue : queue[i].gen \in Generations  BY <2>1 DEF Tasks
  <2>3. QED  BY <1>1, <1>2, <1>3, <2>2 DEF News
<1>10. Budget'  BY <1>1, <1>2 DEF Budget
<1>11. QED  BY <1>5, <1>6, <1>7, <1>8, <1>9, <1>10 DEF IInv

(* A child that comes to listen, or to hang, lived and lives on. *)
LEMMA LivesOnStep == ASSUME IInv, NEW g \in Generations, Listen(g) \/ Wedge(g)  PROVE IInv'
<1> USE LaunchBoundType, SidecarAssumption
<1>1. Flags /\ Scalars /\ Tables /\ Children /\ News /\ Budget  BY DEF IInv
<1>2. /\ app' = app /\ state' = state /\ endpoint' = endpoint /\ process' = process /\ generation' = generation
      /\ consecutiveFailures' = consecutiveFailures /\ stopping' = stopping
      /\ relaunchAfterStop' = relaunchAfterStop /\ restartTask' = restartTask /\ readyWatchdog' = readyWatchdog
      /\ readyAt' = readyAt /\ killTasks' = killTasks /\ told' = told /\ queue' = queue
      /\ userRestarts' = userRestarts /\ healthyRuns' = healthyRuns /\ attempts' = attempts
  BY DEF Listen, Wedge, shown, held, controls, bounds
<1>3. PICK s \in Living : child' = [child EXCEPT ![g] = s]  BY DEF Listen, Wedge, Living
<1>4. Lives(g) /\ pipe' \subseteq Generations  BY <1>1 DEF Listen, Wedge, Lives, Living, Tables
<1>5. child \in [Generations -> {"unborn", "dead"} \cup Living]  BY <1>1 DEF Tables
<1>6. child' \in [Generations -> {"unborn", "dead"} \cup Living]  BY <1>3, <1>5
<1>7. \A h \in Generations : child'[h] = IF h = g THEN s ELSE child[h]  BY <1>3, <1>5
<1>8. "dead" \notin Living /\ "unborn" \notin Living  BY DEF Living
<1>9. /\ \A h \in Generations : Lives(h)' <=> Lives(h)
      /\ \A h \in Generations : ~Lives(h) => child'[h] = child[h]
  BY <1>4, <1>7 DEF Lives
<1>10. Flags'  BY <1>1, <1>2 DEF Flags
<1>11. Scalars'  BY <1>1, <1>2 DEF Scalars
<1>12. Tables'  BY <1>1, <1>2, <1>4, <1>6 DEF Tables
<1>13. Children'
  <2>1. \A h \in Generations : child[h] = "unborn" => child'[h] = "unborn"  BY <1>8, <1>9 DEF Lives
  <2>2. QED  BY <1>1, <1>2, <1>9, <2>1 DEF Children
<1>14. News'
  <2>1. \A i \in DOMAIN queue : queue[i] \in Tasks  BY <1>1 DEF Tables
  <2>2. \A i \in DOMAIN queue : queue[i].gen \in Generations  BY <2>1 DEF Tasks
  <2>3. \A h \in Generations : child[h] = "dead" => child'[h] = "dead"  BY <1>8, <1>9 DEF Lives
  <2>4. process # None => process \in Generations  BY <1>1 DEF Scalars, Generations, None
  <2>5. \A i \in DOMAIN queue' : queue'[i].kind = "exit" => child'[queue'[i].gen] = "dead"
    BY <1>1, <1>2, <2>2, <2>3 DEF News
  <2>6. process # None => (child'[process] \in Living <=> child[process] \in Living)  BY <1>9, <2>4 DEF Lives
  <2>7. QED  BY <1>1, <1>2, <2>5, <2>6 DEF News, Lives
<1>15. Budget'  BY <1>1, <1>2 DEF Budget
<1>16. QED  BY <1>10, <1>11, <1>12, <1>13, <1>14, <1>15 DEF IInv

(* A ready line joins the queue, which may hold the news of the exit. *)
LEMMA ReadStep == ASSUME IInv, NEW g \in Generations, Read(g)  PROVE IInv'
<1> USE LaunchBoundType, SidecarAssumption
<1> DEFINE t == Task("ready", g)
<1>1. Flags /\ Scalars /\ Tables /\ Children /\ News /\ Budget  BY DEF IInv
<1>2. /\ app' = app /\ app = "up" /\ state' = state /\ endpoint' = endpoint /\ process' = process
      /\ generation' = generation /\ consecutiveFailures' = consecutiveFailures /\ stopping' = stopping
      /\ relaunchAfterStop' = relaunchAfterStop /\ restartTask' = restartTask /\ readyWatchdog' = readyWatchdog
      /\ readyAt' = readyAt /\ killTasks' = killTasks /\ child' = child /\ told' = told /\ pipe' \subseteq pipe
      /\ userRestarts' = userRestarts /\ healthyRuns' = healthyRuns /\ attempts' = attempts
      /\ queue' = Append(queue, t)
  BY DEF Read, shown, held, controls, bounds
<1>3. t \in Tasks /\ t.kind = "ready"  BY DEF Task, Tasks
<1>4. /\ queue' \in Seq(Tasks) /\ queue'[Len(queue) + 1] = t
      /\ \A i \in DOMAIN queue : i \in DOMAIN queue' /\ queue'[i] = queue[i]
      /\ \A i \in DOMAIN queue' : i \in DOMAIN queue \/ i = Len(queue) + 1
  BY <1>1, <1>2, <1>3, QueueAppend DEF Tables
<1>5. \A i \in DOMAIN queue' : queue'[i].kind = "exit" => i \in DOMAIN queue  BY <1>3, <1>4
<1>6. Flags'  BY <1>1, <1>2 DEF Flags
<1>7. Scalars'  BY <1>1, <1>2 DEF Scalars
<1>8. Tables'  BY <1>1, <1>2, <1>4 DEF Tables
<1>9. Children'  BY <1>1, <1>2 DEF Children, Lives
<1>10. News'
  <2>1. \A i \in DOMAIN queue' : queue'[i].kind = "exit" => child'[queue'[i].gen] = "dead"
    BY <1>1, <1>2, <1>4, <1>5 DEF News
  <2>2. \A i, j \in DOMAIN queue' : queue'[i] = queue'[j] /\ queue'[i].kind = "exit" => i = j
    BY <1>1, <1>4, <1>5 DEF News
  <2>3. \A i \in DOMAIN queue' : queue'[i] = Task("exit", generation) => process = generation
    BY <1>1, <1>2, <1>4, <1>5 DEF News, Task
  <2>4. process # None /\ ~Lives(process) => \E i \in DOMAIN queue' : queue'[i] = Task("exit", process)
    BY <1>1, <1>2, <1>4 DEF News
  <2>5. QED  BY <1>2, <2>1, <2>2, <2>3, <2>4 DEF News, Lives
<1>11. Budget'  BY <1>1, <1>2 DEF Budget
<1>12. QED  BY <1>6, <1>7, <1>8, <1>9, <1>10, <1>11 DEF IInv

(* A death at any moment, of a child told to stop or of one that crashes. *)
LEMMA DeathStep == ASSUME IInv, NEW g \in Generations, ShutDown(g) \/ Crash(g)  PROVE IInv'
<1>1. Lives(g) /\ Exits(g)  BY DEF ShutDown, Crash, Lives, Living
<1>2. /\ Dies(g) /\ killTasks' = killTasks
      /\ UNCHANGED <<app, shown, held, controls, told, pipe, bounds, attempts>>
  BY <1>1 DEF Exits
<1>3. killTasks' \subseteq Generations  BY <1>2 DEF IInv, Tables
<1>4. QED  BY <1>1, <1>2, <1>3, DeathIInv

(* The invariant is inductive. *)
LEMMA NextIInv == IInv /\ [Next]_vars => IInv'
<1> SUFFICES ASSUME IInv, [Next]_vars  PROVE IInv'  OBVIOUS
<1>1. CASE Start  BY <1>1, StartStep
<1>2. CASE RestartNow  BY <1>2, RestartNowStep
<1>3. CASE HandleReady  BY <1>3, HandleReadyStep
<1>4. CASE HandleExit  BY <1>4, HandleExitStep
<1>5. CASE DropStale  BY <1>5, DropStaleStep
<1>6. CASE RestartTaskRuns  BY <1>6, RestartTaskStep
<1>7. CASE WatchdogFires  BY <1>7, QuietSteps
<1>8. CASE \E g \in Generations : KillTask(g)  BY <1>8, KillTaskStep
<1>9. CASE Quit  BY <1>9, QuitStep
<1>10. CASE AppDies  BY <1>10, QuietSteps
<1>11. CASE Age  BY <1>11, QuietSteps
<1>12. CASE \E g \in Generations : Listen(g) \/ Wedge(g)  BY <1>12, LivesOnStep
<1>13. CASE \E g \in Generations : Read(g)  BY <1>13, ReadStep
<1>14. CASE \E g \in Generations : ShutDown(g) \/ Crash(g)  BY <1>14, DeathStep
<1>15. CASE UNCHANGED vars  BY <1>15, QuietSteps
<1>16. QED
  BY <1>1, <1>2, <1>3, <1>4, <1>5, <1>6, <1>7, <1>8, <1>9, <1>10, <1>11, <1>12, <1>13, <1>14, <1>15
  DEF Next, Controller

(* In every behaviour of the supervisor the invariant always holds. *)
THEOREM Invariance == Spec => []IInv
<1>1. QED  BY InitIInv, NextIInv, PTL DEF Spec

(* Every variable of the controller and of its children keeps its kind, for *)
(* every restart budget and however long the app runs.                      *)
THEOREM TypeCorrect == Spec => []TypeOK
<1>1. IInv => TypeOK  BY TypeParts DEF IInv
<1>2. QED  BY <1>1, Invariance, PTL

(* restartNow, the backoff task and handleExit, in any order and with any   *)
(* deaths in between, never leave two servers on one data directory.        *)
THEOREM NeverTwoSidecars == Spec => []OneSidecar
<1>1. IInv => OneSidecar
  <2> SUFFICES ASSUME IInv  PROVE OneSidecar  OBVIOUS
  <2> DEFINE L == {g \in Generations : Lives(g)}
  <2>1. \A g, h \in L : g = h  BY DEF IInv, Children
  <2>2. CASE L = {}  BY <2>2, FS_EmptySet DEF OneSidecar
  <2>3. CASE L # {}
    <3>1. PICK g : g \in L  BY <2>3
    <3>2. L = {g}  BY <2>1, <3>1
    <3>3. Cardinality({g}) = 1  BY FS_Singleton
    <3>4. Cardinality(L) = 1  BY <3>2, <3>3
    <3>5. QED  BY <3>4 DEF OneSidecar
  <2>4. QED  BY <2>2, <2>3
<1>2. QED  BY <1>1, Invariance, PTL

(* While the app runs, the controller holds every server that lives, and no *)
(* death of a held server goes unheard: its handleExit is in the queue.     *)
THEOREM DeathsNoticed == Spec => []DeathsAreNoticed
<1>1. IInv => DeathsAreNoticed  BY DEF IInv, Children, News, DeathsAreNoticed
<1>2. QED  BY <1>1, Invariance, PTL

(* The failure count of handleExit bounds the launches of a crash loop, for *)
(* every maxConsecutiveFailures.                                            *)
THEOREM LoopEnds == Spec => []CrashLoopEnds
<1>1. IInv => CrashLoopEnds  BY DEF IInv, Budget, CrashLoopEnds
<1>2. QED  BY <1>1, Invariance, PTL

(* A ready line is believed of the current generation only, and every       *)
(* launch takes the window out of "running": so the port it shows is never  *)
(* that of a server which the held one replaced.                            *)
THEOREM EndpointCurrent == Spec => []EndpointIsCurrent
<1>1. Init => EndpointIsCurrent  BY DEF Init, EndpointIsCurrent
<1>2. ASSUME IInv, EndpointIsCurrent, [Next]_vars  PROVE EndpointIsCurrent'
  <2>1. process \in {None, generation}  BY <1>2 DEF IInv, Scalars
  <2>2. \A before, ready : Launch(before, ready) => state' \in {"starting", "failed"}  BY DEF Launch
  <2>3. CASE state' # "running"  BY <2>3 DEF EndpointIsCurrent
  <2>4. CASE UNCHANGED <<shown, process>>  BY <1>2, <2>4 DEF EndpointIsCurrent, shown
  <2>5. CASE HandleReady
    <3>1. endpoint' = generation /\ process' = process  BY <2>5 DEF HandleReady, held
    <3>2. QED  BY <2>1, <3>1 DEF EndpointIsCurrent
  <2>6. ASSUME ~HandleReady  PROVE state' # "running" \/ UNCHANGED <<shown, process>>
    <3>1. CASE Start \/ RestartTaskRuns  BY <2>2, <3>1 DEF Start, RestartTaskRuns
    <3>2. CASE RestartNow  BY <2>2, <3>2 DEF RestartNow, shown
    <3>3. CASE HandleExit  BY <2>2, <3>3 DEF HandleExit, shown
    <3>4. CASE Quit  BY <3>4 DEF Quit
    <3>5. CASE \/ DropStale \/ WatchdogFires \/ AppDies \/ Age
               \/ \E g \in Generations : KillTask(g)
      BY <3>5 DEF DropStale, WatchdogFires, AppDies, Age, KillTask, held
    <3>6. CASE \E g \in Generations : Listen(g) \/ Read(g) \/ Wedge(g) \/ ShutDown(g) \/ Crash(g)
      BY <3>6 DEF Listen, Read, Wedge, ShutDown, Crash, Exits, held
    <3>7. CASE UNCHANGED vars  BY <3>7 DEF vars, held
    <3>8. QED  BY <1>2, <2>6, <3>1, <3>2, <3>3, <3>4, <3>5, <3>6, <3>7 DEF Next, Controller
  <2>7. QED  BY <2>3, <2>4, <2>5, <2>6
<1>3. QED  BY <1>1, <1>2, Invariance, PTL DEF Spec
=============================================================================
