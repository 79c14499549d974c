------------------------------- MODULE Sidecar -------------------------------
(***************************************************************************)
(* The Mac shell's supervisor and the Node server it supervises:           *)
(*   apps/mac-shell/Sources/MacShell/SidecarController.swift               *)
(*   apps/sidecar/server.mjs                                               *)
(*                                                                         *)
(* The controller lives on the main actor, so a method or a task between   *)
(* two awaits is one step.  The pipe reader and the termination handler    *)
(* run elsewhere and hop in through the main actor's queue: a ready line   *)
(* that was read late can come after the news of the exit.                 *)
(* A launch is numbered by `generation`; the child it started has the same *)
(* number.  Only applicationWillTerminate calls stopBlocking, and nothing  *)
(* of the app runs after it.                                               *)
(***************************************************************************)
EXTENDS Integers, Sequences, FiniteSets

CONSTANTS
  MaxFailures,      \* maxConsecutiveFailures
  MaxUserRestarts,  \* "Restart Sidecar" and "Try Again" (bound)
  MaxHealthyRuns    \* children that stay up for healthyRuntime (bound)

ASSUME SidecarAssumption == MaxFailures \in Nat \ {0} /\ MaxUserRestarts \in Nat /\ MaxHealthyRuns \in Nat

VARIABLES
  app,                \* "opening", "up" or "gone"
  state, endpoint,    \* what the window shows, and whose ready line it was
  process,            \* the child the controller holds, or None
  generation, consecutiveFailures,
  stopping, relaunchAfterStop,
  restartTask, readyWatchdog,   \* armed?
  readyAt,            \* None, a moment ago, or healthyRuntime ago
  killTasks,          \* generations with a SIGKILL due two seconds later
  child,              \* child[g]: what the operating system knows of g
  told,               \* children that were sent SIGTERM or read EOF on stdin
  pipe,               \* children whose ready line is written and not read
  queue,              \* tasks waiting for the main actor
  userRestarts, healthyRuns,
  attempts            \* history: launches since the user or a healthy run

controls == <<stopping, relaunchAfterStop, restartTask, readyWatchdog, readyAt>>
held == <<process, generation, consecutiveFailures>>
shown == <<state, endpoint>>
os == <<child, told, pipe>>
bounds == <<userRestarts, healthyRuns>>
vars == <<app, shown, held, controls, killTasks, os, queue, bounds, attempts>>

None == 0
LaunchBound == (1 + MaxUserRestarts + MaxHealthyRuns) * MaxFailures
Generations == 1..LaunchBound
Living == {"booting", "listening", "wedged"}
Lives(g) == child[g] \in Living
Runs == process # None /\ Lives(process)
Task(kind, g) == [kind |-> kind, gen |-> g]

Init ==
  /\ app = "opening" /\ state = "idle" /\ endpoint = None
  /\ process = None /\ generation = 0 /\ consecutiveFailures = 0
  /\ stopping = FALSE /\ relaunchAfterStop = FALSE
  /\ restartTask = FALSE /\ readyWatchdog = FALSE /\ readyAt = "none"
  /\ killTasks = {} /\ child = [g \in Generations |-> "unborn"] /\ told = {}
  /\ pipe = {} /\ queue = <<>>
  /\ userRestarts = 0 /\ healthyRuns = 0 /\ attempts = 0

(* launch, called with no process held: nothing to run, a run() that throws *)
(* (its generation is spent all the same), or a child with its watchdog.    *)
Launch(before, ready) ==
  /\ UNCHANGED <<endpoint, told>>
  /\ \/ /\ state' = "failed" /\ process' = None /\ readyWatchdog' = FALSE
        /\ \/ generation' = generation /\ readyAt' = ready
           \/ generation < LaunchBound /\ generation' = generation + 1 /\ readyAt' = "none"
        /\ attempts' = before
        /\ UNCHANGED child
     \/ /\ generation < LaunchBound
        /\ generation' = generation + 1
        /\ child' = [child EXCEPT ![generation'] = "booting"]
        /\ process' = generation' /\ readyWatchdog' = TRUE /\ readyAt' = "none"
        /\ state' = "starting"
        /\ attempts' = before + 1

(* SIGTERM and a closed stdin for a child that still runs, and a SIGKILL    *)
(* two seconds later.                                                       *)
BeginTermination ==
  /\ told' = IF Runs THEN told \cup {process} ELSE told
  /\ killTasks' = IF Runs THEN killTasks \cup {process} ELSE killTasks

(* applicationDidFinishLaunching *)
Start ==
  /\ app = "opening"
  /\ app' = "up"
  /\ Launch(0, readyAt)
  /\ UNCHANGED <<consecutiveFailures, stopping, relaunchAfterStop, restartTask, killTasks, pipe, queue, bounds>>

(* Mutant: the restart that is due after a failure stays due. *)
RestartNowKeepsTask ==
  /\ app = "up" /\ userRestarts < MaxUserRestarts
  /\ userRestarts' = userRestarts + 1
  /\ consecutiveFailures' = 0
  /\ \/ process = None /\ stopping' = FALSE /\ Launch(0, readyAt) /\ UNCHANGED <<relaunchAfterStop, killTasks, restartTask>>
     \/ /\ process # None /\ stopping' = TRUE /\ relaunchAfterStop' = TRUE
        /\ readyWatchdog' = FALSE /\ BeginTermination
        /\ UNCHANGED <<shown, process, generation, restartTask, readyAt, child, attempts>>
  /\ UNCHANGED <<app, pipe, queue, healthyRuns>>

(* restartNow: the user asks, which forgives the failures so far. *)
RestartNow ==
  /\ app = "up" /\ userRestarts < MaxUserRestarts
  /\ userRestarts' = userRestarts + 1
  /\ consecutiveFailures' = 0
  /\ restartTask' = FALSE
  /\ \/ process = None /\ stopping' = FALSE /\ Launch(0, readyAt) /\ UNCHANGED <<relaunchAfterStop, killTasks>>
     \/ /\ process # None /\ stopping' = TRUE /\ relaunchAfterStop' = TRUE
        /\ readyWatchdog' = FALSE /\ BeginTermination
        /\ UNCHANGED <<shown, process, generation, readyAt, child, attempts>>
  /\ UNCHANGED <<app, pipe, queue, healthyRuns>>

(* The main actor takes its next task. *)
Takes(kind) ==
  /\ app = "up" /\ queue # <<>>
  /\ Head(queue) = Task(kind, generation)
  /\ queue' = Tail(queue)

(* A line of a child that has been replaced. *)
DropStale ==
  /\ app = "up" /\ queue # <<>> /\ Head(queue).gen # generation
  /\ queue' = Tail(queue)
  /\ UNCHANGED <<app, shown, held, controls, killTasks, os, bounds, attempts>>

(* Mutant: a ready line is believed whoever wrote it. *)
HandleReadyOfAny ==
  /\ app = "up" /\ queue # <<>> /\ Head(queue).kind = "ready"
  /\ queue' = Tail(queue)
  /\ readyWatchdog' = FALSE /\ readyAt' = "recent"
  /\ state' = "running" /\ endpoint' = Head(queue).gen
  /\ UNCHANGED <<app, held, stopping, relaunchAfterStop, restartTask, killTasks, os, bounds, attempts>>

(* handleReady, whatever became of the child meanwhile. *)
HandleReady ==
  /\ Takes("ready")
  /\ readyWatchdog' = FALSE /\ readyAt' = "recent"
  /\ state' = "running" /\ endpoint' = generation
  /\ UNCHANGED <<app, held, stopping, relaunchAfterStop, restartTask, killTasks, os, bounds, attempts>>

(* Mutant: being ready at all clears the record of failures. *)
ForgivenOnceReady == readyAt # "none"

(* The child stayed up long enough for its death to be a new incident. *)
Forgiven == readyAt = "long"

(* Mutant: the attempt cap is gone. *)
RetriesAlways(failures) == TRUE

Retries(failures) == failures < MaxFailures

(* handleExit: the process is torn down, with what its pipe still held, and *)
(* is launched again at once, after a delay, or never.                      *)
HandleExit ==
  /\ Takes("exit")
  /\ pipe' = pipe \ {generation}
  /\ \/ /\ stopping /\ relaunchAfterStop
        /\ stopping' = FALSE /\ relaunchAfterStop' = FALSE
        /\ restartTask' = FALSE
        /\ Launch(0, "none")
        /\ UNCHANGED consecutiveFailures
     \/ /\ ~stopping
        /\ consecutiveFailures' = IF Forgiven THEN 1 ELSE consecutiveFailures + 1
        /\ attempts' = IF readyAt = "long" THEN 0 ELSE attempts
        /\ process' = None /\ readyAt' = "none" /\ readyWatchdog' = FALSE
        /\ restartTask' = Retries(consecutiveFailures')
        /\ state' = IF Retries(consecutiveFailures') THEN "restarting" ELSE "failed"
        /\ UNCHANGED <<endpoint, generation, stopping, relaunchAfterStop, child, told>>
  /\ UNCHANGED <<app, killTasks, bounds>>

(* The backoff delay is over. *)
RestartTaskRuns ==
  /\ app = "up" /\ restartTask
  /\ restartTask' = FALSE
  /\ Launch(attempts, readyAt)
  /\ UNCHANGED <<app, consecutiveFailures, stopping, relaunchAfterStop, killTasks, pipe, queue, bounds>>

(* Mutant: the watchdog logs and leaves the child alone. *)
WatchdogLogs ==
  /\ app = "up" /\ readyWatchdog
  /\ readyWatchdog' = FALSE
  /\ UNCHANGED <<app, shown, held, stopping, relaunchAfterStop, restartTask, readyAt, killTasks, os, queue, bounds, attempts>>

(* readyTimeout has passed without a ready line. *)
WatchdogFires ==
  /\ app = "up" /\ readyWatchdog
  /\ readyWatchdog' = FALSE
  /\ BeginTermination
  /\ UNCHANGED <<app, shown, held, stopping, relaunchAfterStop, restartTask, readyAt, child, pipe, queue, bounds, attempts>>

Dies(g) ==
  /\ child' = [child EXCEPT ![g] = "dead"]
  /\ queue' = Append(queue, Task("exit", g))

(* Mutant: SIGKILL is never sent. *)
KillTaskSpares(g) ==
  /\ app = "up" /\ g \in killTasks
  /\ killTasks' = killTasks \ {g}
  /\ UNCHANGED <<app, shown, held, controls, os, queue, bounds, attempts>>

(* Two seconds after SIGTERM: a child that is still there is killed. *)
KillTask(g) ==
  /\ app = "up" /\ g \in killTasks
  /\ killTasks' = killTasks \ {g}
  /\ IF generation = g /\ Runs THEN Dies(g) ELSE UNCHANGED <<child, queue>>
  /\ UNCHANGED <<app, shown, held, controls, told, pipe, bounds, attempts>>

(* stopBlocking: the main thread waits for the child, which SIGTERM or      *)
(* SIGKILL ends.                                                            *)
Quit ==
  /\ app = "up"
  /\ app' = "gone"
  /\ child' = IF Runs THEN [child EXCEPT ![process] = "dead"] ELSE child
  /\ process' = None /\ readyAt' = "none" /\ state' = "idle"
  /\ stopping' = TRUE /\ relaunchAfterStop' = FALSE
  /\ restartTask' = FALSE /\ readyWatchdog' = FALSE /\ killTasks' = {}
  /\ UNCHANGED <<endpoint, generation, consecutiveFailures, told, pipe, queue, bounds, attempts>>

(* Mutant: the server does not watch its stdin. *)
AppDiesUnheard ==
  /\ app = "up"
  /\ app' = "gone"
  /\ UNCHANGED <<shown, held, controls, killTasks, os, queue, bounds, attempts>>

(* The app crashes or is killed: the kernel closes every child's stdin. *)
AppDies ==
  /\ app = "up"
  /\ app' = "gone"
  /\ told' = {g \in Generations : Lives(g)}
  /\ UNCHANGED <<shown, held, controls, killTasks, child, pipe, queue, bounds, attempts>>

(* healthyRuntime has passed since the ready line was handled. *)
Age ==
  /\ app = "up" /\ readyAt = "recent" /\ healthyRuns < MaxHealthyRuns
  /\ readyAt' = "long" /\ healthyRuns' = healthyRuns + 1
  /\ UNCHANGED <<app, shown, held, stopping, relaunchAfterStop, restartTask, readyWatchdog,
                 killTasks, os, queue, userRestarts, attempts>>

(* The server's listen callback prints the ready line; the shutdown that it *)
(* may have begun while preparing does not prevent that.                    *)
Listen(g) ==
  /\ child[g] = "booting"
  /\ child' = [child EXCEPT ![g] = "listening"]
  /\ pipe' = pipe \cup {g}
  /\ UNCHANGED <<app, shown, held, controls, killTasks, told, queue, bounds, attempts>>

(* The readability handler gets the line. *)
Read(g) ==
  /\ app = "up" /\ g \in pipe
  /\ pipe' = pipe \ {g}
  /\ queue' = Append(queue, Task("ready", g))
  /\ UNCHANGED <<app, shown, held, controls, killTasks, child, told, bounds, attempts>>

(* The server's event loop blocks: it hears neither SIGTERM nor EOF. *)
Wedge(g) ==
  /\ child[g] \in {"booting", "listening"}
  /\ child' = [child EXCEPT ![g] = "wedged"]
  /\ UNCHANGED <<app, shown, held, controls, killTasks, told, pipe, queue, bounds, attempts>>

Exits(g) ==
  /\ Dies(g)
  /\ UNCHANGED <<app, shown, held, controls, killTasks, told, pipe, bounds, attempts>>

(* The server's shutdown, within its five seconds. *)
ShutDown(g) == g \in told /\ child[g] \in {"booting", "listening"} /\ Exits(g)

(* process.exit(1), an uncaught error, a signal from elsewhere. *)
Crash(g) == Lives(g) /\ Exits(g)

Controller ==
  \/ HandleReady \/ HandleExit \/ DropStale
  \/ RestartTaskRuns \/ WatchdogFires
  \/ \E g \in Generations : KillTask(g)

Next ==
  \/ Start \/ RestartNow \/ Controller \/ Quit \/ AppDies \/ Age
  \/ \E g \in Generations : Listen(g) \/ Read(g) \/ Wedge(g) \/ ShutDown(g) \/ Crash(g)

Spec == Init /\ [][Next]_vars

(* The main actor serves its queue, sleeps end, and a server that was told  *)
(* to stop, and can hear it, does (its own timer exits after five seconds). *)
Fairness ==
  /\ WF_vars(HandleReady \/ HandleExit \/ DropStale)
  /\ WF_vars(RestartTaskRuns) /\ WF_vars(WatchdogFires)
  /\ \A g \in Generations : WF_vars(KillTask(g)) /\ WF_vars(ShutDown(g))

FairSpec == Spec /\ Fairness

-----------------------------------------------------------------------------
(* Every variable of the controller and of its children has its kind. *)
TypeOK ==
  /\ app \in {"opening", "up", "gone"}
  /\ state \in {"idle", "starting", "running", "restarting", "failed"} /\ endpoint \in 0..generation
  /\ generation \in 0..LaunchBound /\ process \in {None, generation}
  /\ consecutiveFailures \in 0..MaxFailures
  /\ stopping \in BOOLEAN /\ relaunchAfterStop \in BOOLEAN
  /\ restartTask \in BOOLEAN /\ readyWatchdog \in BOOLEAN
  /\ readyAt \in {"none", "recent", "long"}
  /\ child \in [Generations -> {"unborn", "dead"} \cup Living]
  /\ killTasks \subseteq Generations /\ told \subseteq Generations /\ pipe \subseteq Generations
  /\ queue \in Seq([kind : {"ready", "exit"}, gen : Generations])
  /\ userRestarts \in 0..MaxUserRestarts /\ healthyRuns \in 0..MaxHealthyRuns /\ attempts \in Nat

(* Restarts asked for by the user, due after a failure, or caused by the    *)
(* watchdog never leave two servers on one data directory.                  *)
OneSidecar == Cardinality({g \in Generations : Lives(g)}) <= 1

(* The controller holds every child that lives, and the death of the one it *)
(* holds is on its way to it.                                               *)
DeathsAreNoticed ==
  app = "up" =>
    /\ \A g \in Generations : Lives(g) => g = process
    /\ process # None /\ ~Lives(process) => Task("exit", process) \in {queue[i] : i \in DOMAIN queue}

(* While a process is held, the port in the window is that process's own:   *)
(* not the one of a server it replaced.                                     *)
EndpointIsCurrent == state = "running" /\ process # None => endpoint = process

(* A crash loop ends: no more than maxConsecutiveFailures launches without  *)
(* a healthy run or a request by the user.                                  *)
CrashLoopEnds == attempts <= MaxFailures

(* The window does not say "starting" or "restarting" for ever, even with a *)
(* server that hangs before it listens or ignores SIGTERM.                  *)
WindowSettles ==
  state \in {"starting", "restarting"} ~> (state \in {"running", "failed"} \/ app = "gone")

(* A restart the user asked for is carried out. *)
RestartHappens == relaunchAfterStop ~> (~relaunchAfterStop \/ app = "gone")

(* No server whose event loop runs outlives the app ("no orphan is left").  *)
NoOrphan == app = "gone" ~> \A g \in Generations : child[g] \notin {"booting", "listening"}
=============================================================================
