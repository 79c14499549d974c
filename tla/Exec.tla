--------------------------------- MODULE Exec ---------------------------------
(***************************************************************************)
(* Commands in a workspace: a host directory or a container.               *)
(*   packages/workspace/src/local.ts, docker.ts, types.ts                  *)
(*                                                                         *)
(* A command is a shell and what it starts: in its process group or out of *)
(* it (setsid), and holding the pipe that exec reads or quiet, its output  *)
(* sent elsewhere.  On the host exec returns when nobody holds the pipe.   *)
(* For a container it waits for the docker client, which is what the       *)
(* timeout kills; the command goes on.                                     *)
(***************************************************************************)
EXTENDS Naturals

CONSTANT Commands

VARIABLES
  backing,        \* "local" or "docker"
  started,        \* what the workspace knows: that it was started
  leaving,        \* a dispose has had its answer from docker rm
  container,      \* "none", "running" or "paused": the one of this name
  command,        \* each exec, its processes, and whether its timer has fired
  earlier         \* history variable: commands called before the container was last forgotten

vars == <<backing, started, leaving, container, command, earlier>>

Group == {"shell", "child", "quiet child"}
Holding == {"shell", "child", "escaped"}
Processes == Group \cup Holding \cup {"quiet escaped"}
NotRun == [at |-> "idle", alive |-> {}, client |-> FALSE, timedOut |-> FALSE, exit |-> 0]

TypeOK ==
  /\ backing \in {"local", "docker"} /\ started \in BOOLEAN /\ leaving \in BOOLEAN
  /\ container \in {"none", "running", "paused"} /\ earlier \subseteq Commands
  /\ command \in [Commands -> [at : {"idle", "running", "over"}, alive : SUBSET Processes,
                               client : BOOLEAN, timedOut : BOOLEAN, exit : {0, 1, 124}]]

Init ==
  /\ backing \in {"local", "docker"} /\ started = FALSE /\ leaving = FALSE
  /\ container = "none" /\ earlier = {}
  /\ command = [k \in Commands |-> NotRun]

(* Mutant: the exit code of docker run is not looked at, and a container of *)
(* the name, if there is one, is taken for the new one.                     *)
StartAnyway ==
  /\ ~started
  /\ \/ backing = "local" /\ started' = TRUE /\ UNCHANGED container
     \/ /\ backing = "docker" /\ started' \in BOOLEAN
        /\ container' = IF container = "none" THEN "running" ELSE container
  /\ UNCHANGED <<backing, leaving, command, earlier>>

(* start: docker run, which refuses while there is a container of the name  *)
(* (the start throws), and which may fail when the container is made.       *)
StartWorkspace ==
  /\ ~started
  /\ \/ backing = "local" /\ started' = TRUE /\ UNCHANGED container
     \/ backing = "docker" /\ container = "none" /\ container' = "running" /\ started' \in BOOLEAN
  /\ UNCHANGED <<backing, leaving, command, earlier>>

(* exec: nothing runs when the shell or the docker client cannot be started *)
(* or docker refuses, as it does when the container is paused or gone.      *)
RunCommand(k) ==
  /\ command[k].at = "idle" /\ started
  /\ \/ command' = [command EXCEPT ![k] = [NotRun EXCEPT !.at = "over", !.exit = 1]]
     \/ /\ backing = "local" \/ container = "running"
        /\ command' = [command EXCEPT ![k] =
             [NotRun EXCEPT !.at = "running", !.alive = {"shell"}, !.client = (backing = "docker")]]
  /\ UNCHANGED <<backing, started, leaving, container, earlier>>

(* What p can start: a group or a pipe that is left is not found again.     *)
Starts(p) == {q \in Processes \ {"shell"} : (q \in Group => p \in Group) /\ (q \in Holding => p \in Holding)}

(* A process starts another, or ends.                                       *)
Lives(k) ==
  /\ container # "paused"
  /\ \E p \in command[k].alive :
       \/ \E q \in Starts(p) : command' = [command EXCEPT ![k].alive = @ \cup {q}]
       \/ command' = [command EXCEPT ![k].alive = @ \ {p}]
  /\ UNCHANGED <<backing, started, leaving, container, earlier>>

(* killTree.                                                                *)
KillTree(alive) == alive \ Group

(* The timer: the group is killed, or the docker client and nothing else.   *)
TimerFires(k) ==
  /\ command[k].at = "running" /\ ~command[k].timedOut
  /\ command' = [command EXCEPT ![k] =
       IF backing = "local" THEN [@ EXCEPT !.timedOut = TRUE, !.alive = KillTree(command[k].alive)]
       ELSE [@ EXCEPT !.timedOut = TRUE, !.client = FALSE]]
  /\ UNCHANGED <<backing, started, leaving, container, earlier>>

(* close: exec returns, with 124 if the timer has fired, however it ended.  *)
(* The docker client ends with the shell, or was killed.                    *)
Close(k) ==
  /\ command[k].at = "running"
  /\ IF backing = "local" THEN command[k].alive \cap Holding = {}
     ELSE "shell" \notin command[k].alive \/ ~command[k].client
  /\ \E code \in {0, 1} :
       command' = [command EXCEPT ![k].at = "over", ![k].client = FALSE,
                                  ![k].exit = IF command[k].timedOut THEN 124 ELSE code]
  /\ UNCHANGED <<backing, started, leaving, container, earlier>>

(* suspend and resume: a container is frozen; on the host nothing happens.  *)
Suspend ==
  /\ started /\ container = "running" /\ container' = "paused"
  /\ UNCHANGED <<backing, started, leaving, command, earlier>>

Resume ==
  /\ started /\ container = "paused" /\ container' = "running"
  /\ UNCHANGED <<backing, started, leaving, command, earlier>>

(* dispose, of a container: it is unpaused, and removed with all that runs  *)
(* in it.  Either can fail, and nobody looks.                               *)
Remove ==
  /\ backing = "docker" /\ started /\ leaving' = TRUE
  /\ \/ container' = "none" /\ command' = [k \in Commands |-> [command[k] EXCEPT !.alive = {}]]
     \/ container # "none" /\ container' \in {container, "running"} /\ UNCHANGED command
  /\ UNCHANGED <<backing, started, earlier>>

(* dispose, at its end: the workspace forgets that it was started.          *)
Forget ==
  /\ started /\ (backing = "local" \/ leaving) /\ started' = FALSE /\ leaving' = FALSE
  /\ earlier' = {k \in Commands : command[k].at # "idle"}
  /\ UNCHANGED <<backing, container, command>>

Next ==
  \/ StartWorkspace \/ Suspend \/ Resume \/ Remove \/ Forget
  \/ \E k \in Commands : RunCommand(k) \/ Lives(k) \/ TimerFires(k) \/ Close(k)

Spec == Init /\ [][Next]_vars

-----------------------------------------------------------------------------
(* "An agent harness must be able to stop a runaway command": on the host,  *)
(* what is left of a command whose timer has fired has left its group, and  *)
(* of one whose exec has returned, let go of its output.                    *)
LeftoversLetGo ==
  backing = "local" => \A k \in Commands :
    /\ command[k].timedOut => command[k].alive \cap Group = {}
    /\ command[k].at = "over" => command[k].alive \cap Holding = {}

(* A container's commands run on after their timeout and after a dispose    *)
(* that failed to remove it - but then the workspace cannot be started: one *)
(* that is started has nothing running in it that was called before.        *)
StartsAreFresh ==
  backing = "docker" /\ started => \A k \in earlier : command[k].alive = {}

CommandsAreBounded == LeftoversLetGo /\ StartsAreFresh
==============================================================================
