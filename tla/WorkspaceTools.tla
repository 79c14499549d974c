---------------------------- MODULE WorkspaceTools ----------------------------
(***************************************************************************)
(* The tools of a session that work in its workspace: files (extended      *)
(* here), documents, Python, and the commands that all of them run.        *)
(*   packages/session/src/manager.ts   build                               *)
(*                                                                         *)
(* They meet in the workspace's files, which each of them sees its own     *)
(* part of: /.render and the scripts are nobody else's.  inUse says which  *)
(* of them a behaviour is about, and the others stand as they were in the  *)
(* beginning.  The states are the sum of theirs and not the product.       *)
(***************************************************************************)
EXTENDS FileTools

CONSTANTS
  Documented, Paths, Bases, BaseOf, Longer, Nobody, Lengths, MaxPages, MaxJudged, CanRasterise,
  Scripted, Labels, Files, Commands

(* A document has a page at least, and so has a render.                     *)
ASSUME DocumentAssumption ==
  /\ Nobody \notin Documented /\ BaseOf \in [Paths -> Bases] /\ Longer \in [Bases -> SUBSET Bases]
  /\ Lengths \cup {MaxPages} \subseteq Nat \ {0} /\ MaxJudged \in Nat

(* Scripts are in a directory of their own.                                 *)
ASSUME PythonAssumption == Files \cap Labels = {}

VARIABLES
  inUse,
  document, pictures, pdf, documentCall, met, stale, cut,
  script, files, pythonCall, made, shared, busy, blurred,
  backing, started, leaving, container, command, earlier

documentVars == <<document, pictures, pdf, documentCall, met, stale, cut>>
pythonVars == <<script, files, pythonCall, made, shared, busy, blurred>>
execVars == <<backing, started, leaving, container, command, earlier>>

D == INSTANCE Documents WITH Calls <- Documented, call <- documentCall
P == INSTANCE Python WITH Calls <- Scripted, call <- pythonCall
E == INSTANCE Exec

(* A tool that is not in use begins in one of its initial states only.      *)
Begins(name, init, one) == init /\ (inUse = name \/ one)

WorkspaceInit ==
  /\ inUse \in {"files", "documents", "python", "exec"}
  /\ Begins("files", Init, file = Absent)
  /\ Begins("documents", D!Init, \A c \in Documented :
       <<documentCall[c].path, documentCall[c].length>> = CHOOSE doc \in Paths \X Lengths : TRUE)
  /\ Begins("python", P!Init, \A c \in Scripted : pythonCall[c].label = CHOOSE l \in Labels : TRUE)
  /\ Begins("exec", E!Init, backing = "local")

FileSteps == inUse = "files" /\ Next /\ UNCHANGED <<inUse, documentVars, pythonVars, execVars>>
DocumentSteps == inUse = "documents" /\ D!Next /\ UNCHANGED <<inUse, vars, pythonVars, execVars>>
PythonSteps == inUse = "python" /\ P!Next /\ UNCHANGED <<inUse, vars, documentVars, execVars>>
ExecSteps == inUse = "exec" /\ E!Next /\ UNCHANGED <<inUse, vars, documentVars, pythonVars>>

WorkspaceSpec ==
  /\ WorkspaceInit
  /\ [][FileSteps \/ DocumentSteps \/ PythonSteps \/ ExecSteps]_
       <<inUse, vars, documentVars, pythonVars, execVars>>

-----------------------------------------------------------------------------
(* What each module states of its tool, beside FileTools' own.              *)
(* A document that passes was judged on its own pages, all that fit.        *)
PassIsEarned == D!PassIsEarned

(* The pages judged are the document's own.                                 *)
JudgedOnItsOwn == D!JudgedOnItsOwn

(* A Python call runs the code it was given and claims what that made.      *)
AnswersForItsCode == P!AnswersForItsCode

(* What runs on of a command has let go of it, and a container that is      *)
(* started begins with none.                                                *)
CommandsAreBounded == E!CommandsAreBounded
==============================================================================
