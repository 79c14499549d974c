---------------------------- MODULE ExternalTools ----------------------------
(***************************************************************************)
(* The tools of a session that reach outside: MCP servers (extended here), *)
(* connectors and the browser.                                             *)
(*   packages/session/src/manager.ts   build                               *)
(*                                                                         *)
(* They share no state: inUse says which of them a behaviour is about, and *)
(* the others stand as they were in the beginning.  The states are the sum *)
(* of theirs and not the product.                                          *)
(***************************************************************************)
EXTENDS McpTools

CONSTANTS Calls, SignIns, MaxIssued, MaxExpiries, Browsing

ASSUME BrowsingAssumption == IsFiniteSet(Browsing)

VARIABLES
  inUse,
  provider, live, issued, expiries, row, signIn, call, allowed, sent, lost,
  browser, launched, open, shots, shotFile, browserCall, crowded, spilled

connectorVars == <<provider, live, issued, expiries, row, signIn, call, allowed, sent, lost>>
browserVars == <<browser, launched, open, shots, shotFile, browserCall, crowded, spilled>>

C == INSTANCE Connectors
B == INSTANCE Browser
       WITH Calls <- Browsing, session <- browser, file <- shotFile, call <- browserCall

(* A tool that is not in use begins in one of its initial states only.      *)
Begins(name, init, one) == init /\ (inUse = name \/ one)

ExternalInit ==
  /\ inUse \in {"mcp", "connectors", "browser"}
  /\ Begins("mcp", Init, \A t, u \in Tools : offered[t] = offered[u])
  /\ Begins("connectors", C!Init, provider = CHOOSE p \in C!Providers : TRUE)
  /\ Begins("browser", B!Init, \A c \in Browsing : browserCall[c].op = "close")

McpSteps == inUse = "mcp" /\ Next /\ UNCHANGED <<inUse, connectorVars, browserVars>>
ConnectorSteps == inUse = "connectors" /\ C!Next /\ UNCHANGED <<inUse, vars, browserVars>>
BrowserSteps == inUse = "browser" /\ B!Next /\ UNCHANGED <<inUse, vars, connectorVars>>

ExternalSpec ==
  /\ ExternalInit
  /\ [][McpSteps \/ ConnectorSteps \/ BrowserSteps]_<<inUse, vars, connectorVars, browserVars>>

-----------------------------------------------------------------------------
(* What each module states of its tool, beside McpTools' own.               *)
(* A connection keeps a refresh token that the provider accepts.            *)
ConnectionLasts == C!ConnectionLasts

(* Nothing is sent for a call but what the user allowed for it.             *)
SendsAreAllowed == C!SendsAreAllowed

(* A browser that runs can be closed, and a result's screenshot is the one  *)
(* its call took.                                                           *)
BrowserIsAccountedFor == B!BrowsersCanBeClosed /\ B!ShotsAreTheirOwn
==============================================================================
