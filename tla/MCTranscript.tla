----------------------------- MODULE MCTranscript -----------------------------
(* An instance of Transcript: outputs are large enough for a few to pass the *)
(* limit, and the tail short enough for steps to fall outside it.            *)
EXTENDS Transcript, TLC

MCSize == [text |-> 1, file |-> 1, bytes |-> 2, missing |-> 1, reasoning |-> 1, call |-> 1,
           small |-> 1, big |-> 5, note |-> 1, summary |-> 1]
MCKeepRecent == 3
MCMaxTokens == 8
MCSummaryWords == 1
MCMaxMessages == 3
MCMaxCalls == 3
MCParallel == 2
==============================================================================
