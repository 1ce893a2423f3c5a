----------------------------- MODULE MCProfiling -----------------------------
(* Instances of Profiling: a tool without a summary, one with, an external.  *)
EXTENDS Profiling, TLC

CONSTANTS vec, graph, ext, ask, chat, forced

MCEnabled == <<vec, graph, ext>>
MCTarget  == [r \in Req |-> IF r \in Forced THEN {vec} ELSE {}]
MCNoTarget == [r \in Req |-> {}]
=============================================================================
