----------------------------- MODULE MCToolCalls -----------------------------
(* Instances of ToolCalls: a HybridRAG and an external tool on one URL, with *)
(* three calls for its two permits, and a HybridRAG tool on another URL.     *)
EXTENDS ToolCalls, TLC

CONSTANTS c1, c2, c3, c4, vec, ext, graph, u, w

MCToolOf == (c1 :> vec) @@ (c2 :> vec) @@ (c3 :> ext) @@ (c4 :> graph)
MCUrlOf  == (vec :> u) @@ (ext :> u) @@ (graph :> w)
=============================================================================
