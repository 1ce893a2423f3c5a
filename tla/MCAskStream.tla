----------------------------- MODULE MCAskStream -----------------------------
(* Instances of AskStream.                                                   *)
EXTENDS AskStream
=============================================================================
