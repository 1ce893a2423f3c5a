----------------------------- MODULE MCToolHealth -----------------------------
(* Instance of ToolHealth: a HYBRID tool and an external one, a profile that *)
(* lists a fallback it does not allow.                                       *)
EXTENDS ToolHealth

CONSTANTS x, y, hyb, ext

MCPrefix == [t \in Tool |-> IF t = hyb THEN "HYBRID:" ELSE "none"]
MCFallbackOrder == <<"STR_V", "STR_H">>
=============================================================================
