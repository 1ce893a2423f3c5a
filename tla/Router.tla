-------------------------------- MODULE Router --------------------------------
(***************************************************************************)
(* The choice of a strategy (router.py): an intent, what the profile       *)
(* allows and which tools are healthy give a strategy and its tools.  The  *)
(* choice goes into the trace; what an ask does follows its plan.          *)
(*                                                                         *)
(* Tools are sets: their order and what is recorded of each are layout.    *)
(* The intent is what an LLM, or the words of the query, may say.          *)
(***************************************************************************)
EXTENDS Integers, Sequences, SequencesExt

CONSTANTS
  Tool,             \* the enabled tools that TOOLS.md lists
  Prefix,           \* prefix_for_tool of each
  External,         \* those of type external_mcp
  Allowed,          \* profile.allowed_strategies
  FallbackOrder,    \* profile.fallback_order
  PreferHybridCot   \* profile.hybrid_preference.prefer_hybridcot

Strategy == {"STR_V", "STR_G", "STR_H", "STR_HCOT", "STR_E_FJ_H", "STR_FALLBACK_V"}
Intent   == {"external", "relation", "citation", "hybridcot", "unknown"}

ASSUME RouterAssumption ==
  /\ Prefix \in [Tool -> {"VECTOR:", "GRAPH:", "HYBRID:", "HYBRIDCOT:", "SQL:", "none"}]
  /\ External \subseteq Tool
  /\ Allowed \subseteq Strategy /\ Allowed # {}
  /\ FallbackOrder \in Seq(Strategy)
  /\ PreferHybridCot \in BOOLEAN

ByPrefix(prefix) == {t \in Tool : Prefix[t] = prefix}

\* The prefix whose tools a strategy runs.
PrefixOf(s) ==
  CASE s \in {"STR_V", "STR_FALLBACK_V"} -> "VECTOR:"
    [] s = "STR_G"                       -> "GRAPH:"
    [] s \in {"STR_H", "STR_E_FJ_H"}     -> "HYBRID:"
    [] s = "STR_HCOT"                    -> "HYBRIDCOT:"

Externals(s) == IF s = "STR_E_FJ_H" THEN External ELSE {}

\* _selected_tools, and the required_tool_ids of _strategy_tools_healthy.
Selected(s) == ByPrefix(PrefixOf(s)) \union Externals(s)
RequiredByPrefix(s) == ByPrefix(PrefixOf(s))           \* mutant: externals not asked for
Required(s) == ByPrefix(PrefixOf(s)) \union Externals(s)

\* select_strategy before the profile and the tools' health are looked at.
Preferred(intent, needExternal) ==
  CASE needExternal \/ intent = "external"          -> "STR_E_FJ_H"
    [] ~needExternal /\ intent = "relation"         -> "STR_G"
    [] ~needExternal /\ intent = "citation"         -> "STR_V"
    [] ~needExternal /\ intent = "hybridcot" /\ PreferHybridCot -> "STR_HCOT"
    [] OTHER                                        -> "STR_H"

\* _fallback_strategy: the last resort is any element of a set.
FallbacksAsListed ==                                   \* mutant: not tested against allowed
  IF FallbackOrder # <<>> THEN {FallbackOrder[1]} ELSE Allowed
FirstAllowed ==
  {i \in DOMAIN FallbackOrder :
     /\ FallbackOrder[i] \in Allowed
     /\ \A j \in 1..(i - 1) : FallbackOrder[j] \notin Allowed}
Fallbacks ==
  IF FirstAllowed # {} THEN {FallbackOrder[i] : i \in FirstAllowed}
  ELSE IF "STR_FALLBACK_V" \in Allowed THEN {"STR_FALLBACK_V"} ELSE Allowed

Restricted(s) == IF s \in Allowed THEN {s} ELSE Fallbacks
=============================================================================
