-------------------------------- MODULE MCAsk --------------------------------
(* Instance of Ask: a VECTOR tool that must bring evidence and an external   *)
(* tool, or only tools the service does not know.  The fallback plan's stop  *)
(* conditions, or the two an LLM is most likely to write.                    *)
EXTENDS Ask

CONSTANTS vec, ext

MCCandidateLists == {<<vec, ext>>, <<>>}
\* What the external service sends: an item of its own and one passed off as a
\* hybrid answer of the other tool.
Own     == [tool |-> ext, src |-> <<ext>>, priority |-> 5, ok |-> TRUE]
Claimed == [tool |-> vec, src |-> <<vec>>, priority |-> 1, ok |-> TRUE]
MCReplies == {<<Own, Claimed>>}
MCStopLists == {{"evidence", "step_budget"}, {"coverage", "binding"}}
=============================================================================
