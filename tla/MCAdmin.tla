------------------------------- MODULE MCAdmin -------------------------------
(* Instances of Administration: the raw texts are a port that is no number,  *)
(* TLS without its files, and a sound TOOLS.md with the line ends of an      *)
(* editor or of a browser.                                                   *)
EXTENDS Administration

CONSTANTS a1, a2
Entry(target, port, rest, layout) ==
  [target |-> target, text |-> [port |-> port, rest |-> rest, layout |-> layout]]
MCTyped ==
  {Entry("config", NotInt, "edited", "hand"), Entry("config", None, "unservable", "hand"),
   Entry("tools", None, "edited", "hand"), Entry("tools", None, "edited", "crlf")}
=============================================================================
