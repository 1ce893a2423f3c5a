----------------------------- MODULE ConfigEditor -----------------------------
(***************************************************************************)
(* The configuration page (admin/config_editor.py): administrators edit    *)
(* the runtime fields of config.yaml in a form, or config.yaml, TOOLS.md   *)
(* and the profiles as raw text.  A submission reads the file again,       *)
(* validates, and writes when it applies, all on the event loop of the     *)
(* service: nothing comes between but a crash, which leaves the file empty *)
(* when it falls into write_text.                                          *)
(*                                                                         *)
(* What is submitted is judged by the validators of config_editor.py, in   *)
(* the service that shows the page; what is on disk by the loaders of      *)
(* config.py, in the next service, with that one's environment.            *)
(*                                                                         *)
(* A file is its port, for the runtime fields, the rest of it, and how it  *)
(* is laid out: written by hand, by yaml.safe_dump, or with the CRLF line  *)
(* ends of a browser's text area, which read_text turns into those of a    *)
(* file written by hand.  The rest of a file may be "unservable": sound,   *)
(* but main.py does not start with it (TLS without its files).             *)
(***************************************************************************)
EXTENDS Naturals

CONSTANTS
  Admin,        \* the administrators, each with a page
  Port,         \* the ports that get configured
  EnvPort,      \* what REFERENCE_AGENT_PORT may be at a start: ports, or None
  Typed,        \* bound: the raw texts that are submitted, each with its target
  NotInt,       \* an entry that is no integer
  None

Target == {"config", "tools", "profile"}
Rest   == {"initial", "edited", "unservable", "invalid", "empty"}
Layout == {"hand", "dump", "crlf"}
Text   == [port : Port \union {None, NotInt}, rest : Rest, layout : Layout]
Empty  == [port |-> None, rest |-> "empty", layout |-> "hand"]

\* Assumed by the module that instantiates this one.
ConfigEditorAssumption ==
  /\ EnvPort \subseteq Port \union {None} /\ EnvPort # {}
  /\ Typed \subseteq [target : Target, text : Text]
  /\ NotInt \notin Port \union {None} /\ None \notin Port
  /\ None \notin [admin : Admin, target : Target, text : Text, changed : BOOLEAN]

VARIABLES
  disk,         \* the files
  writing,      \* the submission that is in write_text, or None
  page,         \* what each page says of a restart: required "yes", "no", or nothing
  running,      \* the files as the service that came up last has loaded them
  env           \* and its REFERENCE_AGENT_PORT

editor == <<disk, writing, page, running, env>>

-----------------------------------------------------------------------------
Sound(text) == text.rest \in {"initial", "edited", "unservable"}

\* What load_config, load_tools_md and load_profiles read: the environment's port
\* overrides the one of the file, and line ends are as they should be.
Loads(port, target, text) ==
  /\ Sound(text)
  /\ target = "config" => port # None \/ text.port # NotInt

\* What is submitted: validate_config_data without an environment, Profile(**data),
\* and the pattern of _extract_tools_yaml, which asks for "```yaml\n".
ValidAsLoaded(target, text) == Loads(env, target, text)  \* mutant: load_config's overrides
Valid(target, text) ==
  /\ Sound(text)
  /\ target = "config" => text.port # NotInt
  /\ target = "tools" => text.layout # "crlf"

\* What main.py can start with.
Servable == disk["config"].rest # "unservable"

ReadText(text) == [text EXCEPT !.layout = IF @ = "crlf" THEN "hand" ELSE @]

-----------------------------------------------------------------------------
Init ==
  /\ disk = [t \in Target |-> [port |-> None, rest |-> "initial", layout |-> "hand"]]
  /\ writing = None
  /\ page = [a \in Admin |-> "unsaid"]
  /\ running = disk
  /\ env \in EnvPort

\* A service comes up.
Load(port) ==
  /\ running' = disk /\ env' = port
  /\ UNCHANGED <<disk, writing, page>>

\* build_configuration_page_model loads the configuration.
OpenPage(a) ==
  /\ writing = None /\ Loads(env, "config", disk["config"])
  /\ page' = [page EXCEPT ![a] = "unsaid"]
  /\ UNCHANGED <<disk, writing, running, env>>

\* _build_preview.  A write empties the file first.
Preview(a, target, text, apply) ==
  LET changed == ReadText(disk[target]) # text
      wanted  == [admin |-> a, target |-> target, text |-> text, changed |-> changed]
  IN  IF apply /\ Valid(target, text)
      THEN /\ disk' = [disk EXCEPT ![target] = Empty]
           /\ writing' = wanted
           /\ UNCHANGED <<page, running, env>>
      ELSE /\ page' = [page EXCEPT ![a] =
                IF ~Valid(target, text) THEN "invalid" ELSE IF changed THEN "yes" ELSE "no"]
           /\ UNCHANGED <<disk, writing, running, env>>

\* preview_structured_runtime: the runtime fields of the form go into the file as it
\* is now, however old the page.
Structured(a, port, apply) ==
  /\ Loads(env, "config", disk["config"])
  /\ IF port = NotInt
     THEN /\ page' = [page EXCEPT ![a] = "invalid"]
          /\ UNCHANGED <<disk, writing, running, env>>
     ELSE Preview(a, "config",
                  [port |-> port, rest |-> disk["config"].rest, layout |-> "dump"], apply)

\* preview_raw_edit: the whole file as submitted, by a browser or otherwise.
Raw(a, target, text, apply) == Preview(a, target, text, apply)

\* handle_configuration_submission
Submit(a) ==
  /\ writing = None
  /\ \E apply \in BOOLEAN :
       \/ \E port \in Port \union {NotInt} : Structured(a, port, apply)
       \/ \E typed \in Typed : Raw(a, typed.target, typed.text, apply)

\* The rest of write_text, and the page that tells of it.
EndWrite(w) ==
  /\ disk' = [disk EXCEPT ![w.target] = w.text]
  /\ writing' = None
  /\ page' = [page EXCEPT ![w.admin] = IF w.changed THEN "yes" ELSE "no"]
  /\ UNCHANGED <<running, env>>

\* The service dies, in write_text or not.
CutShort == writing' = None /\ UNCHANGED <<disk, page, running, env>>

BeginEdit == \E a \in Admin : OpenPage(a) \/ Submit(a)
EndEdit == writing # None /\ EndWrite(writing)

Next == BeginEdit \/ EndEdit \/ CutShort \/ \E port \in EnvPort : Load(port)

Spec == Init /\ [][Next]_editor

-----------------------------------------------------------------------------
TypeOK ==
  /\ disk \in [Target -> Text]
  /\ writing \in [admin : Admin, target : Target, text : Text, changed : BOOLEAN]
                   \union {None}
  /\ page \in [Admin -> {"unsaid", "invalid", "yes", "no"}]
  /\ running \in [Target -> Text]
  /\ env \in EnvPort

(* Whatever is submitted, and whatever the environment it was validated in:  *)
(* a file is one that every next start can load, or a crash has fallen into  *)
(* its write and left it empty.                                              *)
FilesLoad ==
  \A t \in Target : disk[t] = Empty \/ \A port \in EnvPort : Loads(port, t, disk[t])
=============================================================================
