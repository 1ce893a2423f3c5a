------------------------- MODULE AdministrationProofs -------------------------
(***************************************************************************)
(* Proofs about the administration: the files an administrator edits, and  *)
(* what the scripts and the PID file say of the service.                   *)
(*                                                                         *)
(* Every step of AdminNext is one of ServiceControl, or none, beside one   *)
(* of ConfigEditor, or none (ControlSteps, EditorSteps); what a submission *)
(* does to the files is the lemma Edits.                                   *)
(***************************************************************************)
EXTENDS Administration, ServiceControlProofs

Submission == [admin : Admin, target : Editor!Target, text : Editor!Text, changed : BOOLEAN]
Said       == {"unsaid", "invalid", "yes", "no"}

-----------------------------------------------------------------------------
LEMMA ControlSteps == AdminNext => Next \/ UNCHANGED control
<1> SUFFICES ASSUME AdminNext
             PROVE  Next \/ UNCHANGED control
  OBVIOUS
<1>1. ASSUME NEW p \in Pid, ComesUp(p)
      PROVE  Next
  <2>1. PICK port \in EnvPort :
          Boot(p, Editor!Servable /\ \A t \in Editor!Target : Editor!Loads(port, t, disk[t]))
    BY <1>1 DEF ComesUp
  <2>2. (Editor!Servable /\ \A t \in Editor!Target : Editor!Loads(port, t, disk[t]))
          \in BOOLEAN
    OBVIOUS
  <2>3. \E serves \in BOOLEAN : Boot(p, serves)
    BY <2>1, <2>2
  <2> QED  BY <2>3 DEF Next
<1>2. ASSUME NEW p \in Pid, EditPage(p)
      PROVE  Next \/ UNCHANGED control
  <2>1. BeginPage(p) \/ UNCHANGED control
    BY <1>2 DEF EditPage
  <2> QED  BY <2>1 DEF Next
<1>3. ASSUME NEW p \in Pid, PageWritten(p) \/ GoesDown(p)
      PROVE  Next
  <2>1. EndPage(p) \/ Crash(p)
    BY <1>3 DEF PageWritten, GoesDown
  <2> QED  BY <2>1 DEF Next
<1> QED  BY <1>1, <1>2, <1>3 DEF AdminNext, Next

LEMMA EditorSteps == AdminNext => Editor!Next \/ UNCHANGED editor
<1> SUFFICES ASSUME AdminNext
             PROVE  Editor!Next \/ UNCHANGED editor
  OBVIOUS
<1>1. ASSUME NEW p \in Pid, ComesUp(p)
      PROVE  UNCHANGED editor \/ \E port \in EnvPort : Editor!Load(port)
  BY <1>1 DEF ComesUp
<1>2. ASSUME NEW p \in Pid, EditPage(p) \/ PageWritten(p) \/ GoesDown(p)
      PROVE  UNCHANGED editor \/ Editor!BeginEdit \/ Editor!EndEdit \/ Editor!CutShort
  BY <1>2 DEF EditPage, PageWritten, GoesDown
<1> QED  BY <1>1, <1>2 DEF AdminNext, Editor!Next

\* The administration adds to the service control and takes nothing from it.
LEMMA AdministrationControls == AdminSpec => Spec
<1>1. AdminInit => Init
  BY DEF AdminInit
<1>2. [AdminNext]_vars => [Next]_control
  BY ControlSteps DEF vars, control
<1> QED  BY <1>1, <1>2, PTL DEF AdminSpec, Spec

(* The composition is one of its parts with the other beside it: it takes no *)
(* step that is not one of ServiceControl, or none, and one of ConfigEditor, *)
(* or none.                                                                  *)
THEOREM AdministrationComposes == AdminSpec => Spec /\ Editor!Spec
<1>1. AdminInit => Editor!Init
  BY DEF AdminInit
<1>2. [AdminNext]_vars => [Editor!Next]_(Editor!editor)
  BY EditorSteps DEF vars, editor, Editor!editor
<1>3. AdminSpec => Editor!Spec
  BY <1>1, <1>2, PTL DEF AdminSpec, Editor!Spec
<1> QED  BY <1>3, AdministrationControls, PTL

-----------------------------------------------------------------------------
\* What a page changes: nothing but what it says, or it begins to write what is valid.
Says ==
  UNCHANGED <<disk, writing, running, env>> /\ page' \in [Admin -> Said]

Writes(w) ==
  /\ Editor!Valid(w.target, w.text)
  /\ disk' = [disk EXCEPT ![w.target] = Editor!Empty]
  /\ writing' = w
  /\ UNCHANGED <<page, running, env>>

LEMMA Previews ==
  ASSUME Editor!TypeOK, NEW a \in Admin, NEW target \in Editor!Target,
         NEW text \in Editor!Text, NEW apply \in BOOLEAN,
         Editor!Preview(a, target, text, apply)
  PROVE  Says \/ \E w \in Submission : Writes(w)
<1> DEFINE changed == Editor!ReadText(disk[target]) # text
           w == [admin |-> a, target |-> target, text |-> text, changed |-> changed]
<1>1. changed \in BOOLEAN
  OBVIOUS
<1>2. w \in Submission /\ w.target = target /\ w.text = text
  BY <1>1 DEF Submission
<1>3. CASE apply /\ Editor!Valid(target, text)
  <2>1. /\ disk' = [disk EXCEPT ![target] = Editor!Empty]
        /\ writing' = w
        /\ UNCHANGED <<page, running, env>>
    BY <1>3 DEF Editor!Preview
  <2> QED  BY <1>2, <1>3, <2>1 DEF Writes
<1>4. CASE ~(apply /\ Editor!Valid(target, text))
  BY <1>4 DEF Editor!Preview, Editor!TypeOK, Says, Said
<1> QED  BY <1>3, <1>4

LEMMA Edits ==
  ASSUME Editor!TypeOK, Editor!BeginEdit
  PROVE  Says \/ \E w \in Submission : Writes(w)
<1>1. PICK a \in Admin : Editor!OpenPage(a) \/ Editor!Submit(a)
  BY DEF Editor!BeginEdit
<1>2. CASE Editor!OpenPage(a)
  BY <1>2 DEF Editor!OpenPage, Editor!TypeOK, Says, Said
<1>3. ASSUME NEW apply \in BOOLEAN, NEW port \in Port \union {NotInt},
             Editor!Structured(a, port, apply)
      PROVE  Says \/ \E w \in Submission : Writes(w)
  <2>1. CASE port = NotInt
    BY <1>3, <2>1 DEF Editor!Structured, Editor!TypeOK, Says, Said
  <2>2. CASE port # NotInt
    <3> DEFINE text == [port |-> port, rest |-> disk["config"].rest, layout |-> "dump"]
    <3>1. text \in Editor!Text /\ "config" \in Editor!Target
      BY DEF Editor!TypeOK, Editor!Text, Editor!Target, Editor!Layout
    <3>2. Editor!Preview(a, "config", text, apply)
      BY <1>3, <2>2 DEF Editor!Structured
    <3> HIDE DEF text
    <3> QED  BY <3>1, <3>2, Previews
  <2> QED  BY <2>1, <2>2
<1>4. ASSUME NEW apply \in BOOLEAN, NEW typed \in Typed,
             Editor!Raw(a, typed.target, typed.text, apply)
      PROVE  Says \/ \E w \in Submission : Writes(w)
  <2>1. typed.target \in Editor!Target /\ typed.text \in Editor!Text
    BY EditorAssumption DEF Editor!ConfigEditorAssumption
  <2> QED  BY <1>4, <2>1, Previews DEF Editor!Raw
<1> QED  BY <1>1, <1>2, <1>3, <1>4 DEF Editor!Submit

\* The end of a write, by what was submitted.
LEMMA Written ==
  ASSUME Editor!TypeOK, Editor!EndEdit
  PROVE  /\ writing \in Submission
         /\ disk' = [disk EXCEPT ![writing.target] = writing.text]
         /\ writing' = None
         /\ page' \in [Admin -> Said]
         /\ UNCHANGED <<running, env>>
BY DEF Editor!TypeOK, Editor!EndEdit, Editor!EndWrite, Submission, Said

LEMMA EmptyIsText == Editor!Empty \in Editor!Text
BY DEF Editor!Empty, Editor!Text, Editor!Rest, Editor!Layout

LEMMA EditorTyped == AdminSpec => []Editor!TypeOK
<1>1. AdminInit => Editor!TypeOK
  <2> SUFFICES ASSUME AdminInit
               PROVE  Editor!TypeOK
    OBVIOUS
  <2>1. disk \in [Editor!Target -> Editor!Text]
    BY DEF AdminInit, Editor!Init, Editor!Text, Editor!Rest, Editor!Layout
  <2> QED  BY <2>1 DEF AdminInit, Editor!Init, Editor!TypeOK
<1>2. Editor!TypeOK /\ [AdminNext]_vars => Editor!TypeOK'
  <2> SUFFICES ASSUME Editor!TypeOK, [AdminNext]_vars
               PROVE  Editor!TypeOK'
    OBVIOUS
  <2>1. CASE UNCHANGED editor
    BY <2>1 DEF editor, Editor!TypeOK
  <2>2. CASE Says
    BY <2>2 DEF Says, Said, Editor!TypeOK
  <2>3. ASSUME NEW w \in Submission, Writes(w)
        PROVE  Editor!TypeOK'
    <3>1. disk' \in [Editor!Target -> Editor!Text]
      BY <2>3, EmptyIsText DEF Writes, Submission, Editor!TypeOK
    <3> QED  BY <2>3, <3>1 DEF Writes, Submission, Editor!TypeOK
  <2>4. CASE Editor!EndEdit
    <3>1. disk' \in [Editor!Target -> Editor!Text]
      BY <2>4, Written DEF Submission, Editor!TypeOK
    <3> QED  BY <2>4, <3>1, Written DEF Said, Editor!TypeOK
  <2>5. CASE Editor!CutShort
    BY <2>5 DEF Editor!CutShort, Editor!TypeOK
  <2>6. ASSUME NEW port \in EnvPort, Editor!Load(port)
        PROVE  Editor!TypeOK'
    BY <2>6 DEF Editor!Load, Editor!TypeOK
  <2> QED
    BY <2>1, <2>2, <2>3, <2>4, <2>5, <2>6, Edits, EditorSteps
       DEF Editor!Next, vars, editor
<1> QED  BY <1>1, <1>2, PTL DEF AdminSpec

(* The administration is well typed, scripts, processes and files alike.     *)
THEOREM AdministrationTyped == AdminSpec => []AdminTypeOK
<1>1. AdminSpec => []TypeOK
  BY AdministrationControls, TypeCorrect, PTL
<1> QED  BY <1>1, EditorTyped, PTL DEF AdminTypeOK

(* What holds of the scripts and the PID file alone holds of them beside an  *)
(* administrator who edits the files they start the service with: the PID    *)
(* file names the service, and a stop on its own page is never done.         *)
THEOREM AdministrationKeepsControl == AdminSpec => []FileNamesService /\ []OwnStopNeverDone
BY AdministrationControls, PidFileNames, OwnStop, PTL

-----------------------------------------------------------------------------
(***************************************************************************)
(* The files.  A submission that is being written has been found valid by  *)
(* the service that shows the page; that has to be enough for the loaders  *)
(* of every later service, whatever its environment.                       *)
(***************************************************************************)
LEMMA ValidLoads ==
  ASSUME NEW target \in Editor!Target, NEW text \in Editor!Text, Editor!Valid(target, text)
  PROVE  /\ text # Editor!Empty
         /\ \A port \in EnvPort : Editor!Loads(port, target, text)
BY DEF Editor!Valid, Editor!Loads, Editor!Sound, Editor!Empty

WriteInv ==
  /\ writing # None => Editor!Valid(writing.target, writing.text)
  /\ FilesLoad

LEMMA WriteInvInductive == Editor!TypeOK /\ TypeOK /\ WriteInv /\ [AdminNext]_vars => WriteInv'
<1> SUFFICES ASSUME Editor!TypeOK, TypeOK, WriteInv, [AdminNext]_vars
             PROVE  WriteInv'
  OBVIOUS
<1> USE DEF WriteInv, FilesLoad, Editor!FilesLoad
<1>1. crashes' = 0 => crashes = 0
  <2>1. crashes \in Nat
    BY ServiceControlAssumption DEF TypeOK
  <2>2. \A p \in Pid : Crash(p) => crashes' # 0
    BY <2>1 DEF Crash
  <2>3. \A p \in Pid : Process(p) => crashes' = crashes
    BY DEF Process, TakeAsk, Chat, EndAsk, Drain, Exit
  <2>4. Next \/ UNCHANGED control
    BY ControlSteps DEF vars, control
  <2> QED
    BY <2>2, <2>3, <2>4 DEF Next, Control, Operator, Command, Script, Check, Clear, Launch,
       WritePid, ReadPid, Kill, Wait, Remove, Boot, BeginPage, EndPage, control
<1>2. CASE UNCHANGED <<disk, writing>>
  BY <1>1, <1>2 DEF Editor!Valid, Editor!Loads, Editor!Sound
<1>3. ASSUME NEW w \in Submission, Writes(w), writing = None
      PROVE  WriteInv'
  <2>1. w # None /\ w.target \in Editor!Target /\ w.text \in Editor!Text
    BY EditorAssumption DEF Submission, Editor!ConfigEditorAssumption
  <2>2. /\ disk' = [disk EXCEPT ![w.target] = Editor!Empty] /\ writing' = w
        /\ Editor!Valid(w.target, w.text)
    BY <1>3 DEF Writes
  <2>3. Editor!FilesLoad'
    BY <2>1, <2>2 DEF Editor!TypeOK, Editor!Loads, Editor!Sound
  <2>4. ASSUME crashes' = 0, NEW t \in Editor!Target, disk'[t] = Editor!Empty
        PROVE  writing' # None /\ writing'.target = t
    BY <1>1, <1>3, <2>1, <2>2, <2>4 DEF Editor!TypeOK
  <2> QED  BY <2>1, <2>2, <2>3, <2>4 DEF Editor!Valid, Editor!Sound
<1>4. CASE Editor!EndEdit
  <2> DEFINE w == writing
  <2>1. /\ w # None /\ w.target \in Editor!Target /\ w.text \in Editor!Text
        /\ disk' = [disk EXCEPT ![w.target] = w.text] /\ writing' = None
    BY <1>4, Written DEF Submission, Editor!EndEdit
  <2>2. w.text # Editor!Empty /\ \A port \in EnvPort : Editor!Loads(port, w.target, w.text)
    BY <2>1, ValidLoads
  <2>3. Editor!FilesLoad'
    BY <2>1, <2>2 DEF Editor!TypeOK, Editor!Loads, Editor!Sound
  <2>4. ASSUME crashes' = 0, NEW t \in Editor!Target
        PROVE  disk'[t] # Editor!Empty
    BY <1>1, <2>1, <2>2, <2>4 DEF Editor!TypeOK
  <2> QED  BY <2>1, <2>3, <2>4
<1>5. ASSUME NEW p \in Pid, GoesDown(p)
      PROVE  WriteInv'
  <2>1. crashes' # 0
    BY <1>5, ServiceControlAssumption DEF GoesDown, Crash, TypeOK
  <2>2. disk' = disk /\ (writing' = writing \/ writing' = None)
    BY <1>5 DEF GoesDown, editor, Editor!CutShort
  <2> QED  BY <2>1, <2>2 DEF Editor!Valid, Editor!Loads, Editor!Sound
<1>6. ASSUME NEW p \in Pid, EditPage(p)
      PROVE  WriteInv'
  <2>1. Editor!BeginEdit
    BY <1>6 DEF EditPage
  <2>2. writing = None
    BY <2>1 DEF Editor!BeginEdit, Editor!OpenPage, Editor!Submit
  <2> QED  BY <1>2, <1>3, <2>1, <2>2, Edits DEF Says
<1>7. ASSUME NEW p \in Pid, ComesUp(p)
      PROVE  WriteInv'
  <2>1. UNCHANGED <<disk, writing>>
    BY <1>7 DEF ComesUp, editor, Editor!Load
  <2> QED  BY <1>2, <2>1
<1>8. ASSUME NEW p \in Pid, PageWritten(p)
      PROVE  WriteInv'
  BY <1>4, <1>8 DEF PageWritten
<1>9. CASE UNCHANGED editor
  BY <1>2, <1>9 DEF editor
<1> QED  BY <1>5, <1>6, <1>7, <1>8, <1>9 DEF AdminNext, vars, editor

(* Whatever administrators submit, and with whatever environment the service *)
(* that judges it was started: every later service can load every file, but  *)
(* one into whose write a crash has fallen (Valid in the one service, Loads  *)
(* in the next; write_text in two steps).                                    *)
THEOREM EditsLoad == AdminSpec => []FilesLoad
<1>1. AdminInit => WriteInv
  <2> SUFFICES ASSUME AdminInit
               PROVE  WriteInv
    OBVIOUS
  <2>1. \A t \in Editor!Target :
          disk[t] = [port |-> None, rest |-> "initial", layout |-> "hand"]
    BY DEF AdminInit, Editor!Init
  <2>2. NotInt # None
    BY EditorAssumption DEF Editor!ConfigEditorAssumption
  <2>3. \A t \in Editor!Target : disk[t] # Editor!Empty
    BY <2>1 DEF Editor!Empty
  <2>4. Editor!FilesLoad
    BY <2>1, <2>2 DEF Editor!FilesLoad, Editor!Loads, Editor!Sound
  <2> QED  BY <2>3, <2>4 DEF AdminInit, Editor!Init, WriteInv, FilesLoad
<1>2. AdminSpec => []TypeOK
  BY AdministrationControls, TypeCorrect, PTL
<1>3. WriteInv => FilesLoad
  BY DEF WriteInv
<1> QED  BY <1>1, <1>2, <1>3, WriteInvInductive, EditorTyped, PTL DEF AdminSpec
=============================================================================
