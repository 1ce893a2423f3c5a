---------------------------- MODULE Administration ----------------------------
(***************************************************************************)
(* The administration of the service: its page is served by the service    *)
(* that it starts, stops and configures (ServiceControl, ConfigEditor).    *)
(***************************************************************************)
EXTENDS ServiceControl

CONSTANTS Admin, Port, EnvPort, Typed, NotInt

VARIABLES disk, writing, page, running, env

Editor == INSTANCE ConfigEditor

ASSUME EditorAssumption == Editor!ConfigEditorAssumption

editor == <<disk, writing, page, running, env>>
vars == <<proc, asks, held, pidFile, pc, kind, by, seen, overlap, crashes,
          disk, writing, page, running, env>>

\* A process loads the files when it starts, and is the service if it stays up.
ComesUp(p) ==
  \E port \in EnvPort :
    /\ Boot(p, Editor!Servable /\ \A t \in Editor!Target : Editor!Loads(port, t, disk[t]))
    /\ IF proc'[p] = "up" THEN Editor!Load(port) ELSE UNCHANGED editor

\* The page is served by a service whose loop is free, and holds it while it writes.
EditPage(p) ==
  /\ Serving(p) /\ Editor!BeginEdit
  /\ IF writing' # writing THEN BeginPage(p) ELSE UNCHANGED control

PageWritten(p) == EndPage(p) /\ Editor!EndEdit

\* A crash may fall into a write.
GoesDown(p) ==
  /\ Crash(p)
  /\ IF held[p] = "page" THEN Editor!CutShort ELSE UNCHANGED editor

AdminInit == Init /\ Editor!Init

AdminNext ==
  \/ Control /\ UNCHANGED editor
  \/ \E p \in Pid : ComesUp(p) \/ EditPage(p) \/ PageWritten(p) \/ GoesDown(p)

AdminSpec == AdminInit /\ [][AdminNext]_vars

\* Scripts, processes and handlers go on, but a chat that hangs; operators, requests
\* and crashes need not come.  A loop that is free time and again comes round to the
\* signal: what is ready to run on it waits in a queue.
FairSpec ==
  /\ AdminSpec
  /\ \A r \in Run : WF_vars(Script(r) /\ UNCHANGED editor)
  /\ \A p \in Pid :
       /\ WF_vars(ComesUp(p)) /\ WF_vars(PageWritten(p))
       /\ WF_vars(EndAsk(p) /\ UNCHANGED editor)
       /\ SF_vars(Drain(p) /\ UNCHANGED editor)
       /\ WF_vars(Exit(p) /\ UNCHANGED editor)

-----------------------------------------------------------------------------
AdminTypeOK == TypeOK /\ Editor!TypeOK

(* See ConfigEditor: no edit leaves a file that some next start cannot load; *)
(* only a crash leaves one empty, and only in a write.                       *)
FilesLoad ==
  /\ Editor!FilesLoad
  /\ crashes = 0 =>
       \A t \in Editor!Target :
         disk[t] = Editor!Empty => writing # None /\ writing.target = t
=============================================================================
