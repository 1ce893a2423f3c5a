-------------------------------- MODULE Probing --------------------------------
(***************************************************************************)
(* From the questions to the record on disk: what a request of Profiling   *)
(* does in its steps Probed and Save (_run_probe and save).  The threads   *)
(* of the service and of the profiling script probe, also the same tool,   *)
(* and either process may go down.                                         *)
(***************************************************************************)
EXTENDS Prober

CONSTANTS
  Tool, ToolOf, \* the tool that each thread probes
  Process,      \* the sets of threads that go down together
  Year, MaxMinutes, MaxSaves, NoFile, Empty, Mixed, None

VARIABLES now, file, open, saves, newest, clash, years

Store == INSTANCE RecordFiles WITH Writer <- Probe

ASSUME ProbingAssumption ==
  /\ Store!RecordFilesAssumption
  /\ ToolOf \in [Probe -> Tool] /\ Process \subseteq SUBSET Probe

store == <<now, file, open, saves, newest, clash, years>>
vars  == <<stage, quest, attempt, now, file, open, saves, newest, clash, years>>

ProbeTool(p) ==
  /\ open[p] = None
  /\ StartProbe(p) /\ UNCHANGED store

ProbeStep(p) == Step(p) /\ UNCHANGED store

BeginSave(p) ==
  /\ Store!Open(p, ToolOf[p])
  /\ Finish(p)

EndSave(p) == Store!Close(p) /\ UNCHANGED prober

\* The service, the profiling script or the machine goes down.
Crash(dead) ==
  /\ Store!CutShort(dead)
  /\ stage' = [p \in Probe |-> IF p \in dead THEN "idle" ELSE stage[p]]
  /\ quest' = [p \in Probe |-> IF p \in dead THEN [q \in Index |-> "waiting"] ELSE quest[p]]
  /\ attempt' = [p \in Probe |-> IF p \in dead THEN [q \in Index |-> 0] ELSE attempt[p]]

ProbingInit == Init /\ Store!Init

ProbingNext ==
  \/ \E p \in Probe : ProbeTool(p) \/ ProbeStep(p) \/ BeginSave(p) \/ EndSave(p)
  \/ Store!Minute /\ UNCHANGED prober
  \/ \E P \in Process : Crash(P)

ProbingSpec == ProbingInit /\ [][ProbingNext]_vars

\* The loop of a probe goes on: requests have a timeout, pauses an end.
FairSpec == ProbingSpec /\ \A p \in Probe : WF_<<stage, quest, attempt>>(Step(p))

-----------------------------------------------------------------------------
ProbingTypeOK == TypeOK /\ Store!TypeOK

(* See RecordFiles: what is loaded of a tool is what was probed last.        *)
LatestIsNewest == Store!LatestIsNewest

(* Whatever its tool answers, a probe comes to an end.                       *)
ProbeEnds ==
  \A p \in Probe : Looping(p) ~> stage[p] \in {"idle", "answered"}
=============================================================================
