------------------------------ MODULE Profiling ------------------------------
(***************************************************************************)
(* The profiling of the tools before an ask (_ensure_profiling of          *)
(* service.py with its ProfilingStore and RuntimeProber, profiling.py).    *)
(* Requests run it concurrently, each over the enabled tools in order; a   *)
(* tool without a profile is probed, its record saved, and the hash of     *)
(* TOOLS.md is written at the end.  TOOLS.md may be edited at any time; it *)
(* is read again only when the service restarts.                           *)
(*                                                                         *)
(* A tool's definition, and what a probe of it says, are reduced to the    *)
(* definition's version; the hash of TOOLS.md is the function of all of    *)
(* them.  Of a tool's records only the latest is kept: the file names of   *)
(* ProfilingStore are left out, and a file is written in one step.         *)
(***************************************************************************)
EXTENDS Integers, Sequences, SequencesExt

CONSTANTS
  Enabled,      \* profile.enabled_tools, in order
  External,     \* the tools of type external_mcp
  Summarised,   \* the tools with a summary in TOOLS.md
  Req,          \* the requests that profile
  Forced,        \* those of run_profiling with force
  Target,       \* the tool_ids of a request, {} for None
  OnLoop,       \* those of POST /v1/chat/completions without stream
  MaxEdits,     \* bound: edits of TOOLS.md
  MaxRestarts,  \* bound: restarts of the service
  None

Tool == ToSet(Enabled)

ASSUME ProfilingAssumption ==
  /\ Enabled \in Seq(Tool)
  /\ External \union Summarised \subseteq Tool
  /\ Forced \union OnLoop \subseteq Req
  /\ Target \in [Req -> SUBSET Tool]
  /\ MaxEdits \in Nat /\ MaxRestarts \in Nat
  /\ None \notin Req \union (0..MaxEdits) /\ \A T \in SUBSET Tool : None # T

VARIABLES
  disk,         \* TOOLS.md: the version of each tool's definition
  tools,        \* self.tools: the version the service has loaded
  known,        \* profile_summary: the version probed for it, or None
  record,       \* the latest profiling record: its tool_hash, or None
  hashFile,     \* .tools_md.hash: the contents hashed, or None
  restarts,     \* the restarts so far
  pc,           \* where each request stands
  changed,      \* its changed_tool_ids: a set, or None
  at,           \* the position in Enabled it has come to
  found,        \* the record that load_latest returned to it
  loop          \* the request that occupies the event loop, or None

vars == <<disk, tools, known, record, hashFile, restarts, pc, changed, at, found, loop>>
world == <<disk, tools, restarts>>

Idle     == {"idle", "done", "failed"}
Scope(r) == IF Target[r] = {} THEN Tool ELSE Target[r]
Internal == Tool \ External
Subject(r) == Enabled[at[r]]

-----------------------------------------------------------------------------
Init ==
  /\ disk = [t \in Tool |-> 0] /\ tools = disk
  /\ known = [t \in Tool |-> None]
  /\ record = [t \in Tool |-> None]
  /\ hashFile \in {None, disk}
  /\ restarts = 0
  /\ pc = [r \in Req |-> "idle"]
  /\ changed = [r \in Req |-> None]
  /\ at = [r \in Req |-> 1]
  /\ found = [r \in Req |-> None]
  /\ loop = None

\* A request comes in over the event loop, which must be free; a chat
\* completion stays on it, the others go to a thread.
StartOnLoop(r) ==                                      \* mutant: async def ask
  /\ pc[r] \in Idle /\ loop = None
  /\ pc' = [pc EXCEPT ![r] = "detect"]
  /\ loop' = r
  /\ changed' = [changed EXCEPT ![r] = None]
  /\ at' = [at EXCEPT ![r] = 1]
  /\ found' = [found EXCEPT ![r] = None]
  /\ UNCHANGED <<world, known, record, hashFile>>

Start(r) ==
  /\ pc[r] \in Idle /\ loop = None
  /\ pc' = [pc EXCEPT ![r] = "detect"]
  /\ loop' = IF r \in OnLoop THEN r ELSE None
  /\ changed' = [changed EXCEPT ![r] = None]
  /\ at' = [at EXCEPT ![r] = 1]
  /\ found' = [found EXCEPT ![r] = None]
  /\ UNCHANGED <<world, known, record, hashFile>>

\* _detect_changed_tools: None if TOOLS.md is as hashed, else the tools whose
\* record is missing or of another definition than the one loaded.
Detected == IF hashFile = disk THEN None ELSE {t \in Tool : record[t] # tools[t]}

Detect(r) ==
  /\ pc[r] = "detect"
  /\ changed' = [changed EXCEPT ![r] =
       IF r \in Forced \/ Target[r] # {} THEN Scope(r) ELSE Detected]
  /\ pc' = [pc EXCEPT ![r] = "next"]
  /\ UNCHANGED <<world, known, record, hashFile, at, found, loop>>

\* The tools a request passes over without a look at their record.
Skips(r, t) ==
  \/ t \notin Scope(r) \/ t \in External
  \/ r \notin Forced /\ changed[r] = None /\ (t \in Summarised \/ known[t] # None)
  \/ r \notin Forced /\ changed[r] # None /\ t \notin changed[r]

Advance(r) == at' = [at EXCEPT ![r] = @ + 1]

Skip(r) ==
  /\ pc[r] = "next" /\ at[r] <= Len(Enabled)
  /\ Skips(r, Subject(r))
  /\ Advance(r)
  /\ UNCHANGED <<world, known, record, hashFile, pc, changed, found, loop>>

\* load_latest: a record is used, whatever its tool_hash, unless force is set.
LookUpAlways(r) ==                                     \* mutant: force forgotten
  /\ pc[r] = "next" /\ at[r] <= Len(Enabled)
  /\ ~Skips(r, Subject(r))
  /\ found' = [found EXCEPT ![r] = record[Subject(r)]]
  /\ pc' = [pc EXCEPT ![r] = IF record[Subject(r)] # None THEN "apply" ELSE "probe"]
  /\ UNCHANGED <<world, known, record, hashFile, changed, at, loop>>

LookUp(r) ==
  /\ pc[r] = "next" /\ at[r] <= Len(Enabled)
  /\ ~Skips(r, Subject(r))
  /\ found' = [found EXCEPT ![r] = record[Subject(r)]]
  /\ pc' = [pc EXCEPT ![r] =
       IF record[Subject(r)] # None /\ r \notin Forced THEN "apply" ELSE "probe"]
  /\ UNCHANGED <<world, known, record, hashFile, changed, at, loop>>

Apply(r) ==
  /\ pc[r] = "apply"
  /\ known' = [known EXCEPT ![Subject(r)] = found[r]]
  /\ Advance(r)
  /\ pc' = [pc EXCEPT ![r] = "next"]
  /\ UNCHANGED <<world, record, hashFile, changed, found, loop>>

\* _run_probe: the probe's coroutine runs on a loop of its own in a thread; from
\* the event loop's thread it is handed to that very loop, which is waiting for it.
Probed(r) ==
  /\ pc[r] = "probe" /\ loop # r
  /\ known' = [known EXCEPT ![Subject(r)] = tools[Subject(r)]]
  /\ pc' = [pc EXCEPT ![r] = "save"]
  /\ UNCHANGED <<world, record, hashFile, changed, at, found, loop>>

Save(r) ==
  /\ pc[r] = "save"
  /\ record' = [record EXCEPT ![Subject(r)] = tools[Subject(r)]]
  /\ Advance(r)
  /\ pc' = [pc EXCEPT ![r] = "next"]
  /\ UNCHANGED <<world, known, hashFile, changed, found, loop>>

\* A question fails its last attempt, or the record cannot be written: the
\* request ends, with the hash left as it was.
FailsOnward(r) ==                                      \* mutant: except: continue
  /\ pc[r] = "save" \/ (pc[r] = "probe" /\ loop # r)
  /\ Advance(r)
  /\ pc' = [pc EXCEPT ![r] = "next"]
  /\ UNCHANGED <<world, known, record, hashFile, changed, found, loop>>

Fails(r) ==
  /\ pc[r] = "save" \/ (pc[r] = "probe" /\ loop # r)
  /\ pc' = [pc EXCEPT ![r] = "failed"]
  /\ loop' = IF loop = r THEN None ELSE loop
  /\ UNCHANGED <<world, known, record, hashFile, changed, at, found>>

\* _write_tools_hash: the hash of TOOLS.md as it is now.
WriteHash(r) ==
  /\ pc[r] = "next" /\ at[r] > Len(Enabled)
  /\ hashFile' = disk
  /\ pc' = [pc EXCEPT ![r] = "done"]
  /\ loop' = IF loop = r THEN None ELSE loop
  /\ UNCHANGED <<world, known, record, changed, at, found>>

-----------------------------------------------------------------------------
\* An operator edits a tool in TOOLS.md.
Edit ==
  /\ \A t \in Tool : disk[t] < MaxEdits
  /\ \E t \in Tool : disk' = [disk EXCEPT ![t] = @ + 1]
  /\ UNCHANGED <<tools, known, record, hashFile, restarts, pc, changed, at, found, loop>>

\* The service dies, with every request, and starts again.
Restart ==
  /\ restarts < MaxRestarts
  /\ restarts' = restarts + 1
  /\ tools' = disk
  /\ known' = [t \in Tool |-> None]
  /\ pc' = [r \in Req |-> "idle"]
  /\ changed' = [r \in Req |-> None]
  /\ at' = [r \in Req |-> 1]
  /\ found' = [r \in Req |-> None]
  /\ loop' = None
  /\ UNCHANGED <<disk, record, hashFile>>

Step(r) ==
  \/ Detect(r) \/ Skip(r) \/ LookUp(r) \/ Apply(r)
  \/ Probed(r) \/ Save(r) \/ Fails(r) \/ WriteHash(r)

Next == (\E r \in Req : Start(r) \/ Step(r)) \/ Edit \/ Restart

Spec == Init /\ [][Next]_vars

\* A request that has come in keeps running: its questions have a timeout and
\* a bounded number of attempts.
FairSpec == Spec /\ \A r \in Req : WF_vars(Step(r))

-----------------------------------------------------------------------------
Version == 0..MaxEdits

TypeOK ==
  /\ disk \in [Tool -> Version] /\ tools \in [Tool -> Version]
  /\ known \in [Tool -> Version \union {None}]
  /\ record \in [Tool -> Version \union {None}]
  /\ hashFile \in [Tool -> Version] \union {None}
  /\ restarts \in 0..MaxRestarts
  /\ pc \in [Req -> Idle \union {"detect", "next", "apply", "probe", "save"}]
  /\ changed \in [Req -> (SUBSET Tool) \union {None}]
  /\ at \in [Req -> 1..(Len(Enabled) + 1)]
  /\ found \in [Req -> Version \union {None}]
  /\ loop \in OnLoop \union {None}

(* Profiling comes before planning: when it is over, and TOOLS.md was as     *)
(* hashed, every tool has a summary of its own or a profile; when it was     *)
(* not, every changed tool in its scope has a profile and a saved record, a  *)
(* probe that failed and requests that overlap notwithstanding.              *)
ReadyToPlan ==
  \A r \in Req : pc[r] = "done" =>
    IF changed[r] = None
    THEN \A t \in Internal \ Summarised : known[t] # None
    ELSE \A t \in changed[r] \intersect Scope(r) \intersect Internal :
           known[t] # None /\ record[t] # None

(* README: "Manual profiling: ... --force": when it is over, the records of  *)
(* its tools are those of the definitions the service has loaded, whatever   *)
(* other requests saved meanwhile.                                           *)
ForceRefreshes ==
  \A r \in Forced : pc[r] = "done" =>
    \A t \in Scope(r) \intersect Internal : record[t] = tools[t]

(* A request that is served by a thread gets through its profiling, or fails.*)
ThreadedRequestsEnd ==
  \A r \in Req \ OnLoop : pc[r] = "detect" ~> pc[r] \in Idle

(* README: "runtime probing will ask ... and save a profiling summary": and  *)
(* any request gets through it, or fails.                                    *)
RequestsEnd == \A r \in Req : pc[r] = "detect" ~> pc[r] \in Idle

(* README: "TOOLS.md changes trigger re-profiling for affected tools on the  *)
(* next request": after a request, a tool the service knows in some version  *)
(* has the profile of that version.                                          *)
ReprofiledAfterChange ==
  \A r \in Req : pc[r] = "done" /\ changed[r] # None =>
    \A t \in (Scope(r) \intersect Internal) \ Summarised :
      known[t] # None => known[t] = tools[t]
=============================================================================
