--------------------------- MODULE ProfilingProofs ---------------------------
(***************************************************************************)
(* Proofs about Profiling: what a request may rely on when its profiling   *)
(* is over, for any tools, requests, targets, edits and restarts.          *)
(***************************************************************************)
EXTENDS Profiling, TLAPS

\* A request that has come in, has compared the hashes, and has not failed.
Detecting(r) == pc[r] \in {"next", "apply", "probe", "save", "done"}

\* A forced request has the tools of its scope; only a request for every tool
\* can have found TOOLS.md unchanged.
OwnScope(r) ==
  Detecting(r) => /\ r \in Forced => changed[r] = Scope(r)
                  /\ changed[r] = None => Target[r] = {}

\* A request begins with the first tool, works on one in its list, and is done
\* after the last.
InPlace(r) ==
  /\ pc[r] = "detect" => at[r] = 1
  /\ pc[r] \in {"apply", "probe", "save"} => at[r] \in 1..Len(Enabled)
  /\ pc[r] = "done" => at[r] = Len(Enabled) + 1

\* What a request is about to apply or save is there, and a forced one applies
\* no record.
Ready(r) ==
  /\ pc[r] = "apply" => /\ found[r] # None
                        /\ record[Subject(r)] # None
                        /\ r \notin Forced
  /\ pc[r] = "save" => known[Subject(r)] # None

\* The tool has been brought as far as the request has to bring it.
Settled(r, t) ==
  t \in Scope(r) \intersect Internal =>
    /\ changed[r] = None => t \in Summarised \/ known[t] # None
    /\ changed[r] # None /\ t \in changed[r] => known[t] # None /\ record[t] # None
    /\ r \in Forced => record[t] = tools[t]

\* The tools a request has passed are settled for it, whatever others do.
Passed(r) ==
  Detecting(r) =>
    \A i \in 1..Len(Enabled) : i < at[r] => Settled(r, Enabled[i])

Good(r) == OwnScope(r) /\ InPlace(r) /\ Ready(r) /\ Passed(r)

IInv == TypeOK /\ \A r \in Req : Good(r)

\* What no step but a restart takes away: profiles, records, and the agreement
\* of a record with the definition the service has loaded.
Kept ==
  /\ tools' = tools
  /\ \A t \in Tool : /\ known[t] # None => known'[t] # None
                     /\ record[t] # None => record'[t] # None
                     /\ record[t] = tools[t] => record'[t] = tools[t]

\* What a request that does not take the step keeps.
Bystands(q) ==
  /\ pc'[q] = pc[q] /\ changed'[q] = changed[q]
  /\ at'[q] = at[q] /\ found'[q] = found[q]

-----------------------------------------------------------------------------
(* Every position of the list holds a tool, and every tool has a position.   *)
LEMMA Positions ==
  /\ Len(Enabled) \in Nat
  /\ \A i \in 1..Len(Enabled) : Enabled[i] \in Tool
  /\ \A t \in Tool : \E i \in 1..Len(Enabled) : Enabled[i] = t
BY ProfilingAssumption DEF Tool, ToSet

(* A request works on a tool: the one at its position.                       *)
LEMMA SubjectIsTool ==
  ASSUME TypeOK, NEW r \in Req, InPlace(r), pc[r] \in {"apply", "probe", "save"}
  PROVE  Subject(r) \in Tool
BY Positions DEF InPlace, Subject

(* None is no version, and no set of tools.                                  *)
LEMMA NoneIsNothing ==
  /\ None \notin Version
  /\ \A T \in SUBSET Tool : None # T
  /\ None \notin Req
BY ProfilingAssumption DEF Version

-----------------------------------------------------------------------------
(* The initial state satisfies the invariant: no request has come in.        *)
LEMMA InitIInv == Init => IInv
<1> SUFFICES ASSUME Init PROVE IInv
  OBVIOUS
<1> USE DEF Init
<1>1. TypeOK
  <2>1. 0 \in Version /\ 0 \in 0..MaxRestarts /\ 1 \in 1..(Len(Enabled) + 1)
    BY Positions, ProfilingAssumption DEF Version
  <2> QED
    BY <2>1 DEF TypeOK, Idle
<1>2. \A r \in Req : Good(r)
  BY DEF Good, OwnScope, InPlace, Ready, Passed, Detecting
<1> QED
  BY <1>1, <1>2 DEF IInv

(* Every step keeps the variables in their types.                            *)
LEMMA TypeStep == ASSUME IInv, Next PROVE TypeOK'
<1> USE DEF TypeOK, Idle, IInv, Good
<1>1. ASSUME NEW r \in Req, Start(r) PROVE TypeOK'
  BY <1>1, Positions DEF Start, world
<1>2. ASSUME NEW r \in Req, Detect(r) PROVE TypeOK'
  <2>1. Detected \in (SUBSET Tool) \union {None} /\ Scope(r) \in SUBSET Tool
    BY ProfilingAssumption DEF Detected, Scope
  <2> QED
    BY <1>2, <2>1 DEF Detect, world
<1>3. ASSUME NEW r \in Req, Skip(r) PROVE TypeOK'
  <2>1. at[r] + 1 \in 1..(Len(Enabled) + 1)
    BY <1>3, Positions DEF Skip
  <2> QED
    BY <1>3, <2>1 DEF Skip, Advance, world
<1>4. ASSUME NEW r \in Req, LookUp(r) PROVE TypeOK'
  <2>1. Subject(r) \in Tool
    BY <1>4, Positions DEF LookUp, Subject
  <2> QED
    BY <1>4, <2>1 DEF LookUp, world
<1>5. ASSUME NEW r \in Req, Apply(r) PROVE TypeOK'
  <2>1. at[r] + 1 \in 1..(Len(Enabled) + 1)
    BY <1>5, Positions DEF Apply, InPlace
  <2> QED
    BY <1>5, <2>1 DEF Apply, Advance, world
<1>6. ASSUME NEW r \in Req, Probed(r) PROVE TypeOK'
  <2>1. Subject(r) \in Tool
    BY <1>6, SubjectIsTool DEF Probed
  <2> QED
    BY <1>6, <2>1 DEF Probed, world
<1>7. ASSUME NEW r \in Req, Save(r) PROVE TypeOK'
  <2>1. at[r] + 1 \in 1..(Len(Enabled) + 1) /\ Subject(r) \in Tool
    BY <1>7, Positions, SubjectIsTool DEF Save, InPlace
  <2> QED
    BY <1>7, <2>1 DEF Save, Advance, world
<1>8. ASSUME NEW r \in Req, Fails(r) PROVE TypeOK'
  BY <1>8 DEF Fails, world
<1>9. ASSUME NEW r \in Req, WriteHash(r) PROVE TypeOK'
  BY <1>9 DEF WriteHash, world
<1>10. CASE Edit
  <2>1. \A t \in Tool : disk[t] + 1 \in Version \/ disk[t] = MaxEdits
    BY ProfilingAssumption DEF Version
  <2>2. PICK t \in Tool : disk' = [disk EXCEPT ![t] = @ + 1] /\ disk[t] < MaxEdits
    BY <1>10 DEF Edit
  <2>3. disk[t] + 1 \in Version
    BY <2>1, <2>2, ProfilingAssumption DEF Version
  <2> QED
    BY <1>10, <2>2, <2>3 DEF Edit
<1>11. CASE Restart
  <2>1. restarts + 1 \in 0..MaxRestarts
    BY <1>11, ProfilingAssumption DEF Restart
  <2> QED
    BY <1>11, <2>1, Positions DEF Restart
<1> QED
  BY <1>1, <1>2, <1>3, <1>4, <1>5, <1>6, <1>7, <1>8, <1>9, <1>10, <1>11
  DEF Next, Step

-----------------------------------------------------------------------------
(* A settled tool stays settled while nothing is taken away.                 *)
LEMMA SettledStays ==
  ASSUME Kept, NEW r \in Req, NEW t \in Tool, changed'[r] = changed[r], Settled(r, t)
  PROVE  Settled(r, t)'
BY DEF Kept, Settled, Scope, Internal, Tool

(* The tools a request has passed stay settled when it does not move on.     *)
LEMMA PassedStays ==
  ASSUME Kept, NEW r \in Req, changed'[r] = changed[r], at'[r] = at[r],
         Detecting(r), Passed(r)
  PROVE  Passed(r)'
BY SettledStays, Positions DEF Passed

(* ... and when it moves on from a tool that is settled now.                 *)
LEMMA PassedGrows ==
  ASSUME TypeOK, Kept, NEW r \in Req, changed'[r] = changed[r],
         at'[r] = at[r] + 1, Detecting(r), Passed(r),
         NEW t \in Tool, t = Subject(r), Settled(r, t)'
  PROVE  Passed(r)'
<1> SUFFICES ASSUME NEW i \in 1..Len(Enabled), i < at[r] + 1
             PROVE  Settled(r, Enabled[i])'
  BY DEF Passed
<1>1. i < at[r] \/ i = at[r]
  BY Positions DEF TypeOK
<1>2. CASE i < at[r]
  BY <1>2, SettledStays, Positions DEF Passed
<1>3. CASE i = at[r]
  BY <1>3 DEF Subject
<1> QED
  BY <1>1, <1>2, <1>3

(* A request that does not take the step is as good after it as before.      *)
LEMMA BystanderGood ==
  ASSUME TypeOK, Kept, NEW q \in Req, Bystands(q), Good(q)
  PROVE  Good(q)'
<1> USE DEF Good, Bystands
<1>1. OwnScope(q)' /\ InPlace(q)'
  BY DEF OwnScope, InPlace, Detecting, Scope
<1>2. Ready(q)'
  <2>1. pc[q] \in {"apply", "save"} => Subject(q) \in Tool /\ Subject(q)' = Subject(q)
    BY SubjectIsTool DEF Subject
  <2>2. pc[q] = "apply" => /\ found'[q] # None
                           /\ record'[Subject(q)] # None
                           /\ q \notin Forced
    BY <2>1 DEF Ready, Kept
  <2>3. pc[q] = "save" => known'[Subject(q)] # None
    BY <2>1 DEF Ready, Kept
  <2> QED
    BY <2>1, <2>2, <2>3 DEF Ready
<1>3. Passed(q)'
  BY PassedStays DEF Passed, Detecting
<1> QED
  BY <1>1, <1>2, <1>3

(* Only a restart takes anything away: an applied or probed profile is one,  *)
(* a saved record is of the definition loaded.                               *)
LEMMA StepKeeps ==
  ASSUME IInv, NEW r \in Req, Start(r) \/ Step(r)
  PROVE  Kept
<1> USE DEF IInv, Good, TypeOK, world
<1>1. CASE Apply(r)
  <2>1. Subject(r) \in Tool /\ found[r] # None
    BY <1>1, SubjectIsTool DEF Apply, Ready
  <2> QED
    BY <1>1, <2>1 DEF Apply, Kept
<1>2. CASE Probed(r)
  <2>1. Subject(r) \in Tool /\ tools[Subject(r)] # None
    BY <1>2, SubjectIsTool, NoneIsNothing DEF Probed
  <2> QED
    BY <1>2, <2>1 DEF Probed, Kept
<1>3. CASE Save(r)
  <2>1. Subject(r) \in Tool /\ tools[Subject(r)] # None
    BY <1>3, SubjectIsTool, NoneIsNothing DEF Save
  <2> QED
    BY <1>3, <2>1 DEF Save, Kept
<1>4. CASE Start(r) \/ Detect(r) \/ Skip(r) \/ LookUp(r) \/ Fails(r) \/ WriteHash(r)
  BY <1>4 DEF Start, Detect, Skip, LookUp, Fails, WriteHash, Kept
<1> QED
  BY <1>1, <1>2, <1>3, <1>4 DEF Step

(* The step of a request is nobody else's.                                   *)
LEMMA OthersStand ==
  ASSUME TypeOK, NEW r \in Req, Start(r) \/ Step(r), NEW q \in Req \ {r}
  PROVE  Bystands(q)
BY DEF TypeOK, Bystands, Step, Start, Detect, Skip, LookUp, Apply, Probed, Save,
       Fails, WriteHash, Advance, world

(* The request that takes the step is good after it.                         *)
LEMMA ActorGood ==
  ASSUME IInv, NEW r \in Req, Start(r) \/ Step(r)
  PROVE  Good(r)'
<1> USE DEF IInv, Good, TypeOK, Idle
<1>1. Kept
  BY StepKeeps
<1>2. CASE Start(r)
  BY <1>2 DEF Start, OwnScope, InPlace, Ready, Passed, Detecting
<1>3. CASE Detect(r)
  <2>1. pc'[r] = "next" /\ at'[r] = 1
    BY <1>3 DEF Detect, InPlace
  <2>2. changed'[r] = IF r \in Forced \/ Target[r] # {} THEN Scope(r) ELSE Detected
    BY <1>3 DEF Detect
  <2>3. Scope(r) # None
    BY NoneIsNothing, ProfilingAssumption DEF Scope
  <2>4. OwnScope(r)'
    BY <2>2, <2>3 DEF OwnScope, Scope
  <2> QED
    BY <2>1, <2>4, Positions DEF InPlace, Ready, Passed
<1>4. CASE Skip(r)
  <2>1. /\ Subject(r) \in Tool /\ Detecting(r)
        /\ at'[r] = at[r] + 1 /\ pc'[r] = "next" /\ changed'[r] = changed[r]
    BY <1>4, Positions DEF Skip, Advance, Subject, Detecting
  <2>2. Settled(r, Subject(r))
    BY <1>4 DEF Skip, Skips, Settled, Internal
  <2>3. Passed(r)'
    BY <1>1, <2>1, <2>2, PassedGrows, SettledStays
  <2>4. OwnScope(r)'
    BY <2>1 DEF OwnScope, Scope
  <2> QED
    BY <2>1, <2>3, <2>4 DEF InPlace, Ready
<1>5. CASE LookUp(r)
  <2>1. /\ pc[r] = "next" /\ at[r] \in 1..Len(Enabled) /\ Subject(r)' = Subject(r)
        /\ at'[r] = at[r] /\ changed'[r] = changed[r]
    BY <1>5, Positions DEF LookUp, Subject
  <2>2. Passed(r)'
    BY <1>1, <2>1, PassedStays DEF Detecting
  <2>3. OwnScope(r)'
    BY <2>1 DEF OwnScope, Detecting, Scope
  <2>4. InPlace(r)' /\ Ready(r)'
    BY <1>5, <2>1 DEF LookUp, InPlace, Ready
  <2> QED
    BY <2>2, <2>3, <2>4
<1>6. CASE Apply(r)
  <2>1. /\ Subject(r) \in Tool /\ Detecting(r)
        /\ at'[r] = at[r] + 1 /\ pc'[r] = "next" /\ changed'[r] = changed[r]
    BY <1>6, SubjectIsTool DEF Apply, Advance, Detecting
  <2>2. PICK t \in Tool : t = Subject(r)
    BY <2>1
  <2>3. known'[t] # None /\ record'[t] # None /\ r \notin Forced
    BY <1>6, <2>2 DEF Apply, Ready
  <2>4. Passed(r)'
    BY <1>1, <2>1, <2>2, <2>3, PassedGrows DEF Settled
  <2>5. OwnScope(r)'
    BY <2>1 DEF OwnScope, Scope
  <2> QED
    BY <2>1, <2>4, <2>5 DEF InPlace, Ready
<1>7. CASE Probed(r)
  <2>1. /\ pc[r] = "probe" /\ Subject(r) \in Tool /\ Subject(r)' = Subject(r)
        /\ at'[r] = at[r] /\ pc'[r] = "save" /\ changed'[r] = changed[r]
    BY <1>7, SubjectIsTool DEF Probed, Subject
  <2>2. known'[Subject(r)] # None
    BY <1>7, <2>1, NoneIsNothing DEF Probed, world
  <2>3. Passed(r)'
    BY <1>1, <2>1, PassedStays DEF Detecting
  <2>4. OwnScope(r)'
    BY <2>1 DEF OwnScope, Detecting, Scope
  <2> QED
    BY <2>1, <2>2, <2>3, <2>4 DEF InPlace, Ready
<1>8. CASE Save(r)
  <2>1. /\ Subject(r) \in Tool /\ Detecting(r)
        /\ at'[r] = at[r] + 1 /\ pc'[r] = "next" /\ changed'[r] = changed[r]
    BY <1>8, SubjectIsTool DEF Save, Advance, Detecting
  <2>2. PICK t \in Tool : t = Subject(r)
    BY <2>1
  <2>3. known'[t] # None /\ record'[t] = tools'[t] /\ record'[t] # None
    BY <1>8, <2>2, NoneIsNothing DEF Save, Ready, world
  <2>4. Passed(r)'
    BY <1>1, <2>1, <2>2, <2>3, PassedGrows DEF Settled
  <2>5. OwnScope(r)'
    BY <2>1 DEF OwnScope, Scope
  <2> QED
    BY <2>1, <2>4, <2>5 DEF InPlace, Ready
<1>9. CASE Fails(r)
  BY <1>9 DEF Fails, OwnScope, InPlace, Ready, Passed, Detecting
<1>10. CASE WriteHash(r)
  <2>1. /\ pc[r] = "next" /\ pc'[r] = "done" /\ at'[r] = at[r]
        /\ changed'[r] = changed[r] /\ at[r] = Len(Enabled) + 1
    BY <1>10, Positions DEF WriteHash
  <2>2. Passed(r)'
    BY <1>1, <2>1, PassedStays DEF Detecting
  <2>3. OwnScope(r)'
    BY <2>1 DEF OwnScope, Detecting, Scope
  <2> QED
    BY <2>1, <2>2, <2>3 DEF InPlace, Ready
<1> QED
  BY <1>2, <1>3, <1>4, <1>5, <1>6, <1>7, <1>8, <1>9, <1>10 DEF Step

-----------------------------------------------------------------------------
(* The invariant is inductive.                                               *)
LEMMA NextIInv == IInv /\ [Next]_vars => IInv'
<1> SUFFICES ASSUME IInv, [Next]_vars PROVE IInv'
  OBVIOUS
<1>1. TypeOK /\ \A q \in Req : Good(q)
  BY DEF IInv
<1>2. TypeOK'
  BY <1>1, TypeStep DEF TypeOK, vars, Tool, Version, Idle
<1>3. ASSUME NEW q \in Req PROVE Good(q)'
  <2>1. CASE \E r \in Req : Start(r) \/ Step(r)
    <3>1. PICK r \in Req : Start(r) \/ Step(r)
      BY <2>1
    <3>2. CASE q = r
      BY <3>1, <3>2, ActorGood
    <3>3. CASE q # r
      <4>1. Kept /\ Bystands(q)
        BY <1>1, <3>1, <3>3, StepKeeps, OthersStand
      <4> QED
        BY <1>1, <4>1, BystanderGood
    <3> QED
      BY <3>2, <3>3
  <2>2. CASE Edit \/ UNCHANGED vars
    <3>1. Kept /\ Bystands(q)
      BY <2>2 DEF Edit, vars, Kept, Bystands
    <3> QED
      BY <1>1, <3>1, BystanderGood
  <2>3. CASE Restart
    <3>1. pc'[q] = "idle"
      BY <2>3 DEF Restart
    <3> QED
      BY <3>1 DEF Good, OwnScope, InPlace, Ready, Passed, Detecting
  <2> QED
    BY <2>1, <2>2, <2>3 DEF Next
<1> QED
  BY <1>2, <1>3 DEF IInv

LEMMA Invariance == Spec => []IInv
BY InitIInv, NextIInv, PTL DEF Spec

(* Every reachable state is well typed: for any list of tools, any requests, *)
(* and any number of edits and restarts.                                     *)
THEOREM TypeCorrect == Spec => []TypeOK
<1>1. IInv => TypeOK
  BY DEF IInv
<1> QED
  BY Invariance, <1>1, PTL

(* A request that has gone through _ensure_profiling can plan: the tools it  *)
(* had to bring up have a profile, and those that changed a saved record.    *)
THEOREM ProfiledBeforePlanning == Spec => []ReadyToPlan
<1>1. IInv => ReadyToPlan
  <2> SUFFICES ASSUME IInv, NEW r \in Req, pc[r] = "done", NEW t \in Internal
               PROVE  /\ changed[r] = None /\ t \notin Summarised => known[t] # None
                      /\ changed[r] # None /\ t \in changed[r] \intersect Scope(r) =>
                           known[t] # None /\ record[t] # None
    BY DEF ReadyToPlan
  <2>1. PICK i \in 1..Len(Enabled) : Enabled[i] = t
    BY Positions DEF Internal
  <2>2. i < at[r]
    BY Positions DEF IInv, Good, InPlace
  <2>3. Settled(r, t)
    BY <2>1, <2>2 DEF IInv, Good, Passed, Detecting
  <2>4. changed[r] = None => t \in Scope(r)
    BY DEF IInv, Good, OwnScope, Detecting, Scope, Internal
  <2> QED
    BY <2>3, <2>4 DEF Settled
<1> QED
  BY Invariance, <1>1, PTL

(* A forced profiling that is over has renewed the record of every tool it   *)
(* was for, however many requests looked up, probed and saved meanwhile.     *)
THEOREM ForcedProfilingRenews == Spec => []ForceRefreshes
<1>1. IInv => ForceRefreshes
  <2> SUFFICES ASSUME IInv, NEW r \in Forced, pc[r] = "done",
                      NEW t \in Scope(r) \intersect Internal
               PROVE  record[t] = tools[t]
    BY DEF ForceRefreshes
  <2>1. r \in Req
    BY ProfilingAssumption
  <2>2. PICK i \in 1..Len(Enabled) : Enabled[i] = t
    BY Positions DEF Internal
  <2>3. i < at[r]
    BY <2>1, Positions DEF IInv, Good, InPlace
  <2>4. Settled(r, t)
    BY <2>1, <2>2, <2>3 DEF IInv, Good, Passed, Detecting
  <2> QED
    BY <2>4 DEF Settled
<1> QED
  BY Invariance, <1>1, PTL

-----------------------------------------------------------------------------
\* A chat completion has the event loop from its start to its end.
LoopHeld == \A r \in OnLoop : pc[r] \notin Idle => loop = r

\* A chat completion that has to probe stays where it is, and with the loop lets in
\* no other request, for as long as the service is not restarted.
HangsForGood ==
  [][\A r \in OnLoop : pc[r] = "probe" /\ restarts' = restarts =>
       /\ pc'[r] = "probe"
       /\ \A q \in Req : pc[q] \in Idle => pc'[q] = pc[q]]_vars

LEMMA LoopHeldStep == TypeOK /\ LoopHeld /\ [Next]_vars => LoopHeld'
<1> SUFFICES ASSUME TypeOK, LoopHeld, [Next]_vars PROVE LoopHeld'
  OBVIOUS
<1> USE ProfilingAssumption DEF TypeOK, LoopHeld
<1>1. ASSUME NEW r \in Req, Start(r) PROVE LoopHeld'
  BY <1>1 DEF Start
<1>2. ASSUME NEW r \in Req, Fails(r) \/ WriteHash(r) PROVE LoopHeld'
  BY <1>2 DEF Fails, WriteHash, Idle
<1>3. ASSUME NEW r \in Req, UNCHANGED loop, pc[r] \notin Idle,
             \A q \in Req : q # r => pc'[q] = pc[q]
      PROVE  LoopHeld'
  BY <1>3
<1>4. ASSUME NEW r \in Req, Detect(r) \/ Skip(r) \/ LookUp(r) \/ Apply(r) \/ Probed(r) \/ Save(r)
      PROVE  LoopHeld'
  BY <1>3, <1>4 DEF Detect, Skip, LookUp, Apply, Probed, Save, Idle
<1>5. CASE Edit \/ Restart
  BY <1>5 DEF Edit, Restart, Idle
<1>6. CASE UNCHANGED vars
  BY <1>6 DEF vars
<1> QED
  BY <1>1, <1>2, <1>4, <1>5, <1>6 DEF Next, Step

(* _run_probe on the event loop's own thread: the probe is handed to the     *)
(* loop that waits for it.  No step of any request, with any tools, ends the *)
(* wait, and none comes in meanwhile: only a restart helps.                  *)
THEOREM ProbeOnLoopHangs == Spec => HangsForGood
<1>1. Init => LoopHeld
  BY ProfilingAssumption DEF Init, LoopHeld, Idle
<1>2. Spec => []LoopHeld
  BY <1>1, LoopHeldStep, TypeCorrect, PTL DEF Spec
<1>3. TypeOK /\ LoopHeld /\ [Next]_vars =>
        [\A r \in OnLoop : pc[r] = "probe" /\ restarts' = restarts =>
           /\ pc'[r] = "probe"
           /\ \A q \in Req : pc[q] \in Idle => pc'[q] = pc[q]]_vars
  <2> SUFFICES ASSUME TypeOK, LoopHeld, Next, NEW r \in OnLoop, pc[r] = "probe",
                      restarts' = restarts
               PROVE  /\ pc'[r] = "probe"
                      /\ \A q \in Req : pc[q] \in Idle => pc'[q] = pc[q]
    OBVIOUS
  <2>1. loop = r /\ loop # None /\ r \in Req
    BY ProfilingAssumption DEF LoopHeld, Idle
  <2>2. ~Restart
    BY ProfilingAssumption DEF Restart, TypeOK
  <2>3. CASE Edit
    BY <2>1, <2>3 DEF Edit
  <2>4. ASSUME NEW q \in Req, Start(q) PROVE FALSE
    BY <2>1, <2>4 DEF Start
  <2>5. ASSUME NEW q \in Req, Step(q)
        PROVE  q # r /\ pc[q] \notin Idle /\ \A p \in Req : p # q => pc'[p] = pc[p]
    BY <2>1, <2>5 DEF Step, Detect, Skip, LookUp, Apply, Probed, Save, Fails, WriteHash,
       Idle, TypeOK
  <2> QED
    BY <2>1, <2>2, <2>3, <2>4, <2>5 DEF Next
<1> QED
  BY <1>2, <1>3, TypeCorrect, PTL DEF Spec, HangsForGood
=============================================================================
