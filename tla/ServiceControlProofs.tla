------------------------- MODULE ServiceControlProofs -------------------------
(***************************************************************************)
(* Proofs about the scripts that start and stop the service, the PID file  *)
(* they share and the processes it names, for any number of runs and       *)
(* processes, however they overlap.                                        *)
(***************************************************************************)
EXTENDS ServiceControl, TLAPS

Waiting == {"check", "clear", "launch", "write", "read", "kill", "wait", "remove"}

LEMMA ActiveStates == ASSUME TypeOK PROVE Active = {r \in Run : pc[r] \in Waiting}
BY DEF TypeOK, Active, Waiting

-----------------------------------------------------------------------------
(* Every reachable state of scripts, processes and PID file is well typed.   *)
THEOREM TypeCorrect == Spec => []TypeOK
<1> USE ServiceControlAssumption DEF TypeOK, Pid
<1>1. Init => TypeOK
  <2> SUFFICES ASSUME Init
               PROVE  TypeOK
    OBVIOUS
  <2>1. /\ proc \in [Pid -> State] /\ asks \in [Pid -> 0..MaxAsks]
        /\ held \in [Pid -> {"free", "chat", "hung", "page"}]
        /\ crashes \in 0..MaxCrashes
    BY ServiceControlAssumption DEF Init, State
  <2> QED  BY <2>1 DEF Init
<1>2. TypeOK /\ [Next]_control => TypeOK'
  <2> SUFFICES ASSUME TypeOK, [Next]_control
               PROVE  TypeOK'
    OBVIOUS
  <2>1. ASSUME NEW r \in Run, NEW k \in {"start", "stop", "restart"},
               NEW p \in Pid \union {None}, Command(r, k, p)
        PROVE  TypeOK'
    BY <2>1 DEF Command
  <2>2. ASSUME NEW r \in Run, Check(r) \/ Clear(r) \/ WritePid(r) \/ Wait(r) \/ Remove(r)
        PROVE  TypeOK'
    <3>1. CASE Check(r)
      BY <3>1 DEF Check, Goto
    <3>2. CASE Clear(r)
      BY <3>2 DEF Clear, Goto
    <3>3. CASE WritePid(r)
      BY <3>3 DEF WritePid, Goto
    <3>4. CASE Wait(r)
      BY <3>4 DEF Wait, Stopped, Goto
    <3>5. CASE Remove(r)
      BY <3>5 DEF Remove, Stopped, Goto
    <3> QED  BY <2>2, <3>1, <3>2, <3>3, <3>4, <3>5
  <2>3. ASSUME NEW r \in Run, Launch(r)
        PROVE  TypeOK'
    BY <2>3 DEF Launch, Goto, State
  <2>4. ASSUME NEW r \in Run, ReadPid(r)
        PROVE  TypeOK'
    BY <2>4 DEF ReadPid, Stopped, Goto
  <2>5. ASSUME NEW r \in Run, Kill(r)
        PROVE  TypeOK'
    <3>1. CASE Alive(seen[r])
      <4>1. proc' \in [Pid -> State]
        BY <2>5, <3>1 DEF Kill, State
      <4> QED  BY <2>5, <3>1, <4>1 DEF Kill, Goto
    <3>2. CASE ~Alive(seen[r])
      BY <2>5, <3>2 DEF Kill, Stopped, Goto
    <3> QED  BY <3>1, <3>2
  <2>6. ASSUME NEW p \in Pid, Process(p)
        PROVE  TypeOK'
    <3>1. CASE TakeAsk(p)
      BY <3>1 DEF TakeAsk
    <3>2. CASE EndAsk(p)
      BY <3>2 DEF EndAsk
    <3>3. CASE Drain(p)
      BY <3>3 DEF Drain, State
    <3>4. CASE Exit(p)
      BY <3>4 DEF Exit, State
    <3>5. CASE Chat(p)
      BY <3>5 DEF Chat
    <3> QED  BY <2>6, <3>1, <3>2, <3>3, <3>4, <3>5 DEF Process
  <2>7. ASSUME NEW p \in Pid, NEW serves \in BOOLEAN, Boot(p, serves)
        PROVE  TypeOK'
    BY <2>7 DEF Boot, State
  <2>8. ASSUME NEW p \in Pid, BeginPage(p) \/ EndPage(p)
        PROVE  TypeOK'
    BY <2>8 DEF BeginPage, EndPage
  <2>9. ASSUME NEW p \in Pid, Crash(p)
        PROVE  TypeOK'
    <3>1. crashes' \in 0..MaxCrashes
      BY <2>9, ServiceControlAssumption DEF Crash
    <3>2. asks' \in [Pid -> 0..MaxAsks]
      BY <2>9, ServiceControlAssumption DEF Crash
    <3> QED  BY <2>9, <3>1, <3>2 DEF Crash, State
  <2>10. CASE UNCHANGED control
    BY <2>10 DEF control
  <2> QED
    BY <2>1, <2>2, <2>3, <2>4, <2>5, <2>6, <2>7, <2>8, <2>9, <2>10
    DEF Next, Control, Operator, Script
<1> QED  BY <1>1, <1>2, PTL DEF Spec

-----------------------------------------------------------------------------
(***************************************************************************)
(* A stop that the page of a service was asked for.  As long as nothing    *)
(* crashes, the service whose loop waits for a script keeps its port, so   *)
(* the script cannot have found it dead.                                   *)
(***************************************************************************)
WaitsUp ==
  \A r \in Run :
    by[r] # None /\ kind[r] # "restart" /\ pc[r] \in Waiting => HasPort(by[r])

StopOnly ==
  \A r \in Run :
    /\ pc[r] = "idle" => seen[r] = None
    /\ kind[r] = "stop" => pc[r] \notin {"check", "clear", "launch", "write"}
    /\ kind[r] = "stop" /\ pc[r] = "read" => seen[r] = None
    /\ kind[r] = "stop" /\ by[r] # None /\ seen[r] = by[r] => pc[r] \notin {"remove", "ok"}

Fresh == \A r \in Run : pc[r] = "idle" => seen[r] = None

OwnInv == Fresh /\ (crashes = 0 => WaitsUp /\ StopOnly)

\* A process that serves or drains keeps its port unless it drains, exits or crashes.
LEMMA PortKept ==
  ASSUME TypeOK, WaitsUp, [Next]_control, crashes' = 0,
         NEW r \in Run, by[r] # None, kind[r] # "restart", pc[r] \in Waiting
  PROVE  HasPort(by[r])'  /\ by'[r] = by[r] /\ kind'[r] = kind[r]
<1> USE ServiceControlAssumption DEF TypeOK, Pid, HasPort, State
<1>1. Busy(by[r]) /\ HasPort(by[r]) /\ by[r] \in Pid
  BY ActiveStates DEF Busy, Waits, WaitsUp
<1>2. ASSUME NEW s \in Run, NEW k, NEW p, Command(s, k, p)
      PROVE  HasPort(by[r])' /\ by'[r] = by[r] /\ kind'[r] = kind[r]
  <2>1. s # r
    BY <1>2 DEF Command, Waiting
  <2> QED  BY <1>1, <1>2, <2>1 DEF Command
<1>3. ASSUME NEW s \in Run, Script(s)
      PROVE  HasPort(by[r])' /\ by'[r] = by[r] /\ kind'[r] = kind[r]
  <2>1. CASE Launch(s)
    BY <1>1, <2>1 DEF Launch
  <2>2. CASE Kill(s)
    BY <1>1, <2>2 DEF Kill
  <2>3. CASE Check(s) \/ Clear(s) \/ WritePid(s) \/ ReadPid(s) \/ Wait(s) \/ Remove(s)
    BY <1>1, <2>3 DEF Check, Clear, WritePid, ReadPid, Wait, Remove
  <2> QED  BY <1>3, <2>1, <2>2, <2>3 DEF Script
<1>4. ASSUME NEW p \in Pid, Process(p)
      PROVE  HasPort(by[r])' /\ by'[r] = by[r] /\ kind'[r] = kind[r]
  BY <1>1, <1>4 DEF Process, TakeAsk, Chat, EndAsk, Drain, Exit
<1>5. ASSUME NEW p \in Pid,
             BeginPage(p) \/ EndPage(p) \/ Crash(p) \/ \E serves \in BOOLEAN : Boot(p, serves)
      PROVE  HasPort(by[r])' /\ by'[r] = by[r] /\ kind'[r] = kind[r]
  BY <1>1, <1>5 DEF BeginPage, EndPage, Crash, Boot
<1>6. CASE UNCHANGED control
  BY <1>1, <1>6 DEF control
<1> QED  BY <1>2, <1>3, <1>4, <1>5, <1>6 DEF Next, Control, Operator

LEMMA OwnInvInductive == TypeOK /\ OwnInv /\ [Next]_control => OwnInv'
<1> SUFFICES ASSUME TypeOK, OwnInv, [Next]_control
             PROVE  OwnInv'
  OBVIOUS
<1> USE ServiceControlAssumption DEF TypeOK, Pid
<1>0. crashes' = 0 => crashes = 0
  <2>1. \A p \in Pid : Process(p) \/ Crash(p) => (crashes' = 0 => crashes = 0)
    BY DEF Process, TakeAsk, Chat, EndAsk, Drain, Exit, Crash
  <2> QED
    BY <2>1 DEF Next, Control, Operator, Command, Script, Check, Clear, Launch, WritePid,
         ReadPid, Kill, Wait, Remove, Boot, BeginPage, EndPage, control
<1>a. ASSUME crashes' = 0, NEW r \in Run, by[r] # None, kind[r] # "restart", pc[r] \in Waiting
      PROVE  HasPort(by[r])' /\ by'[r] = by[r] /\ kind'[r] = kind[r]
  BY <1>0, <1>a, PortKept DEF OwnInv
<1>1. ASSUME NEW s \in Run, NEW k \in {"start", "stop", "restart"},
             NEW p \in Pid \union {None}, Command(s, k, p)
      PROVE  OwnInv'
  <2>1. Fresh' /\ (crashes' = 0 => StopOnly')
    BY <1>0, <1>1 DEF Command, OwnInv, Fresh, StopOnly
  <2>2. ASSUME crashes' = 0, NEW r \in Run, by'[r] # None, kind'[r] # "restart",
               pc'[r] \in Waiting
        PROVE  HasPort(by[r])'
    <3>1. CASE r = s
      BY <1>1, <2>2, <3>1 DEF Command, Serving, HasPort
    <3>2. CASE r # s
      BY <1>1, <1>a, <2>2, <3>2 DEF Command
    <3> QED  BY <3>1, <3>2
  <2> QED  BY <2>1, <2>2 DEF OwnInv, WaitsUp
<1>2. ASSUME NEW s \in Run, Script(s)
      PROVE  OwnInv'
  <2>1. /\ pc[s] \in Waiting /\ by' = by /\ kind' = kind
        /\ \A r \in Run \ {s} : pc'[r] = pc[r] /\ seen'[r] = seen[r]
        /\ pc'[s] # "idle"
    BY <1>2 DEF Script, Check, Clear, Launch, WritePid, ReadPid, Kill, Wait, Remove,
         Stopped, Goto, Waiting
  <2>2. Fresh'
    BY <2>1 DEF OwnInv, Fresh
  <2>3. ASSUME crashes' = 0
        PROVE  WaitsUp'
    BY <1>0, <1>a, <2>1, <2>3 DEF WaitsUp
  <2>4. ASSUME crashes' = 0
        PROVE  StopOnly'
    <3> USE <1>0, <2>4 DEF OwnInv, StopOnly
    <3>1. kind[s] = "stop" => pc[s] \notin {"check", "clear", "launch", "write"}
      OBVIOUS
    <3>2. kind[s] = "stop" /\ by[s] # None => HasPort(by[s]) /\ Alive(by[s])
      BY <2>1 DEF WaitsUp, HasPort, Alive
    <3>3. CASE Check(s) \/ Clear(s) \/ Launch(s) \/ WritePid(s)
      <4>1. kind[s] # "stop"
        BY <3>1, <3>3 DEF Check, Clear, Launch, WritePid
      <4> QED  BY <2>1, <4>1
    <3>4. CASE ReadPid(s)
      BY <2>1, <3>2, <3>4 DEF ReadPid, Stopped, Goto
    <3>5. CASE Kill(s)
      BY <2>1, <3>2, <3>5 DEF Kill, Stopped, Goto
    <3>6. CASE Wait(s)
      BY <2>1, <3>2, <3>6 DEF Wait, Stopped, Goto
    <3>7. CASE Remove(s)
      BY <2>1, <3>7 DEF Remove, Stopped, Goto
    <3> QED  BY <1>2, <3>3, <3>4, <3>5, <3>6, <3>7 DEF Script
  <2> QED  BY <2>2, <2>3, <2>4 DEF OwnInv
<1>3. ASSUME UNCHANGED <<pc, kind, by, seen>>
      PROVE  OwnInv'
  <2>1. Fresh' /\ (crashes' = 0 => StopOnly')
    BY <1>0, <1>3 DEF OwnInv, Fresh, StopOnly
  <2>2. crashes' = 0 => WaitsUp'
    BY <1>3, <1>a DEF WaitsUp
  <2> QED  BY <2>1, <2>2 DEF OwnInv
<1>4. ASSUME NEW p \in Pid,
             \/ Process(p) \/ BeginPage(p) \/ EndPage(p) \/ Crash(p)
             \/ \E serves \in BOOLEAN : Boot(p, serves)
      PROVE  OwnInv'
  BY <1>3, <1>4
     DEF Process, TakeAsk, Chat, EndAsk, Drain, Exit, BeginPage, EndPage, Crash, Boot
<1> QED  BY <1>1, <1>2, <1>3, <1>4 DEF Next, Control, Operator, control

OwnStopNeverDone ==
  \A r \in Run :
    crashes = 0 /\ kind[r] = "stop" /\ by[r] # None /\ seen[r] = by[r] => pc[r] # "ok"

(* A stop asked of the page of the very service that the PID file names is   *)
(* never reported as done, unless something crashes: the handler that waits  *)
(* for stop.sh keeps the service from ending (_run_script on the event       *)
(* loop).  OwnStopWorks fails always, not by chance.                         *)
THEOREM OwnStop == Spec => []OwnStopNeverDone
<1>1. Init => OwnInv
  BY DEF Init, OwnInv, Fresh, WaitsUp, StopOnly, Waiting
<1>2. OwnInv => OwnStopNeverDone
  BY DEF OwnInv, StopOnly, OwnStopNeverDone
<1> QED  BY <1>1, <1>2, OwnInvInductive, TypeCorrect, PTL DEF Spec
-----------------------------------------------------------------------------
(***************************************************************************)
(* The PID file.  While scripts run one after the other, only the script   *)
(* that runs can stand between the file and the process it names, and its  *)
(* place says how: a process it has started is not in the file yet, one it *)
(* has found dead or signalled is still there.                             *)
(***************************************************************************)
OneScript == \A r, s \in Run : pc[r] \in Waiting /\ pc[s] \in Waiting => r = s

Between(r) ==
  /\ pc[r] \in {"launch", "write"} => pidFile = None
  /\ pc[r] = "write" => seen[r] # None /\ proc[seen[r]] # "new"
  /\ pc[r] = "clear" => pidFile # None /\ proc[pidFile] = "gone"
  /\ pc[r] \in {"kill", "wait", "remove"} => pidFile # None /\ seen[r] = pidFile
  /\ pc[r] = "remove" => proc[pidFile] = "gone"

Named ==
  \A p \in Pid : proc[p] \in {"booting", "up"} =>
    pidFile = p \/ \E r \in Run : pc[r] = "write" /\ seen[r] = p

FileInv ==
  ~overlap =>
    /\ OneScript
    /\ pidFile # None => proc[pidFile] # "new"
    /\ \A r \in Run : Between(r)
    /\ Named

LEMMA FileInvInductive == TypeOK /\ FileInv /\ [Next]_control => FileInv'
<1> SUFFICES ASSUME TypeOK, FileInv, [Next]_control, ~overlap'
             PROVE  /\ OneScript'
                    /\ (pidFile # None => proc[pidFile] # "new")'
                    /\ \A r \in Run : Between(r)'
                    /\ Named'
  BY DEF FileInv
<1> DEFINE Goal == /\ OneScript'
                   /\ (pidFile # None => proc[pidFile] # "new")'
                   /\ \A r \in Run : Between(r)'
                   /\ Named'
<1> USE ServiceControlAssumption DEF TypeOK, Pid
\* The scripts have not overlapped before this step either.
<1>0. ~overlap
  <2>1. \A p \in Pid : Process(p) \/ Crash(p) => (overlap' = overlap)
    BY DEF Process, TakeAsk, Chat, EndAsk, Drain, Exit, Crash
  <2> QED
    BY <2>1 DEF Next, Control, Operator, Command, Script, Check, Clear, Launch, WritePid,
         ReadPid, Kill, Wait, Remove, Boot, BeginPage, EndPage, control
<1>a. /\ OneScript
      /\ pidFile # None => pidFile \in Pid /\ proc[pidFile] # "new"
      /\ \A r \in Run : Between(r)
      /\ Named
  BY <1>0 DEF FileInv
<1>1. ASSUME NEW s \in Run, NEW k \in {"start", "stop", "restart"},
             NEW p \in Pid \union {None}, Command(s, k, p)
      PROVE  Goal
  <2>1. \A r \in Run : pc[r] \notin Waiting
    BY <1>1, ActiveStates DEF Command
  <2>2. /\ pc' = [pc EXCEPT ![s] = IF k = "start" THEN "check" ELSE "read"]
        /\ UNCHANGED <<proc, pidFile, seen>>
    BY <1>1 DEF Command
  <2>3. \A r \in Run : pc'[r] \in Waiting => r = s /\ pc'[r] \in {"check", "read"}
    BY <2>1, <2>2
  <2>4. OneScript' /\ \A r \in Run : Between(r)'
    BY <2>3 DEF OneScript, Between, Waiting
  <2>5. Named'
    BY <1>a, <2>1, <2>2 DEF Named, Waiting
  <2> QED  BY <1>a, <2>2, <2>4, <2>5
<1>2. ASSUME NEW s \in Run, Script(s)
      PROVE  Goal
  <2>1. /\ pc[s] \in Waiting
        /\ \A r \in Run \ {s} : pc'[r] = pc[r] /\ seen'[r] = seen[r]
    BY <1>2 DEF Script, Check, Clear, Launch, WritePid, ReadPid, Kill, Wait, Remove,
         Stopped, Goto, Waiting
  <2>2. OneScript' /\ \A r \in Run \ {s} : pc[r] \notin Waiting /\ pc'[r] \notin Waiting
    BY <1>a, <2>1 DEF OneScript
  <2>3. \A r \in Run \ {s} : Between(r)'
    BY <2>2 DEF Between, Waiting
  <2>4. Between(s)
    BY <1>a
  \* Only s can stand between the file and a process, before and after the step.
  <2>5. \A p \in Pid : proc[p] \in {"booting", "up"} =>
          pidFile = p \/ (pc[s] = "write" /\ seen[s] = p)
    BY <1>a, <2>2 DEF Named, Waiting
  <2>6. (\A p \in Pid : proc'[p] \in {"booting", "up"} =>
           pidFile' = p \/ (pc'[s] = "write" /\ seen'[s] = p)) => Named'
    BY DEF Named
  <2>7. ASSUME Between(s)', pidFile' # None => proc'[pidFile'] # "new",
               \A p \in Pid : proc'[p] \in {"booting", "up"} =>
                 pidFile' = p \/ (pc'[s] = "write" /\ seen'[s] = p)
        PROVE  Goal
    BY <2>2, <2>3, <2>6, <2>7
  <2>8. CASE Check(s)
    <3>1. pidFile # None /\ ~Alive(pidFile) => proc[pidFile] = "gone"
      BY <1>a DEF Alive, State
    <3> QED  BY <1>a, <2>5, <2>7, <2>8, <3>1 DEF Check, Goto, Between
  <2>9. CASE Clear(s)
    BY <1>a, <2>4, <2>5, <2>7, <2>9 DEF Clear, Goto, Between
  <2>10. CASE Launch(s)
    BY <1>a, <2>4, <2>5, <2>7, <2>10 DEF Launch, Goto, Between
  <2>11. CASE WritePid(s)
    BY <1>a, <2>4, <2>5, <2>7, <2>11 DEF WritePid, Goto, Between
  <2>12. CASE ReadPid(s)
    <3>1. pidFile # None /\ ~Alive(pidFile) => proc[pidFile] = "gone"
      BY <1>a DEF Alive, State
    <3> QED  BY <1>a, <2>5, <2>7, <2>12, <3>1 DEF ReadPid, Stopped, Goto, Between
  <2>13. CASE Kill(s)
    <3>1. seen[s] = pidFile /\ pidFile \in Pid /\ proc[pidFile] # "new"
      BY <1>a, <2>4, <2>13 DEF Kill, Between
    <3>2. CASE Alive(seen[s])
      BY <1>a, <2>5, <2>7, <2>13, <3>1, <3>2 DEF Kill, Goto, Between
    <3>3. CASE ~Alive(seen[s])
      BY <1>a, <2>5, <2>7, <2>13, <3>1, <3>3 DEF Kill, Stopped, Goto, Between
    <3> QED  BY <3>2, <3>3
  <2>14. CASE Wait(s)
    <3>1. seen[s] = pidFile /\ pidFile \in Pid /\ proc[pidFile] # "new"
      BY <1>a, <2>4, <2>14 DEF Wait, Between
    <3>2. ~Alive(seen[s]) => proc[pidFile] = "gone"
      BY <3>1 DEF Alive, State
    <3> QED  BY <1>a, <2>5, <2>7, <2>14, <3>1, <3>2 DEF Wait, Stopped, Goto, Between
  <2>15. CASE Remove(s)
    BY <1>a, <2>4, <2>5, <2>7, <2>15 DEF Remove, Stopped, Goto, Between
  <2> QED
    BY <1>2, <2>8, <2>9, <2>10, <2>11, <2>12, <2>13, <2>14, <2>15 DEF Script
\* A process never becomes new, and none comes up that has not been booting.
<1>3. ASSUME UNCHANGED <<pc, pidFile, seen>>,
             \A p \in Pid : /\ proc'[p] = "new" => proc[p] = "new"
                            /\ proc[p] = "gone" => proc'[p] = "gone"
                            /\ proc'[p] \in {"booting", "up"} => proc[p] \in {"booting", "up"}
      PROVE  Goal
  <2>1. OneScript' /\ Named'
    BY <1>a, <1>3 DEF OneScript, Named
  <2>2. ASSUME NEW r \in Run
        PROVE  Between(r)'
    BY <1>a, <1>3 DEF Between
  <2> QED  BY <1>a, <1>3, <2>1, <2>2
<1>4. ASSUME NEW p \in Pid,
             \/ Process(p) \/ BeginPage(p) \/ EndPage(p) \/ Crash(p)
             \/ \E serves \in BOOLEAN : Boot(p, serves)
      PROVE  Goal
  <2> USE DEF Process, TakeAsk, Chat, EndAsk, Drain, Exit, BeginPage, EndPage, Crash, Boot
  <2>1. UNCHANGED <<pc, pidFile, seen>>
    BY <1>4
  <2>2. \/ proc' = proc
        \/ \E st \in State : /\ proc' = [proc EXCEPT ![p] = st]
                             /\ proc[p] # "gone" /\ st # "new" /\ st # "booting"
                             /\ st = "up" => proc[p] = "booting"
    BY <1>4 DEF State, Alive
  <2> HIDE DEF Goal
  <2> QED  BY <1>3, <2>1, <2>2
<1>5. CASE UNCHANGED control
  BY <1>3, <1>5 DEF control
<1> QED  BY <1>1, <1>2, <1>4, <1>5 DEF Next, Control, Operator

(* The PID file names the service that is up whenever no script runs, as     *)
(* long as scripts were run one after the other: start.sh, stop.sh and       *)
(* restart.sh, crashes, failed starts and given-up stops included.           *)
THEOREM PidFileNames == Spec => []FileNamesService
<1>1. Init => FileInv
  BY ServiceControlAssumption
     DEF Init, FileInv, OneScript, Between, Named, Waiting, Pid
<1>2. TypeOK /\ FileInv => FileNamesService
  BY ActiveStates DEF FileInv, Named, FileNamesService, Waiting
<1> QED  BY <1>1, <1>2, FileInvInductive, TypeCorrect, PTL DEF Spec
=============================================================================
