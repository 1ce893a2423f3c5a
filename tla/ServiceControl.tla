---------------------------- MODULE ServiceControl ----------------------------
(***************************************************************************)
(* Start, stop and restart of the service: scripts/start.sh, stop.sh and   *)
(* restart.sh, run from a shell or by the admin page of the service itself *)
(* (admin/process_control.py and routes.py).  The scripts share one PID    *)
(* file and may overlap.  The page runs start.sh and stop.sh inside its    *)
(* handler, on the event loop of the service, which stands still until the *)
(* script has ended; a restart is a detached script.  A chat completion    *)
(* that is not streamed holds the loop just so for the whole of its ask,   *)
(* and for ever if that has to probe a tool (Profiling).                   *)
(*                                                                         *)
(* uvicorn is external: a SIGTERM is noticed when the loop is free, the    *)
(* port is then released, and the process exits when the requests in       *)
(* flight have been answered, for which main.py sets no time limit.        *)
(* Process ids are not used twice.  A script reads the file and tests the  *)
(* process in one step; each change of the file and each signal is a step  *)
(* of its own.  The outcome of a script that a page asked for is what the  *)
(* audit says of it.                                                       *)
(***************************************************************************)
EXTENDS Naturals, FiniteSets

CONSTANTS
  MaxPid,       \* bound: processes ever started
  Run,          \* bound: runs of the scripts
  AtOnce,       \* bound: scripts that run at the same time
  MaxAsks,      \* bound: requests in flight in a service
  MaxCrashes,   \* bound: crashes of a service
  None

Pid == 1..MaxPid

ASSUME ServiceControlAssumption ==
  /\ MaxPid \in Nat /\ MaxAsks \in Nat /\ MaxCrashes \in Nat
  /\ None \notin Pid

VARIABLES
  proc,         \* each process: what has become of it
  asks,         \* the requests it has in flight
  held,         \* what holds its event loop: a chat, one that hangs, the page, or nothing
  pidFile,      \* data/ra.pid: a process, or None
  pc,           \* where each run of a script stands
  kind,         \* what it was asked for: start, stop or restart
  by,           \* the service whose page asked for it, None for a shell
  seen,         \* the process it has read or started, or None
  overlap,      \* history: two scripts have run at the same time
  crashes       \* history: the crashes so far

control == <<proc, asks, held, pidFile, pc, kind, by, seen, overlap, crashes>>

Alive(p)   == proc[p] \in {"booting", "up", "told", "draining"}
HasPort(p) == proc[p] \in {"up", "told"}
Active     == {r \in Run : pc[r] \notin {"idle", "ok", "error"}}

\* The loop of p stands still: it waits for a script (_run_script), or a handler holds it.
Waits(p) == \E r \in Active : by[r] = p /\ kind[r] # "restart"
Busy(p) == Waits(p) \/ held[p] # "free"
Serving(p) == HasPort(p) /\ ~Busy(p)

-----------------------------------------------------------------------------
Init ==
  /\ proc = [p \in Pid |-> "new"]
  /\ asks = [p \in Pid |-> 0]
  /\ held = [p \in Pid |-> "free"]
  /\ pidFile = None
  /\ pc = [r \in Run |-> "idle"]
  /\ kind = [r \in Run |-> "start"]
  /\ by = [r \in Run |-> None]
  /\ seen = [r \in Run |-> None]
  /\ overlap = FALSE
  /\ crashes = 0

\* An operator runs a script in a shell, or asks the page of a service for it.
Command(r, k, p) ==
  /\ pc[r] = "idle" /\ Cardinality(Active) < AtOnce
  /\ p # None => Serving(p)
  /\ kind' = [kind EXCEPT ![r] = k]
  /\ by' = [by EXCEPT ![r] = p]
  /\ pc' = [pc EXCEPT ![r] = IF k = "start" THEN "check" ELSE "read"]
  /\ overlap' = (overlap \/ Active # {})
  /\ UNCHANGED <<proc, asks, held, pidFile, seen, crashes>>

Goto(r, to) == pc' = [pc EXCEPT ![r] = to]

\* start.sh: nothing to do if the PID file names a living process.
CheckFile(r) ==                                        \* mutant: only [[ -f ]]
  /\ pc[r] = "check"
  /\ Goto(r, IF pidFile = None THEN "launch" ELSE "clear")
  /\ UNCHANGED <<proc, asks, held, pidFile, kind, by, seen, overlap, crashes>>

Check(r) ==
  /\ pc[r] = "check"
  /\ Goto(r, IF pidFile = None THEN "launch"
             ELSE IF Alive(pidFile) THEN "ok" ELSE "clear")
  /\ UNCHANGED <<proc, asks, held, pidFile, kind, by, seen, overlap, crashes>>

Clear(r) ==
  /\ pc[r] = "clear"
  /\ pidFile' = None
  /\ Goto(r, "launch")
  /\ UNCHANGED <<proc, asks, held, kind, by, seen, overlap, crashes>>

Launch(r) ==
  /\ pc[r] = "launch"
  /\ \E p \in Pid :
       /\ proc[p] = "new" /\ \A q \in 1..(p - 1) : proc[q] # "new"
       /\ proc' = [proc EXCEPT ![p] = "booting"]
       /\ seen' = [seen EXCEPT ![r] = p]
  /\ Goto(r, "write")
  /\ UNCHANGED <<asks, held, pidFile, kind, by, overlap, crashes>>

WritePid(r) ==
  /\ pc[r] = "write"
  /\ pidFile' = seen[r]
  /\ Goto(r, "ok")
  /\ UNCHANGED <<proc, asks, held, kind, by, seen, overlap, crashes>>

\* stop.sh is over.  The page's restart is stop.sh && sleep 1 && start.sh,
\* restart.sh is stop.sh; start.sh.
Stopped(r, done) ==
  Goto(r, IF kind[r] = "restart" /\ (done \/ by[r] = None) THEN "check"
          ELSE IF done THEN "ok" ELSE "error")

ReadPid(r) ==
  /\ pc[r] = "read"
  /\ \/ pidFile = None /\ Stopped(r, TRUE) /\ UNCHANGED seen
     \/ /\ pidFile # None
        /\ Goto(r, IF Alive(pidFile) THEN "kill" ELSE "remove")
        /\ seen' = [seen EXCEPT ![r] = pidFile]
  /\ UNCHANGED <<proc, asks, held, pidFile, kind, by, overlap, crashes>>

\* Before uvicorn has its handler a SIGTERM kills; kill fails on a dead process.
Kill(r) ==
  /\ pc[r] = "kill"
  /\ IF Alive(seen[r])
     THEN /\ proc' = [proc EXCEPT ![seen[r]] =
                        CASE @ = "booting" -> "gone" [] @ = "up" -> "told" [] OTHER -> @]
          /\ Goto(r, "wait")
     ELSE proc' = proc /\ Stopped(r, FALSE)
  /\ UNCHANGED <<asks, held, pidFile, kind, by, seen, overlap, crashes>>

\* Ten polls, half a second apart: long enough for a service that has nothing
\* in flight and waits for no script, and no longer.
WaitForEver(r) ==                                      \* mutant: while kill -0
  /\ pc[r] = "wait"
  /\ ~Alive(seen[r]) /\ Goto(r, "remove")
  /\ UNCHANGED <<proc, asks, held, pidFile, kind, by, seen, overlap, crashes>>

Wait(r) ==
  /\ pc[r] = "wait"
  /\ \/ ~Alive(seen[r]) /\ Goto(r, "remove")
     \/ Alive(seen[r]) /\ (asks[seen[r]] > 0 \/ Waits(seen[r])) /\ Stopped(r, FALSE)
  /\ UNCHANGED <<proc, asks, held, pidFile, kind, by, seen, overlap, crashes>>

Remove(r) ==
  /\ pc[r] = "remove"
  /\ pidFile' = None
  /\ Stopped(r, TRUE)
  /\ UNCHANGED <<proc, asks, held, kind, by, seen, overlap, crashes>>

Script(r) ==
  \/ Check(r) \/ Clear(r) \/ Launch(r) \/ WritePid(r)
  \/ ReadPid(r) \/ Kill(r) \/ Wait(r) \/ Remove(r)

-----------------------------------------------------------------------------
\* The service comes up if what it loads lets it (serves) and the port is free.
Boot(p, serves) ==
  /\ proc[p] = "booting"
  /\ proc' = [proc EXCEPT ![p] =
                IF serves /\ \A q \in Pid : ~HasPort(q) THEN "up" ELSE "gone"]
  /\ UNCHANGED <<asks, held, pidFile, pc, kind, by, seen, overlap, crashes>>

TakeAsk(p) ==
  /\ Serving(p) /\ asks[p] < MaxAsks
  /\ asks' = [asks EXCEPT ![p] = @ + 1]
  /\ UNCHANGED <<proc, held, pidFile, pc, kind, by, seen, overlap, crashes>>

\* One of the requests is a chat completion, and its turn has come (app.py): its
\* handler calls service.ask on the loop.
Chat(p) ==
  /\ asks[p] > 0 /\ ~Busy(p)
  /\ \E hold \in {"chat", "hung"} : held' = [held EXCEPT ![p] = hold]
  /\ UNCHANGED <<proc, asks, pidFile, pc, kind, by, seen, overlap, crashes>>

\* A request is answered: of a thread, by a free loop, or the chat that held it.
EndAskTwice(p) ==                                      \* mutant: answered once more
  /\ ~Busy(p) \/ held[p] = "chat"
  /\ asks' = [asks EXCEPT ![p] = @ - 1]
  /\ held' = [held EXCEPT ![p] = "free"]
  /\ UNCHANGED <<proc, pidFile, pc, kind, by, seen, overlap, crashes>>

EndAsk(p) ==
  /\ asks[p] > 0
  /\ ~Busy(p) \/ held[p] = "chat"
  /\ asks' = [asks EXCEPT ![p] = @ - 1]
  /\ held' = [held EXCEPT ![p] = "free"]
  /\ UNCHANGED <<proc, pidFile, pc, kind, by, seen, overlap, crashes>>

\* The configuration page holds the loop while it writes (ConfigEditor).
BeginPage(p) ==
  /\ Serving(p)
  /\ held' = [held EXCEPT ![p] = "page"]
  /\ UNCHANGED <<proc, asks, pidFile, pc, kind, by, seen, overlap, crashes>>

EndPage(p) ==
  /\ held[p] = "page"
  /\ held' = [held EXCEPT ![p] = "free"]
  /\ UNCHANGED <<proc, asks, pidFile, pc, kind, by, seen, overlap, crashes>>

Drain(p) ==
  /\ proc[p] = "told" /\ ~Busy(p)
  /\ proc' = [proc EXCEPT ![p] = "draining"]
  /\ UNCHANGED <<asks, held, pidFile, pc, kind, by, seen, overlap, crashes>>

Exit(p) ==
  /\ proc[p] = "draining" /\ asks[p] = 0 /\ ~Busy(p)
  /\ proc' = [proc EXCEPT ![p] = "gone"]
  /\ UNCHANGED <<asks, held, pidFile, pc, kind, by, seen, overlap, crashes>>

Crash(p) ==
  /\ Alive(p) /\ crashes < MaxCrashes
  /\ crashes' = crashes + 1
  /\ proc' = [proc EXCEPT ![p] = "gone"]
  /\ asks' = [asks EXCEPT ![p] = 0]
  /\ held' = [held EXCEPT ![p] = "free"]
  /\ UNCHANGED <<pidFile, pc, kind, by, seen, overlap>>

Process(p) == TakeAsk(p) \/ Chat(p) \/ EndAsk(p) \/ Drain(p) \/ Exit(p)

Operator ==
  \E r \in Run, k \in {"start", "stop", "restart"}, p \in Pid \union {None} :
    Command(r, k, p)

Control ==
  \/ Operator
  \/ \E r \in Run : Script(r)
  \/ \E p \in Pid : Process(p)

Next ==
  \/ Control
  \/ \E p \in Pid :
       \/ \E serves \in BOOLEAN : Boot(p, serves)
       \/ BeginPage(p) \/ EndPage(p) \/ Crash(p)

Spec == Init /\ [][Next]_control

-----------------------------------------------------------------------------
State == {"new", "booting", "up", "told", "draining", "gone"}

TypeOK ==
  /\ proc \in [Pid -> State]
  /\ asks \in [Pid -> 0..MaxAsks]
  /\ held \in [Pid -> {"free", "chat", "hung", "page"}]
  /\ pidFile \in Pid \union {None}
  /\ pc \in [Run -> {"idle", "check", "clear", "launch", "write", "read", "kill",
                     "wait", "remove", "ok", "error"}]
  /\ kind \in [Run -> {"start", "stop", "restart"}]
  /\ by \in [Run -> Pid \union {None}]
  /\ seen \in [Run -> Pid \union {None}]
  /\ overlap \in BOOLEAN
  /\ crashes \in 0..MaxCrashes

(* The PID file is all that stop.sh and the status page go by: as long as    *)
(* scripts were run one after the other, and whatever crashed, gave up or    *)
(* would not start meanwhile, a service that is up is the one it names.      *)
FileNamesService ==
  ~overlap /\ Active = {} => \A p \in Pid : proc[p] = "up" => pidFile = p

(* README.md:33 "Use `Service Control` for local daemon start/stop/restart": *)
(* a stop that is asked of the page of the service that the PID file names   *)
(* is not reported as failed.                                                *)
OwnStopWorks ==
  \A r \in Run : kind[r] = "stop" /\ by[r] # None /\ seen[r] = by[r] => pc[r] # "error"

(* A service that was told to stop does, unless a chat completion that hangs *)
(* holds its loop for ever: a script of its own page gives up in the end,    *)
(* and its requests are answered.                                            *)
SignalledEnds ==
  \A p \in Pid : proc[p] = "told" ~> proc[p] = "gone" \/ held[p] = "hung"

(* admin-web-ui-design.md:135: after a restart on the page the browser       *)
(* "polls until the service is available again": it is, unless somebody      *)
(* stops it meanwhile or a chat completion hangs.                            *)
RestartComesBack ==
  \A r \in Run :
    kind[r] = "restart" /\ by[r] # None /\ pc[r] = "wait" ~>
      \/ \E p \in Pid : proc[p] = "up" \/ held[p] = "hung"
      \/ \E s \in Run \ {r} : kind[s] # "start" /\ pc[s] # "idle"
=============================================================================
