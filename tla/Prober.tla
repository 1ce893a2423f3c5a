-------------------------------- MODULE Prober --------------------------------
(***************************************************************************)
(* The probe of a tool (RuntimeProber of profiling.py): its questions are  *)
(* asked at once on an event loop of the probe's own, as many at a time as *)
(* the semaphore of that loop lets through.  A question that fails, or is  *)
(* answered with an apology, is asked again after a pause that holds no    *)
(* slot; one that fails its last attempt ends the probe, though not at     *)
(* once: until the loop comes round to it, the others go on, one of them   *)
(* in the slot that has become free.  asyncio.run then cancels them, and   *)
(* waits for the threads whose requests are still under way.               *)
(*                                                                         *)
(* The answers' text is left out; pauses take any time.  A probe of the    *)
(* event loop's own thread never gets here (Profiling).                    *)
(***************************************************************************)
EXTENDS Naturals, FiniteSets

CONSTANTS
  Probe,        \* the threads that probe
  Prefix,       \* prefix_for_tool of the tool each one probes
  MaxQuestions, \* max_questions of its prober, for a tool that is not hybrid
  RetryMax,     \* graph_schema_retry_max: attempts per question
  Limit         \* rate_limit_per_base_url

ASSUME ProberAssumption ==
  /\ Prefix \in [Probe -> {"VECTOR:", "GRAPH:", "HYBRID:", "HYBRIDCOT:", "SQL:", "none"}]
  /\ MaxQuestions \in [Probe -> Nat] /\ RetryMax \in Nat \ {0} /\ Limit \in Nat \ {0}

VARIABLES
  stage,        \* what has become of each probe
  quest,        \* and of each of its questions
  attempt       \* the attempts a question has failed

prober == <<stage, quest, attempt>>

\* question_set_for_tool: how many questions a tool is profiled with.
Questions(prefix) ==
  CASE prefix = "GRAPH:"                   -> 2
    [] prefix = "SQL:"                     -> 3
    [] prefix \in {"VECTOR:", "none"}      -> 5
    [] prefix \in {"HYBRID:", "HYBRIDCOT:"} -> 7

\* The questions of a probe: all those of a hybrid tool, the first of another.
Asked ==
  [p \in Probe |->
     LET n == Questions(Prefix[p]) IN
     1..(IF Prefix[p] \in {"HYBRID:", "HYBRIDCOT:"} \/ n <= MaxQuestions[p]
         THEN n ELSE MaxQuestions[p])]
Index == UNION {Asked[p] : p \in Probe}

With(p, states) == {q \in Asked[p] : quest[p][q] \in states}
InFlight(p)     == With(p, {"asking", "stray"})

\* The questions go on: gather knows of no failure, or has not ended the loop yet.
Looping(p) == stage[p] \in {"running", "failing"}

-----------------------------------------------------------------------------
Init ==
  /\ stage = [p \in Probe |-> "idle"]
  /\ quest = [p \in Probe |-> [q \in Index |-> "waiting"]]
  /\ attempt = [p \in Probe |-> [q \in Index |-> 0]]

Forget(p) ==
  /\ quest' = [quest EXCEPT ![p] = [q \in Index |-> "waiting"]]
  /\ attempt' = [attempt EXCEPT ![p] = [q \in Index |-> 0]]

StartProbe(p) ==
  /\ stage[p] = "idle"
  /\ stage' = [stage EXCEPT ![p] = "running"]
  /\ Forget(p)

\* The semaphore of the probe's loop and its tool's URL.
SlotFreeForEach(p) == TRUE                             \* mutant: one made per question
SlotFree(p) == Cardinality(With(p, {"asking"})) < Limit

Become(p, q, state) == quest' = [quest EXCEPT ![p][q] = state]

\* async with limiter: create_chat and send_message in a thread.
Send(p, q) ==
  /\ Looping(p) /\ q \in With(p, {"waiting"})
  /\ SlotFree(p)
  /\ Become(p, q, "asking")
  /\ UNCHANGED <<stage, attempt>>

Answer(p, q) ==
  /\ Looping(p) /\ q \in With(p, {"asking"})
  /\ Become(p, q, "answered")
  /\ attempt' = [attempt EXCEPT ![p][q] = 0]
  /\ UNCHANGED stage

\* An exception or a retryable response, with attempts left.
RetryUncounted(p, q) ==                                \* mutant: while True
  /\ Looping(p) /\ q \in With(p, {"asking"})
  /\ Become(p, q, "pausing")
  /\ UNCHANGED <<stage, attempt>>

RetryOnceMore(p, q) ==                                 \* mutant: > for >=
  /\ Looping(p) /\ q \in With(p, {"asking"})
  /\ attempt[p][q] + 1 <= RetryMax
  /\ attempt' = [attempt EXCEPT ![p][q] = @ + 1]
  /\ Become(p, q, "pausing")
  /\ UNCHANGED stage

Retry(p, q) ==
  /\ Looping(p) /\ q \in With(p, {"asking"})
  /\ attempt[p][q] + 1 < RetryMax
  /\ attempt' = [attempt EXCEPT ![p][q] = @ + 1]
  /\ Become(p, q, "pausing")
  /\ UNCHANGED stage

Resume(p, q) ==
  /\ Looping(p) /\ q \in With(p, {"pausing"})
  /\ Become(p, q, "waiting")
  /\ UNCHANGED <<stage, attempt>>

\* The last attempt: the slot is free again, and gather is told.
GiveUpOn(p, q) ==                                      \* mutant: return_exceptions=True
  /\ Looping(p) /\ q \in With(p, {"asking"})
  /\ attempt[p][q] + 1 >= RetryMax
  /\ Become(p, q, "failed")
  /\ UNCHANGED <<stage, attempt>>

GiveUp(p, q) ==
  /\ Looping(p) /\ q \in With(p, {"asking"})
  /\ attempt[p][q] + 1 >= RetryMax
  /\ Become(p, q, "failed")
  /\ stage' = [stage EXCEPT ![p] = "failing"]
  /\ UNCHANGED attempt

\* gather raises; asyncio.run cancels every task that is left, with those whose
\* turn at the semaphore has come.  A request in a thread cannot be cancelled.
Cancel(p) ==
  /\ stage[p] = "failing"
  /\ stage' = [stage EXCEPT ![p] = "closing"]
  /\ quest' = [quest EXCEPT ![p] = [q \in Index |->
       IF @[q] = "asking" THEN "stray" ELSE "cancelled"]]
  /\ attempt' = [attempt EXCEPT ![p] = [q \in Index |-> 0]]

StrayEnds(p, q) ==
  /\ q \in With(p, {"stray"})
  /\ Become(p, q, "cancelled")
  /\ UNCHANGED <<stage, attempt>>

\* asyncio.run shuts its executor down before it raises.
RaisesAtOnce(p) ==                                     \* mutant: a loop that goes on
  /\ stage[p] = "closing"
  /\ stage' = [stage EXCEPT ![p] = "idle"]
  /\ UNCHANGED <<quest, attempt>>

Raises(p) ==
  /\ stage[p] = "closing" /\ With(p, {"stray"}) = {}
  /\ stage' = [stage EXCEPT ![p] = "idle"]
  /\ Forget(p)

Returns(p) ==
  /\ stage[p] = "running"
  /\ Asked[p] \subseteq With(p, {"answered", "failed"})
  /\ stage' = [stage EXCEPT ![p] = "answered"]
  /\ UNCHANGED <<quest, attempt>>

Question(p, q) ==
  \/ Send(p, q) \/ Answer(p, q) \/ Retry(p, q) \/ Resume(p, q) \/ GiveUp(p, q)
  \/ StrayEnds(p, q)

Step(p) == Cancel(p) \/ Raises(p) \/ Returns(p) \/ \E q \in Asked[p] : Question(p, q)

\* The record goes to the disk, and the thread on to another tool.
Finish(p) ==
  /\ stage[p] = "answered"
  /\ stage' = [stage EXCEPT ![p] = "idle"]
  /\ Forget(p)

Next == \E p \in Probe : StartProbe(p) \/ Step(p) \/ Finish(p)

Spec == Init /\ [][Next]_prober

-----------------------------------------------------------------------------
TypeOK ==
  /\ stage \in [Probe -> {"idle", "running", "failing", "closing", "answered"}]
  /\ quest \in [Probe -> [Index -> {"waiting", "asking", "pausing", "answered",
                                    "failed", "cancelled", "stray"}]]
  /\ attempt \in [Probe -> [Index -> 0..(RetryMax - 1)]]

(* However its questions fail, pause and come back, a probe never has more   *)
(* requests under way than the limit, those it no longer waits for included. *)
ProbeLimited == \A p \in Probe : Cardinality(InFlight(p)) <= Limit

(* A probe that is over, one way or the other, has left no request behind it *)
(* that would come on top of those of the next.                              *)
NothingStrays ==
  \A p \in Probe : stage[p] \in {"idle", "answered"} => InFlight(p) = {}

(* A profile is made of the answers to all questions of its tool.            *)
WholeProfile ==
  \A p \in Probe : stage[p] = "answered" => With(p, {"answered"}) = Asked[p]
=============================================================================
