------------------------------ MODULE AskStream ------------------------------
(***************************************************************************)
(* A streamed ask: ReferenceAgentService.ask_stream and the two endpoints  *)
(* that read it (app.py), POST /ask/stream and the streaming POST          *)
(* /v1/chat/completions.  A thread runs the ask and puts its events on an  *)
(* unbounded queue; the endpoint's generator takes them off and writes     *)
(* them to a client that may leave at any time.                            *)
(*                                                                         *)
(* The ask is reduced to the events it emits; what it does between them is *)
(* the module Ask.  An event is a tuple: its type and, if the stream uses  *)
(* it, its step_index.                                                     *)
(***************************************************************************)
EXTENDS Integers, Sequences, SequencesExt

CONSTANTS
  Endpoints,    \* the endpoints that are looked at: "openai", "sse"
  MaxSteps,     \* the profile's max_steps
  MaxCalls      \* bound: tool calls in a step

ASSUME StreamAssumption ==
  Endpoints \subseteq {"openai", "sse"} /\ MaxSteps \in Nat \ {0} /\ MaxCalls \in Nat \ {0}

VARIABLES
  endpoint,     \* which endpoint the client asked
  reader,       \* the thread of the request: calls ask_stream, then reads
  job,          \* the thread of the ask
  template,     \* plan_execution.template
  step,         \* the step the ask is in
  calls,        \* [started, ended]: the calls of that step
  queue,        \* the Queue between the two threads
  said,         \* history: every event the ask has emitted
  heard,        \* history: what the reader has taken of it off the queue
  sentInit,     \* initialize_sent
  phase,        \* current_phase, <<>> for None
  text          \* what /v1/chat/completions wrote: think tags, status lines,
                \* the answer or the error

vars == <<endpoint, reader, job, template, step, calls, queue, said, heard,
          sentInit, phase, text>>
readerVars == <<endpoint, reader, heard, sentInit, phase, text>>

Initialize == <<"initialize">>
Done       == <<"done">>
Conclusion == {<<"final">>, <<"error">>}
Step       == 1..MaxSteps

-----------------------------------------------------------------------------
\* _format_status_event: what an event opens, what it closes, what it writes.
Opened(e) ==
  CASE e[1] = "initialize"        -> <<"initialize">>
    [] e[1] = "plan_started"      -> <<"plan">>
    [] e[1] = "step_started"      -> <<"step", e[2]>>
    [] e[1] = "composing_started" -> <<"composing">>
    [] OTHER                      -> <<>>

Closes(e) == e[1] \in {"plan_completed", "step_completed", "composing_completed"}

Written(e, open) ==
  IF Opened(e) # <<>> /\ Opened(e) # open
  THEN (IF open = <<>> THEN <<>> ELSE <<"</think>">>) \o <<"<think>", "line">>
  ELSE IF Closes(e) THEN <<"line", "</think>">> ELSE <<"line">>

PhaseAfter(e, open) ==
  IF Closes(e) THEN <<>> ELSE IF Opened(e) # <<>> THEN Opened(e) ELSE open

-----------------------------------------------------------------------------
Init ==
  /\ endpoint \in Endpoints
  /\ reader = "calling" /\ job = "unborn"
  /\ template = "none" /\ step = 0 /\ calls = [started |-> 0, ended |-> 0]
  /\ queue = <<>> /\ said = <<>> /\ heard = <<>>
  /\ sentInit = FALSE /\ phase = <<>> /\ text = <<>>

\* queue.put never waits: the queue has no bound.
PutBounded(e) == Len(queue) < 2 /\ queue' = Append(queue, e)    \* mutant: Queue(2)

Put(e) == queue' = Append(queue, e)

\* _emit to the handler of ask_stream; the ask goes on at "to".
Emit(e, to) ==
  /\ Put(e)
  /\ said' = Append(said, e)
  /\ job' = to
  /\ UNCHANGED readerVars

\* ask_stream starts the thread ...
Calls ==
  /\ reader = "calling"
  /\ reader' = "announcing"
  /\ job' = "prepare"
  /\ UNCHANGED <<endpoint, template, step, calls, queue, said, heard, sentInit,
                 phase, text>>

\* ... and then announces it.
Announces ==
  /\ reader = "announcing"
  /\ Put(Initialize)
  /\ reader' = "opening"
  /\ UNCHANGED <<endpoint, job, template, step, calls, said, heard, sentInit,
                 phase, text>>

\* The generator's first chunk; /v1/chat/completions writes its own initialize.
Opens ==
  /\ reader = "opening"
  /\ reader' = "reading"
  /\ IF endpoint = "openai"
     THEN /\ sentInit' = TRUE
          /\ text' = Written(Initialize, phase)
          /\ phase' = PhaseAfter(Initialize, phase)
     ELSE UNCHANGED <<sentInit, phase, text>>
  /\ UNCHANGED <<endpoint, job, template, step, calls, queue, said, heard>>

\* How an event appears in the text: the tags and the new phase.
Show(e) ==
  CASE e = <<"final">> -> text' = Append(text, "answer") /\ UNCHANGED phase
    [] e = <<"error">> ->
         /\ text' = text \o (IF phase # <<>> THEN <<"</think>", "error">> ELSE <<"error">>)
         /\ phase' = <<>>
    [] OTHER -> text' = text \o Written(e, phase) /\ phase' = PhaseAfter(e, phase)

\* What the client hears of the ask; initialize is the stream's, not the ask's.
Reported(e) == IF e = Initialize THEN <<>> ELSE <<e>>

ReadsShowAll ==                                        \* mutant: initialize shown again
  /\ reader = "reading" /\ queue # <<>>
  /\ queue' = Tail(queue)
  /\ IF Head(queue) = Done
     THEN reader' = "closed" /\ UNCHANGED <<heard, phase, text>>
     ELSE /\ heard' = heard \o Reported(Head(queue))
          /\ UNCHANGED reader
          /\ IF endpoint = "sse" THEN UNCHANGED <<phase, text>> ELSE Show(Head(queue))
  /\ UNCHANGED <<endpoint, job, template, step, calls, said, sentInit>>

\* The generator takes the next item, up to "done"; the tail and [DONE] follow.
Reads ==
  /\ reader = "reading" /\ queue # <<>>
  /\ queue' = Tail(queue)
  /\ IF Head(queue) = Done
     THEN reader' = "closed" /\ UNCHANGED <<heard, phase, text>>
     ELSE /\ heard' = heard \o Reported(Head(queue))
          /\ UNCHANGED reader
          /\ IF endpoint = "sse" \/ (Head(queue) = Initialize /\ sentInit)
             THEN UNCHANGED <<phase, text>>
             ELSE Show(Head(queue))
  /\ UNCHANGED <<endpoint, job, template, step, calls, said, sentInit>>

\* The client closes the connection; the generator is not resumed.
Leaves ==
  /\ reader \in {"opening", "reading"}
  /\ reader' = "gone"
  /\ UNCHANGED <<endpoint, job, template, step, calls, queue, said, heard,
                 sentInit, phase, text>>

-----------------------------------------------------------------------------
\* The profile and the tools' profiling are there: _ask_impl says it plans.
PlanStarts ==
  /\ job = "prepare"
  /\ Emit(<<"plan_started">>, "planning")
  /\ UNCHANGED <<template, step, calls>>

PlanCompletes ==
  /\ job = "planning"
  /\ template' \in {"DYNAMIC", "FAN_OUT", "DISTRIBUTED"}
  /\ Emit(<<"plan_completed">>, "steps")
  /\ UNCHANGED <<step, calls>>

StepStartsBeyond ==                                    \* mutant: range(1, max_steps + 2)
  /\ job = "steps"
  /\ step <= IF template = "DYNAMIC" THEN MaxSteps ELSE 1
  /\ step' = step + 1
  /\ calls' = [started |-> 0, ended |-> 0]
  /\ Emit(<<"step_started", step'>>, "calls")
  /\ UNCHANGED template

StepStarts ==
  /\ job = "steps"
  /\ step < IF template = "DYNAMIC" THEN MaxSteps ELSE 1
  /\ step' = step + 1
  /\ calls' = [started |-> 0, ended |-> 0]
  /\ Emit(<<"step_started", step'>>, "calls")
  /\ UNCHANGED template

\* No tool to ask: the first step is not even started, or a later one not needed.
NoStep ==
  /\ job = "steps"
  /\ step = 0 \/ template = "DYNAMIC"
  /\ job' = IF step = 0 THEN "finish" ELSE "compose"
  /\ UNCHANGED <<template, step, calls, queue, said, readerVars>>

CallStarts ==
  /\ job = "calls" /\ calls.started < MaxCalls
  /\ calls' = [calls EXCEPT !.started = @ + 1]
  /\ Emit(<<"tool_started", step>>, "calls")
  /\ UNCHANGED <<template, step>>

\* Results are reported once all calls are submitted; of calls submitted under
\* the same key only one is.
CallCompletes ==
  /\ job \in {"calls", "results"} /\ calls.ended < calls.started
  /\ calls' = [calls EXCEPT !.ended = @ + 1]
  /\ Emit(<<"tool_completed", step>>, "results")
  /\ UNCHANGED <<template, step>>

\* DYNAMIC takes another step or composes, FAN_OUT is finished.
StepCompletes ==
  /\ job = "results" /\ template # "DISTRIBUTED"
  /\ \E to \in IF template = "FAN_OUT" THEN {"finish"} ELSE {"steps", "compose"} :
       Emit(<<"step_completed", step>>, to)
  /\ UNCHANGED <<template, step, calls>>

\* DISTRIBUTED composes inside its step.
ComposingStarts ==
  /\ \/ job = "compose"
     \/ job = "results" /\ template = "DISTRIBUTED"
  /\ Emit(<<"composing_started">>, "composing")
  /\ UNCHANGED <<template, step, calls>>

ComposingCompletes ==
  /\ job = "composing"
  /\ Emit(<<"composing_completed">>, IF template = "DISTRIBUTED" THEN "composed" ELSE "finish")
  /\ UNCHANGED <<template, step, calls>>

DistributedStepCompletes ==
  /\ job = "composed"
  /\ Emit(<<"step_completed", step>>, "finish")
  /\ UNCHANGED <<template, step, calls>>

AnswersAfterDone ==                                    \* mutant: done put first
  /\ job = "finish"
  /\ queue' = queue \o <<Done, <<"final">>>>
  /\ said' = Append(said, <<"final">>)
  /\ job' = "done"
  /\ UNCHANGED <<template, step, calls, readerVars>>

\* The trace is saved and the response is there.
Answers ==
  /\ job = "finish"
  /\ Emit(<<"final">>, "done")
  /\ UNCHANGED <<template, step, calls>>

\* An unknown profile, a failed probe, no route; within a step, an evaluation that
\* cannot be recorded or answers that cannot be joined; an LLM error while answers
\* are aligned or composed; a full disk.
MayRaise ==
  \/ job \in {"prepare", "planning", "compose", "composing", "finish"}
  \/ job = "results" /\ template # "DISTRIBUTED"

RaisesSilently ==                                      \* mutant: the handler lost
  /\ MayRaise
  /\ job' = "done"
  /\ UNCHANGED <<template, step, calls, queue, said, readerVars>>

Raises ==
  /\ MayRaise
  /\ Emit(<<"error">>, "done")
  /\ UNCHANGED <<template, step, calls>>

EndsWithoutDone ==                                     \* mutant: done only after an answer
  /\ job = "done"
  /\ IF Last(said) = <<"error">> THEN UNCHANGED queue ELSE Put(Done)
  /\ job' = "ended"
  /\ UNCHANGED <<template, step, calls, said, readerVars>>

\* finally: the end-of-stream item.
Ends ==
  /\ job = "done"
  /\ Put(Done)
  /\ job' = "ended"
  /\ UNCHANGED <<template, step, calls, said, readerVars>>

-----------------------------------------------------------------------------
Reader == Calls \/ Announces \/ Opens \/ Reads

Job ==
  \/ PlanStarts \/ PlanCompletes \/ StepStarts \/ NoStep
  \/ CallStarts \/ CallCompletes \/ StepCompletes
  \/ ComposingStarts \/ ComposingCompletes \/ DistributedStepCompletes
  \/ Answers \/ Raises \/ Ends

Over == reader \in {"closed", "gone"} /\ job = "ended" /\ UNCHANGED vars

Next == Reader \/ Leaves \/ Job \/ Over

Spec == Init /\ [][Next]_vars

\* Both threads keep running; a client is not obliged to leave.
FairSpec == Spec /\ WF_vars(Reader) /\ WF_vars(Job)

-----------------------------------------------------------------------------
Event ==
  {Initialize, <<"plan_started">>, <<"plan_completed">>, <<"composing_started">>,
   <<"composing_completed">>} \union Conclusion \union
  {"step_started", "step_completed", "tool_started", "tool_completed"} \X Step

TypeOK ==
  /\ endpoint \in Endpoints
  /\ reader \in {"calling", "announcing", "opening", "reading", "closed", "gone"}
  /\ job \in {"unborn", "prepare", "planning", "steps", "calls", "results",
              "compose", "composing", "composed", "finish", "done", "ended"}
  /\ template \in {"none", "DYNAMIC", "FAN_OUT", "DISTRIBUTED"}
  /\ step \in 0..MaxSteps
  /\ calls \in [started : 0..MaxCalls, ended : 0..MaxCalls] /\ calls.ended <= calls.started
  /\ queue \in Seq(Event \union {Done})
  /\ said \in Seq(Event) /\ heard \in Seq(Event)
  /\ sentInit \in BOOLEAN
  /\ phase \in {<<>>, <<"initialize">>, <<"plan">>, <<"composing">>}
                 \union ({"step"} \X Step)
  /\ text \in Seq({"<think>", "</think>", "line", "answer", "error"})

\* The stages of the contract: the plan, the steps and the composition.
Stages == {<<"plan">>, <<"composing">>} \union ({"step"} \X Step)
Begins(s) ==
  CASE s[1] = "plan"      -> <<"plan_started">>
    [] s[1] = "composing" -> <<"composing_started">>
    [] OTHER              -> <<"step_started", s[2]>>
Completes(s) ==
  CASE s[1] = "plan"      -> <<"plan_completed">>
    [] s[1] = "composing" -> <<"composing_completed">>
    [] OTHER              -> <<"step_completed", s[2]>>
Details(s) ==
  IF s[1] # "step" THEN {} ELSE {<<"tool_started", s[2]>>, <<"tool_completed", s[2]>>}

Contract == INSTANCE StreamContract WITH Stage <- Stages, closed <- reader = "closed"

(* Whatever the threads' interleaving, and wherever the ask fails, its       *)
(* client is told of its stages in order and then of exactly one conclusion, *)
(* after which nothing but the end of the stream comes (ask_stream).         *)
KeepsContract == Contract!Spec

(* A client that stayed to the end has heard everything the ask said, in the *)
(* order it was said: nothing is left behind the end-of-stream item.         *)
NothingLost == reader = "closed" => heard = said

\* The think blocks that are open after the first n pieces of the text.
OpenBlocks(n) ==
  LET count(tag) == Cardinality({m \in 1..n : text[m] = tag})
  IN  count("<think>") - count("</think>")

(* CHANGELOG.md: "Streaming status updates now group `<think>` blocks by     *)
(* phase with an initialize event."  Every status line is in a think block,  *)
(* every block is closed before the next is opened, none is closed twice,    *)
(* and the answer or the error stands outside.                               *)
WellGrouped ==
  /\ \A n \in DOMAIN text :
       CASE text[n] \in {"answer", "error"} -> OpenBlocks(n) = 0
         [] text[n] \in {"<think>", "line"} -> OpenBlocks(n) = 1
         [] OTHER                           -> OpenBlocks(n) = 0
  /\ reader = "closed" => OpenBlocks(Len(text)) = 0

(* The text of a FAN_OUT or DYNAMIC ask is well grouped wherever the ask     *)
(* fails, an open step included (_format_status_event, the error case of     *)
(* _openai_stream_with_status).  A DISTRIBUTED ask's is not: it composes     *)
(* within its step.                                                          *)
StatusGrouped == template # "DISTRIBUTED" => WellGrouped

(* An ask whose client has left still runs to its end, where its trace and   *)
(* the tools' health are kept: no reader can hold up the thread of the ask.  *)
AskOutlivesClient == reader = "announcing" ~> job = "ended"

(* A client that does not leave is not left waiting: its stream ends.        *)
StreamEnds == reader = "announcing" ~> reader \in {"closed", "gone"}
=============================================================================
