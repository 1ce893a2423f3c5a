--------------------------------- MODULE Ask ---------------------------------
(***************************************************************************)
(* One ask, from its plan to its response: _ask_impl (service.py), the     *)
(* bounded executor's DYNAMIC, FAN_OUT and DISTRIBUTED runs                *)
(* (v2_executor.py) and the evaluator's decision whether to take another   *)
(* step (evaluator.py).                                                    *)
(*                                                                         *)
(* The tool calls of a step run in a thread pool and end in any order; the *)
(* ask's own thread collects their results.  What the LLM and the services *)
(* answer is not determined: it is picked from all they may answer.  The   *)
(* T3 and sequential executions are left out: BoundedPlanner.build never   *)
(* asks for them.                                                          *)
(***************************************************************************)
EXTENDS Integers, Sequences, FiniteSets, SequencesExt

CONSTANTS
  ToolId,          \* the keys of service.tools
  External,        \* the tools of type external_mcp
  Split,           \* the tools asked several questions in step 1
  Required,        \* evidence_contract REQUIRED and in profile.enabled_tools
  CandidateLists,  \* the values of "candidate_tools or enabled_tools", known ids
  StopLists,       \* the keywords that the plan's stop_conditions contain
  MaxSteps, EvidenceMin, EvidenceMax, MustCite,   \* the profile's limits and policy
  MaxWorkers,      \* the 12 of ThreadPoolExecutor(max_workers=min(12, ...))
  MaxQuestions,    \* the 3 of questions[:3]
  Replies,         \* bound: the evidence lists an external service may send
  MaxPicks,        \* bound: length of a tool list the LLM selects
  MaxMissing       \* bound: missing items, and missing fields, of an evaluation

\* An evidence item: the tool, the source and the locator it names, and the place
\* of its source_type in SOURCE_PRIORITY (1 is hybrid_answer).  An external
\* service fills in all four as it likes.
Sources  == {<<t>> : t \in ToolId} \union (ToolId \X Nat \X Nat)
Evidence == [tool : ToolId, src : Sources, priority : 1..7, ok : BOOLEAN]
Results  == [ended : BOOLEAN, evidence : Seq(Evidence)]

ASSUME AskAssumption ==
  /\ Replies \subseteq Seq(Evidence)
  /\ External \subseteq Split /\ Split \subseteq ToolId /\ Required \subseteq ToolId
  /\ CandidateLists \subseteq Seq(ToolId)
  /\ StopLists \subseteq SUBSET {"coverage", "binding", "evidence", "step_budget"}
  /\ {MaxSteps, EvidenceMin, EvidenceMax, MaxMissing} \subseteq Nat
  /\ {MaxWorkers, MaxQuestions, MaxPicks} \subseteq Nat \ {0}
  /\ MustCite \in BOOLEAN

VARIABLES
  pc,         \* what the ask's thread does next
  template,   \* plan_execution.template
  cands,      \* candidate_tool_ids
  stops,      \* plan_skeleton.stop_conditions
  step,       \* step_index, 0 before the first step
  subs,       \* the step's submitted calls, in order: [tool, q]
  out,        \* what became of each: [ended, evidence]
  got,        \* the position in subs up to which results have been collected
  records,    \* result.steps: [step, tool, q, error]
  evidence,   \* result.evidence, before deduplication
  evals,      \* result.evaluations
  plans,      \* the number of step plans
  status,     \* result.status, then the final status
  answer,     \* which text the answer is: "none", "composed", "partial", "template"
  reasons,    \* final_status_reasons
  shown       \* the evidence of the response and of its trace

vars == <<pc, template, cands, stops, step, subs, out, got, records, evidence,
          evals, plans, status, answer, reasons, shown>>
planVars   == <<template, cands, stops>>
runVars    == <<step, subs, out, got, records, evidence, evals, plans>>
answerVars == <<status, answer, reasons, shown>>

-----------------------------------------------------------------------------
\* The futures dict: keyed by (tool, question), in the order the keys were first
\* inserted, each with the last call submitted under it.
NewKey(i)   == \A j \in 1..(i - 1) : subs[j] # subs[i]
FutureOf(i) == CHOOSE f \in DOMAIN subs :
                 subs[f] = subs[i] /\ \A j \in DOMAIN subs : subs[j] = subs[i] => j <= f

\* The pool starts calls in submission order, at most MaxWorkers at a time.
Pending  == [ended |-> FALSE, evidence |-> <<>>]
Running(i) ==
  /\ ~out[i].ended
  /\ Cardinality({j \in 1..(i - 1) : ~out[j].ended}) < MaxWorkers

\* call_tool never raises.  A hybrid answer is one item of the tool's own, with a
\* complete locator or, for want of a message id, a bare chat id as its source; an
\* external answer brings what its service sends; an error brings none.
BringsUntyped(i) ==                                    \* mutant: any source_type
  LET t == subs[i].tool
      item(src, priority) == [tool |-> t, src |-> src, priority |-> priority, ok |-> TRUE]
  IN  {<<>>, <<item(<<t, step, i>>, IF t \in External THEN 99 ELSE 1)>>}

Brings(i) ==
  LET t == subs[i].tool
      item(src, ok) == [tool |-> t, src |-> src, priority |-> 1, ok |-> ok]
  IN  {<<>>} \union IF t \in External THEN Replies
                    ELSE {<<item(<<t, step, i>>, TRUE)>>, <<item(<<t>>, FALSE)>>}

LocatorsOk(ev) == \A i \in DOMAIN ev : ev[i].ok

\* The items of s at the positions K, in their order: what a loop that appends
\* the items it keeps leaves.
Rank(K, i) == Cardinality({j \in K : j <= i})
At(s, K)   == [n \in 1..Cardinality(K) |-> s[CHOOSE i \in K : Rank(K, i) = n]]

\* sort_evidence(dedupe_evidence(...))[:evidence_max]: the first item of every
\* source, by the priority each item claims; the sort is stable.
Deduped(ev)   == {i \in DOMAIN ev : \A j \in 1..(i - 1) : ev[j].src # ev[i].src}
UpTo(ev, i, j) == \/ ev[j].priority < ev[i].priority
                  \/ ev[j].priority = ev[i].priority /\ j <= i
Place(ev, K, i) == Cardinality({j \in K : UpTo(ev, i, j)})
Sorted(ev, K) == [n \in 1..Cardinality(K) |->
                    ev[CHOOSE i \in K : Place(ev, K, i) = n]]
Cut(ev)    == SubSeq(ev, 1, IF Len(ev) < EvidenceMax THEN Len(ev) ELSE EvidenceMax)
ShownCutFirst(ev) ==                                   \* mutant: cut, then sort
  Sorted(ev, {i \in Deduped(ev) : Rank(Deduped(ev), i) <= EvidenceMax})
Shown(ev)  == Cut(Sorted(ev, Deduped(ev)))

\* How an execution rates its own evidence (at its end, before deduplication).
RunStatus(ev) ==
  IF ev = <<>> THEN "EMPTY"
  ELSE IF Len(ev) >= EvidenceMin THEN "SUCCESS" ELSE "PARTIAL"

\* Evaluator._should_continue.
ShouldContinueNoBudget(items, fields, ev, index) ==    \* mutant: no max_steps test
  LET enough == Len(ev) >= EvidenceMin /\ LocatorsOk(ev)
  IN  /\ ~("coverage" \in stops /\ items = 0)
      /\ ~("binding" \in stops /\ fields = 0)
      /\ items > 0 \/ fields > 0 \/ ~enough

ShouldContinue(items, fields, ev, index) ==
  LET enough == Len(ev) >= EvidenceMin /\ LocatorsOk(ev)
  IN  /\ index < MaxSteps
      /\ ~("coverage" \in stops /\ items = 0)
      /\ ~("binding" \in stops /\ fields = 0)
      /\ ~("evidence" \in stops /\ enough /\ items = 0 /\ fields = 0)
      /\ items > 0 \/ fields > 0 \/ ~enough

\* The override of _execute_dynamic: a later step that found nothing new ends the
\* run if the evidence is sufficient.
Continues(items, fields, ev, index) ==
  /\ ShouldContinue(items, fields, ev, index)
  /\ ~ /\ index > 1
       /\ items >= Last(evals).items
       /\ fields >= Last(evals).fields
       /\ Len(ev) >= EvidenceMin /\ LocatorsOk(ev)

\* _evidence_contract_ok: every REQUIRED tool that was called has its evidence.
ContractOk(ev) ==
  \A t \in Required \intersect {r.tool : r \in ToSet(records)} :
    LET items == {i \in DOMAIN ev : ev[i].tool = t}
    IN  Cardinality(items) >= EvidenceMin /\ \A i \in items : ev[i].ok

-----------------------------------------------------------------------------
Init ==
  /\ pc = "plan"
  /\ template = "none" /\ cands = <<>> /\ stops = {}
  /\ step = 0 /\ subs = <<>> /\ out = <<>> /\ got = 0
  /\ records = <<>> /\ evidence = <<>> /\ evals = <<>> /\ plans = 0
  /\ status = "none" /\ answer = "none" /\ reasons = {} /\ shown = <<>>

\* The profile is found, the plan skeleton, the plan and the route are built.
Plan ==
  /\ pc = "plan"
  /\ template' \in {"DYNAMIC", "FAN_OUT", "DISTRIBUTED"}
  /\ cands' \in CandidateLists
  /\ stops' \in StopLists
  /\ pc' = "step"
  /\ UNCHANGED <<runVars, answerVars>>

\* An unknown profile, a probe that fails, a route that cannot be made.
PlanRaises ==
  /\ pc = "plan"
  /\ pc' = "failed"
  /\ UNCHANGED <<planVars, runVars, answerVars>>

\* The calls of a step, tool by tool and question by question, are submitted.
Submit(tools, questions) ==
  /\ step' = step + 1
  /\ subs' = FlattenSeq([i \in DOMAIN tools |->
                           [q \in 1..questions[tools[i]] |->
                              [tool |-> tools[i], q |-> q]]])
  /\ out' = [i \in DOMAIN subs' |-> Pending]
  /\ got' = 0
  /\ pc' = "collect"
  /\ UNCHANGED <<planVars, records, evidence, evals, plans, answerVars>>

OneQuestion(tools) == [t \in ToSet(tools) |-> 1]

\* _filter_relevant_tools, step 1: the candidates not judged irrelevant.
Relevant == {At(cands, {i \in DOMAIN cands : cands[i] \in R}) : R \in SUBSET ToSet(cands)}

\* Step 1 of a DYNAMIC run: all the split tools get the same questions.
FirstStep ==
  /\ pc = "step" /\ template = "DYNAMIC" /\ step = 0 /\ MaxSteps > 0
  /\ \E tools \in Relevant \ {<<>>}, n \in 1..MaxQuestions :
       Submit(tools, [t \in ToSet(tools) |-> IF t \in Split THEN n ELSE 1])

\* Step 1 finds no relevant tool, or no candidate is known: the run ends at once.
NothingToAsk ==
  /\ pc = "step" /\ step = 0
  /\ \/ template = "DYNAMIC" /\ MaxSteps > 0 /\ plans' = plans + 1
     \/ template # "DYNAMIC" /\ cands = <<>> /\ UNCHANGED plans
  /\ status' = "EMPTY"
  /\ pc' = "finish"
  /\ UNCHANGED <<planVars, step, subs, out, got, records, evidence, evals,
                 answer, reasons, shown>>

\* _select_gap_tools, a later step: the LLM's list (it may repeat a tool), the
\* tools whose summary matches a gap, the unused ones or all the candidates.
HasGaps  == Last(evals).items + Last(evals).fields > 0
GapTools == {tools \in BoundedSeq(ToSet(cands), MaxPicks) : tools # <<>>}

GapStep ==
  /\ pc = "step" /\ template = "DYNAMIC" /\ step \in 1..(MaxSteps - 1)
  /\ HasGaps
  /\ \E tools \in GapTools :
       \E questions \in [ToSet(tools) -> 1..MaxQuestions] :
         /\ \A t \in ToSet(tools) \ Split : questions[t] = 1
         /\ Submit(tools, questions)

LoopEndsAtBudget ==                                    \* mutant: no "not step_tool_ids"
  /\ pc = "step" /\ template = "DYNAMIC"
  /\ step >= MaxSteps
  /\ pc' = "compose"
  /\ UNCHANGED <<planVars, runVars, answerVars>>

\* The loop ends: no gap to fill, no step left.
LoopEnds ==
  /\ pc = "step" /\ template = "DYNAMIC"
  /\ step >= MaxSteps \/ (step > 0 /\ ~HasGaps)
  /\ pc' = "compose"
  /\ UNCHANGED <<planVars, runVars, answerVars>>

\* FAN_OUT and DISTRIBUTED ask every candidate the query, once.
AskAll ==
  /\ pc = "step" /\ template \in {"FAN_OUT", "DISTRIBUTED"}
  /\ cands # <<>>
  /\ Submit(cands, OneQuestion(cands))

\* A pool thread ends a call.
CallEnds(i) ==
  /\ Running(i)
  /\ \E brought \in Brings(i) :
       out' = [out EXCEPT ![i] = [ended |-> TRUE, evidence |-> brought]]
  /\ UNCHANGED <<pc, planVars, step, subs, got, records, evidence, evals, plans,
                 answerVars>>

\* future.result(), in the order of the futures dict.
CollectAnyDone ==                                      \* mutant: as_completed
  /\ pc = "collect"
  /\ \E i \in (got + 1)..Len(subs) :
       /\ NewKey(i)
       /\ out[FutureOf(i)].ended
       /\ records' = Append(records, [step |-> step, tool |-> subs[i].tool, q |-> subs[i].q])
       /\ evidence' = evidence \o out[FutureOf(i)].evidence
       /\ got' = i
  /\ UNCHANGED <<pc, planVars, step, subs, out, evals, plans, answerVars>>

Collect ==
  /\ pc = "collect"
  /\ \E i \in (got + 1)..Len(subs) :
       /\ NewKey(i) /\ \A j \in (got + 1)..(i - 1) : ~NewKey(j)
       /\ out[FutureOf(i)].ended
       /\ records' = Append(records, [step |-> step, tool |-> subs[i].tool, q |-> subs[i].q])
       /\ evidence' = evidence \o out[FutureOf(i)].evidence
       /\ got' = i
  /\ UNCHANGED <<pc, planVars, step, subs, out, evals, plans, answerVars>>

AllCollected == \A i \in (got + 1)..Len(subs) : ~NewKey(i)

\* The pool is left when all its calls have ended, collected or not.
PoolLeftEarly == pc = "collect" /\ AllCollected        \* mutant: shutdown(wait=False)
PoolLeft ==
  /\ pc = "collect" /\ AllCollected
  /\ \A i \in DOMAIN out : out[i].ended

\* A DYNAMIC step is evaluated over all the evidence so far.
Evaluate ==
  /\ PoolLeft /\ template = "DYNAMIC"
  /\ plans' = plans + 1
  /\ \E items, fields \in 0..MaxMissing :
       LET more == Continues(items, fields, evidence, step)
       IN  /\ evals' = Append(evals, [items |-> items, fields |-> fields,
                                      continue |-> more])
           /\ pc' = IF more THEN "step" ELSE "compose"
  /\ UNCHANGED <<planVars, step, subs, out, got, records, evidence, answerVars>>

\* FAN_OUT only lists the answers, DISTRIBUTED merges them.
StepOver ==
  /\ PoolLeft /\ template # "DYNAMIC"
  /\ plans' = plans + 1
  /\ IF template = "FAN_OUT"
     THEN pc' = "finish" /\ status' = RunStatus(evidence) /\ answer' = "composed"
     ELSE pc' = "compose" /\ UNCHANGED <<status, answer>>
  /\ UNCHANGED <<planVars, step, subs, out, got, records, evidence, evals,
                 reasons, shown>>

\* The LLM writes the answer from what the tools said.
Compose ==
  /\ pc = "compose"
  /\ status' = RunStatus(evidence)
  /\ answer' = "composed"
  /\ pc' = "finish"
  /\ UNCHANGED <<planVars, runVars, reasons, shown>>

\* The final status of _ask_impl and the reasons it gives.
VerdictOnAll(ev) ==                                    \* mutant: contract before [:max]
  LET more   == \E i \in DOMAIN evals : evals[i].continue
      judged == IF more THEN IF ev = <<>> THEN "EMPTY" ELSE "PARTIAL" ELSE status
      broken == judged = "SUCCESS" /\ ~ContractOk(evidence)
      bare   == MustCite /\ ev = <<>>
      final  == IF broken \/ bare THEN "EMPTY" ELSE judged
  IN  [status |-> final, reasons |-> {}]

Verdict(ev) ==
  LET more   == \E i \in DOMAIN evals : evals[i].continue
      judged == IF more THEN IF ev = <<>> THEN "EMPTY" ELSE "PARTIAL" ELSE status
      broken == judged = "SUCCESS" /\ ~ContractOk(ev)
      bare   == MustCite /\ ev = <<>>
      final  == IF broken \/ bare THEN "EMPTY" ELSE judged
  IN  [status  |-> final,
       reasons |-> {r \in {"NEEDS_MORE_STEPS"} : more}
                     \union {r \in {"EVIDENCE_CONTRACT"} : broken}
                     \union {r \in {"NO_EVIDENCE"} : bare}
                     \union {r \in {"EMPTY"} : ~bare /\ final = "EMPTY"}]

Respond ==
  /\ pc = "finish"
  /\ LET verdict == Verdict(Shown(evidence))
     IN  /\ status' = verdict.status
         /\ reasons' = verdict.reasons
         /\ answer' = CASE verdict.status = "EMPTY"   -> "template"
                        [] verdict.status = "PARTIAL" -> "partial"
                        [] OTHER                      -> answer
  /\ shown' = Shown(evidence)
  /\ pc' = "responded"
  /\ UNCHANGED <<planVars, runVars>>

\* The ask is lost with its trace once its calls have ended: the record of the
\* evaluation refuses what the LLM listed, an external answer that is no text
\* cannot be joined, the composer's LLM or the trace file fails.
AnswerRaises ==
  /\ \/ PoolLeft /\ template # "DISTRIBUTED"
     \/ pc \in {"compose", "finish"}
  /\ pc' = "failed"
  /\ UNCHANGED <<planVars, runVars, answerVars>>

-----------------------------------------------------------------------------
Main ==
  \/ Plan \/ PlanRaises
  \/ FirstStep \/ NothingToAsk \/ GapStep \/ LoopEnds \/ AskAll
  \/ Collect \/ Evaluate \/ StepOver
  \/ Compose \/ Respond \/ AnswerRaises

Ended == pc \in {"responded", "failed"} /\ UNCHANGED vars

Next == Main \/ (\E i \in DOMAIN out : CallEnds(i)) \/ Ended

Spec == Init /\ [][Next]_vars

\* The ask's thread or the pool's moves on: every request has a timeout.
FairSpec == Spec /\ WF_vars(Next)

-----------------------------------------------------------------------------
Statuses  == {"none", "SUCCESS", "PARTIAL", "EMPTY"}

TypeOK ==
  /\ pc \in {"plan", "step", "collect", "compose", "finish", "responded", "failed"}
  /\ template \in {"none", "DYNAMIC", "FAN_OUT", "DISTRIBUTED"}
  /\ cands \in Seq(ToolId)
  /\ stops \subseteq {"coverage", "binding", "evidence", "step_budget"}
  /\ step \in Nat /\ got \in 0..Len(subs)
  /\ subs \in Seq([tool : ToolId, q : 1..MaxQuestions])
  /\ out \in [DOMAIN subs -> Results]
  /\ records \in Seq([step : Nat, tool : ToolId, q : 1..MaxQuestions])
  /\ evidence \in Seq(Evidence) /\ shown \in Seq(Evidence)
  /\ evals \in Seq([items : Nat, fields : Nat, continue : BOOLEAN])
  /\ plans \in Nat
  /\ status \in Statuses
  /\ answer \in {"none", "composed", "partial", "template"}
  /\ reasons \subseteq {"NEEDS_MORE_STEPS", "EVIDENCE_CONTRACT", "NO_EVIDENCE", "EMPTY"}

(* The PRD's "Enforced hard budgets (steps ...)": a DYNAMIC run takes at     *)
(* most max_steps steps, judges every one of them, takes another one only    *)
(* while the last judgement asks for it, and the budget's last step never    *)
(* asks for more (_execute_dynamic's loop, Evaluator._should_continue).      *)
StepBudget ==
  template = "DYNAMIC" =>
    /\ step <= MaxSteps
    /\ Len(evals) \in CASE pc = "collect" -> {step - 1}
                       [] pc = "failed"  -> {step - 1, step}
                       [] OTHER          -> {step}
    /\ \A i \in 1..(step - 1) : evals[i].continue
    /\ \A i \in DOMAIN evals : evals[i].continue => i < MaxSteps

(* However the calls of a step overtake each other, the trace lists the      *)
(* results of a step in the order its calls were submitted, each once.       *)
RecordsInOrder ==
  pc = "collect" =>
    LET new  == {i \in 1..got : NewKey(i)}
        here == At(records, {n \in DOMAIN records : records[n].step = step})
    IN  /\ Len(here) = Cardinality(new)
        /\ \A i \in new :
             LET r == here[Rank(new, i)]
             IN  r.tool = subs[i].tool /\ r.q = subs[i].q

(* No tool call outlives the step that made it, collected or not: when the   *)
(* ask goes on (or fails) its pool is empty.                                 *)
NoCallLeftBehind ==
  pc # "collect" => \A i \in DOMAIN out : out[i].ended

(* A SUCCESS is backed by what the response shows, after deduplication and   *)
(* the cut to evidence_max: for every REQUIRED tool that was called there    *)
(* are evidence_min located items that name it, a profile that must cite has *)
(* something to cite, and no step asked for more.                            *)
SuccessIsBacked ==
  pc = "responded" /\ status = "SUCCESS" =>
    /\ \A t \in Required : (\E i \in DOMAIN records : records[i].tool = t) =>
         Cardinality({i \in DOMAIN shown : shown[i].tool = t /\ shown[i].ok}) >= EvidenceMin
    /\ MustCite => shown # <<>>
    /\ \A i \in DOMAIN evals : ~evals[i].continue

(* The cut to evidence_max follows the sort, the sort the deduplication: no   *)
(* source is shown twice, the items come by their priorities, and the first  *)
(* item of a source that is not shown was left out for lack of room, by      *)
(* items of no later priority, however many items the tools brought, in what *)
(* order, and whatever priorities and sources a service claimed for its own. *)
BestShown ==
  pc = "responded" =>
    /\ \A m, n \in DOMAIN shown : shown[m].src = shown[n].src => m = n
    /\ \A m, n \in DOMAIN shown : m < n => shown[m].priority <= shown[n].priority
    /\ \A i \in Deduped(evidence) :
         (\A n \in DOMAIN shown : shown[n] # evidence[i]) =>
           /\ Len(shown) = EvidenceMax
           /\ \A n \in DOMAIN shown : shown[n].priority <= evidence[i].priority

(* doc/RATIONALE_CODES.md: "DOWNGRADE_NEEDS_MORE_STEPS: Evaluation indicates *)
(* more steps were needed."  What the run ended with needs more.             *)
NeedsMoreIsCurrent ==
  pc = "responded" /\ "NEEDS_MORE_STEPS" \in reasons => Last(evals).continue

(* Every ask ends, with a response or an error, whatever its tools do.       *)
AskEnds == pc = "plan" ~> pc \in {"responded", "failed"}
=============================================================================
