--------------------------- MODULE AskStreamProofs ---------------------------
(***************************************************************************)
(* Proofs about a streamed ask, for any number of steps and calls: it is   *)
(* well typed, its client misses nothing, it implements StreamContract,    *)
(* and the text written of it is well grouped.                             *)
(*                                                                         *)
(* The argument has three parts.  Delivery is about the two threads: what  *)
(* the reader has taken is the beginning of what the ask has said, and the *)
(* queue holds the rest, with initialize somewhere in it.  Telling is      *)
(* about the ask alone: every event it emits may follow those before it.   *)
(* Grouping and Showing are about the text: every event of the ask finds   *)
(* the phase it needs left by the one before it, and what is written stays *)
(* well grouped as long as each event is shown in that phase.              *)
(***************************************************************************)
EXTENDS AskStream, FiniteSetTheorems, TLAPS

Tags == {"<think>", "</think>", "line", "answer", "error"}

Phases == {<<>>, <<"initialize">>, <<"plan">>, <<"composing">>} \union ({"step"} \X Step)

\* An ask that calls tools, composes or has composed has begun a step.
StepBegun == job \in {"calls", "results", "compose", "composing", "composed"} => step >= 1

-----------------------------------------------------------------------------
\* Sequences of a set, and what Append and concatenation make of them.
LEMMA SeqGrows ==
  ASSUME NEW S, NEW s \in Seq(S), NEW e \in S
  PROVE  Append(s, e) \in Seq(S)
OBVIOUS

LEMMA TwoInSeq ==
  ASSUME NEW S, NEW s \in Seq(S), NEW t \in Seq(S)
  PROVE  s \o t \in Seq(S)
OBVIOUS

LEMMA OpenedPhase == ASSUME NEW e \in Event PROVE Opened(e) \in Phases
<1>1. CASE e \in {"step_started", "step_completed", "tool_started", "tool_completed"} \X Step
  BY <1>1 DEF Opened, Phases
<1>2. CASE e \in {Initialize, <<"plan_started">>, <<"plan_completed">>, <<"composing_started">>,
                  <<"composing_completed">>} \union Conclusion
  BY <1>2 DEF Opened, Phases, Initialize, Conclusion
<1> QED  BY <1>1, <1>2 DEF Event

LEMMA PhaseTyped ==
  ASSUME NEW e \in Event, NEW open \in Phases
  PROVE  PhaseAfter(e, open) \in Phases /\ Written(e, open) \in Seq(Tags)
<1>1. PhaseAfter(e, open) \in Phases
  BY OpenedPhase DEF PhaseAfter, Phases
<1>2. /\ <<"<think>", "line">> \in Seq(Tags) /\ <<"</think>">> \in Seq(Tags)
      /\ <<>> \in Seq(Tags) /\ <<"line", "</think>">> \in Seq(Tags) /\ <<"line">> \in Seq(Tags)
  BY DEF Tags
<1>3. (IF open = <<>> THEN <<>> ELSE <<"</think>">>) \o <<"<think>", "line">> \in Seq(Tags)
  BY <1>2, TwoInSeq
<1> QED  BY <1>1, <1>2, <1>3 DEF Written

\* What an event does to the ask's side.
LEMMA EmitTyped ==
  ASSUME TypeOK, NEW e \in Event, NEW to, Emit(e, to)
  PROVE  /\ queue' \in Seq(Event \union {Done}) /\ said' \in Seq(Event) /\ job' = to
         /\ UNCHANGED <<endpoint, reader, heard, sentInit, phase, text>>
BY SeqGrows DEF TypeOK, Emit, Put, readerVars

\* What an event does to the text.
LEMMA ShowTyped ==
  ASSUME TypeOK, NEW e \in Event, Show(e)
  PROVE  phase' \in Phases /\ text' \in Seq(Tags)
<1>1. phase \in Phases /\ text \in Seq(Tags)
  BY DEF TypeOK, Phases, Tags
<1>2. CASE e = <<"final">>
  BY <1>1, <1>2, SeqGrows DEF Show, Tags
<1>3. CASE e = <<"error">>
  <2>1. /\ <<"</think>", "error">> \in Seq(Tags)
        /\ <<"error">> \in Seq(Tags)
        /\ <<>> \in Phases
    BY DEF Tags, Phases
  <2>2. e # <<"final">>
    BY <1>3
  <2> QED  BY <1>1, <1>3, <2>1, <2>2, TwoInSeq DEF Show
<1>4. CASE e # <<"final">> /\ e # <<"error">>
  <2>1. text' = text \o Written(e, phase) /\ phase' = PhaseAfter(e, phase)
    BY <1>4 DEF Show
  <2> QED  BY <1>1, <2>1, PhaseTyped, TwoInSeq
<1> QED  BY <1>2, <1>3, <1>4

-----------------------------------------------------------------------------
LEMMA ReaderTyped ==
  ASSUME TypeOK, Reader \/ Leaves
  PROVE  TypeOK' /\ (StepBegun => StepBegun')
<1>1. phase \in Phases /\ text \in Seq(Tags) /\ Initialize \in Event
  BY DEF TypeOK, Phases, Tags, Event
<1>2. CASE Calls
  BY <1>2 DEF Calls, TypeOK, StepBegun
<1>3. CASE Announces
  <2>1. queue' \in Seq(Event \union {Done})
    BY <1>1, <1>3, SeqGrows DEF Announces, Put, TypeOK
  <2> QED  BY <1>3, <2>1 DEF Announces, TypeOK, StepBegun
<1>4. CASE Opens
  <2>1. phase' \in Phases /\ text' \in Seq(Tags) /\ sentInit' \in BOOLEAN
    BY <1>1, <1>4, PhaseTyped DEF Opens, TypeOK
  <2> QED  BY <1>4, <2>1 DEF Opens, TypeOK, StepBegun, Phases, Tags
<1>5. CASE Reads
  <2>1. Head(queue) \in Event \union {Done} /\ queue' \in Seq(Event \union {Done})
    BY <1>5 DEF Reads, TypeOK
  <2>2. CASE Head(queue) = Done
    BY <1>5, <2>1, <2>2 DEF Reads, TypeOK, StepBegun
  <2>3. CASE Head(queue) # Done
    <3>1. heard' \in Seq(Event)
      <4>1. heard' = heard \o Reported(Head(queue)) /\ Head(queue) \in Event
        BY <1>5, <2>1, <2>3 DEF Reads
      <4>2. heard \in Seq(Event) /\ Reported(Head(queue)) \in Seq(Event)
        BY <4>1 DEF TypeOK, Reported
      <4> QED  BY <4>1, <4>2, TwoInSeq
    <3>2. phase' \in Phases /\ text' \in Seq(Tags)
      BY <1>1, <1>5, <2>1, <2>3, ShowTyped DEF Reads
    <3> QED  BY <1>5, <2>1, <2>3, <3>1, <3>2 DEF Reads, TypeOK, StepBegun, Phases, Tags
  <2> QED  BY <2>2, <2>3
<1>6. CASE Leaves
  BY <1>6 DEF Leaves, TypeOK, StepBegun
<1> QED  BY <1>2, <1>3, <1>4, <1>5, <1>6 DEF Reader

LEMMA JobTyped ==
  ASSUME TypeOK, StepBegun, Job
  PROVE  TypeOK' /\ StepBegun'
<1> DEFINE Told == /\ queue' \in Seq(Event \union {Done}) /\ said' \in Seq(Event)
                   /\ UNCHANGED <<endpoint, reader, heard, sentInit, phase, text>>
<1> USE StreamAssumption
<1>1. /\ <<"plan_started">> \in Event /\ <<"plan_completed">> \in Event
      /\ <<"composing_started">> \in Event /\ <<"composing_completed">> \in Event
      /\ <<"final">> \in Event /\ <<"error">> \in Event
      /\ \A s \in Step, n \in {"step_started", "step_completed", "tool_started",
                               "tool_completed"} : <<n, s>> \in Event
  BY DEF Event, Conclusion
<1>2. step >= 1 => step \in Step
  BY DEF TypeOK, Step
<1>3. CASE PlanStarts
  BY <1>1, <1>3, EmitTyped DEF PlanStarts, TypeOK, StepBegun
<1>4. CASE PlanCompletes
  BY <1>1, <1>4, EmitTyped DEF PlanCompletes, TypeOK, StepBegun
<1>5. CASE StepStarts
  <2>1. step' = step + 1 /\ step' \in Step /\ calls' = [started |-> 0, ended |-> 0]
    BY <1>5 DEF StepStarts, TypeOK, Step
  <2>2. /\ calls' \in [started : 0..MaxCalls, ended : 0..MaxCalls]
        /\ calls'.ended <= calls'.started
    BY <2>1
  <2>3. step' \in 0..MaxSteps /\ step' >= 1
    BY <2>1 DEF Step
  <2> QED  BY <1>1, <1>5, <2>1, <2>2, <2>3, EmitTyped DEF StepStarts, TypeOK, StepBegun
<1>6. CASE NoStep
  BY <1>6 DEF NoStep, TypeOK, StepBegun, readerVars
<1>7. CASE CallStarts
  <2>1. /\ calls' \in [started : 0..MaxCalls, ended : 0..MaxCalls]
        /\ calls'.ended <= calls'.started
    BY <1>7 DEF CallStarts, TypeOK
  <2> QED  BY <1>1, <1>2, <1>7, <2>1, EmitTyped DEF CallStarts, TypeOK, StepBegun
<1>8. CASE CallCompletes
  <2>1. /\ calls' \in [started : 0..MaxCalls, ended : 0..MaxCalls]
        /\ calls'.ended <= calls'.started
    BY <1>8 DEF CallCompletes, TypeOK
  <2> QED  BY <1>1, <1>2, <1>8, <2>1, EmitTyped DEF CallCompletes, TypeOK, StepBegun
<1>9. CASE StepCompletes
  BY <1>1, <1>2, <1>9, EmitTyped DEF StepCompletes, TypeOK, StepBegun
<1>10. CASE ComposingStarts
  BY <1>1, <1>10, EmitTyped DEF ComposingStarts, TypeOK, StepBegun
<1>11. CASE ComposingCompletes
  BY <1>1, <1>11, EmitTyped DEF ComposingCompletes, TypeOK, StepBegun
<1>12. CASE DistributedStepCompletes
  BY <1>1, <1>2, <1>12, EmitTyped DEF DistributedStepCompletes, TypeOK, StepBegun
<1>13. CASE Answers
  BY <1>1, <1>13, EmitTyped DEF Answers, TypeOK, StepBegun
<1>14. CASE Raises
  BY <1>1, <1>14, EmitTyped DEF Raises, MayRaise, TypeOK, StepBegun
<1>15. CASE Ends
  <2>1. queue' \in Seq(Event \union {Done})
    BY <1>15, SeqGrows DEF Ends, Put, TypeOK
  <2> QED  BY <1>15, <2>1 DEF Ends, TypeOK, StepBegun, readerVars
<1> QED
  BY <1>3, <1>4, <1>5, <1>6, <1>7, <1>8, <1>9, <1>10, <1>11, <1>12, <1>13, <1>14, <1>15
     DEF Job

LEMMA StreamTypedInd == Spec => [](TypeOK /\ StepBegun)
<1>1. Init => TypeOK /\ StepBegun
  <2> SUFFICES ASSUME Init
               PROVE  TypeOK /\ StepBegun
    OBVIOUS
  <2>1. /\ calls \in [started : 0..MaxCalls, ended : 0..MaxCalls]
        /\ calls.ended <= calls.started
        /\ step \in 0..MaxSteps
    BY StreamAssumption DEF Init
  <2>2. queue \in Seq(Event \union {Done}) /\ said \in Seq(Event) /\ heard \in Seq(Event)
    BY DEF Init
  <2>3. text \in Seq(Tags) /\ phase \in Phases
    BY DEF Init, Phases
  <2> QED  BY <2>1, <2>2, <2>3 DEF Init, TypeOK, StepBegun, Phases, Tags
<1>2. TypeOK /\ StepBegun /\ [Next]_vars => TypeOK' /\ StepBegun'
  <2> SUFFICES ASSUME TypeOK, StepBegun, [Next]_vars
               PROVE  TypeOK' /\ StepBegun'
    OBVIOUS
  <2>1. CASE UNCHANGED vars
    BY <2>1 DEF vars, TypeOK, StepBegun
  <2> QED  BY <2>1, ReaderTyped, JobTyped DEF Next, Over
<1> QED  BY <1>1, <1>2, PTL DEF Spec

-----------------------------------------------------------------------------
(* A streamed ask emits, queues, reports and shows only what the protocol    *)
(* has: no event of a step that the profile does not allow, no phase that    *)
(* nothing has opened (ask_stream, _format_status_event).                    *)
THEOREM StreamTyped == Spec => []TypeOK
BY StreamTypedInd, PTL

-----------------------------------------------------------------------------
\* What the client is owed: what the ask has said and, once it is over, the
\* end of the stream.
Owed == IF job = "ended" THEN Append(said, Done) ELSE said

\* h has been heard of o, and q holds the rest ...
Rest(h, q, o) ==
  /\ Len(o) = Len(h) + Len(q)
  /\ \A i \in 1..Len(h) : o[i] = h[i]
  /\ \A i \in 1..Len(q) : o[Len(h) + i] = q[i]

\* ... with initialize in it, at k, from when it is announced to when it is taken.
RestAround(k, h, q, o) ==
  /\ k \in 1..Len(q) /\ q[k] = Initialize
  /\ Len(o) = Len(h) + Len(q) - 1
  /\ \A i \in 1..Len(h) : o[i] = h[i]
  /\ \A i \in 1..(k - 1) : o[Len(h) + i] = q[i]
  /\ \A i \in (k + 1)..Len(q) : o[Len(h) + i - 1] = q[i]

Awaited(h, q, o) == Rest(h, q, o) \/ \E k \in DOMAIN q : RestAround(k, h, q, o)

Flow ==
  /\ reader \in {"calling", "announcing"} => Rest(heard, queue, Owed)
  /\ reader \in {"opening", "reading"} => Awaited(heard, queue, Owed)

\* Only the stream itself says initialize.
OwnWords == \A i \in DOMAIN said : said[i] # Initialize

Delivery ==
  /\ Flow /\ OwnWords
  /\ reader = "calling" <=> job = "unborn"
  /\ reader = "closed" => heard = said /\ job = "ended"

\* Done is no event.
LEMMA DoneApart == Done \notin Event /\ Initialize # Done
BY DEF Done, Event, Initialize, Conclusion

\* An item that is put and owed ...
LEMMA RestGrows ==
  ASSUME NEW S, NEW h \in Seq(S), NEW q \in Seq(S), NEW o \in Seq(S), NEW e \in S
  PROVE  /\ Rest(h, q, o) => Rest(h, Append(q, e), Append(o, e))
         /\ Awaited(h, q, o) => Awaited(h, Append(q, e), Append(o, e))
<1> DEFINE r == Append(q, e)
           p == Append(o, e)
<1>1. /\ Len(r) = Len(q) + 1
      /\ Len(p) = Len(o) + 1
      /\ r[Len(q) + 1] = e
      /\ p[Len(o) + 1] = e
      /\ \A i \in 1..Len(q) : r[i] = q[i]
      /\ \A i \in 1..Len(o) : p[i] = o[i]
      /\ DOMAIN r = 1..(Len(q) + 1) /\ DOMAIN q = 1..Len(q) /\ Len(q) \in Nat
      /\ Len(o) \in Nat /\ Len(h) \in Nat
  OBVIOUS
<1> HIDE DEF r, p
<1>2. Rest(h, q, o) => Rest(h, r, p)
  <2> SUFFICES ASSUME Rest(h, q, o)
               PROVE  Rest(h, r, p)
    OBVIOUS
  <2>1. ASSUME NEW i \in 1..Len(h) PROVE p[i] = h[i]
    BY <1>1 DEF Rest
  <2>2. ASSUME NEW i \in 1..Len(r) PROVE p[Len(h) + i] = r[i]
    <3>1. CASE i = Len(q) + 1
      BY <1>1, <3>1 DEF Rest
    <3>2. CASE i \in 1..Len(q)
      BY <1>1, <3>2 DEF Rest
    <3> QED  BY <1>1, <3>1, <3>2
  <2>3. Len(p) = Len(h) + Len(r)
    BY <1>1 DEF Rest
  <2> QED  BY <2>1, <2>2, <2>3 DEF Rest
<1>3. ASSUME NEW k \in DOMAIN q, RestAround(k, h, q, o)
      PROVE  RestAround(k, h, r, p)
  <2>1. k \in 1..Len(r) /\ r[k] = Initialize /\ Len(p) = Len(h) + Len(r) - 1
    BY <1>1, <1>3 DEF RestAround
  <2>2. ASSUME NEW i \in 1..Len(h) PROVE p[i] = h[i]
    BY <1>1, <1>3 DEF RestAround
  <2>3. ASSUME NEW i \in 1..(k - 1) PROVE p[Len(h) + i] = r[i]
    BY <1>1, <1>3 DEF RestAround
  <2>4. ASSUME NEW i \in (k + 1)..Len(r) PROVE p[Len(h) + i - 1] = r[i]
    <3>1. CASE i = Len(q) + 1
      BY <1>1, <1>3, <3>1 DEF RestAround
    <3>2. CASE i \in (k + 1)..Len(q)
      BY <1>1, <1>3, <3>2 DEF RestAround
    <3> QED  BY <1>1, <3>1, <3>2
  <2> QED  BY <2>1, <2>2, <2>3, <2>4 DEF RestAround
<1> QED  BY <1>1, <1>2, <1>3 DEF Awaited, r, p

\* ... initialize put ...
LEMMA RestAnnounced ==
  ASSUME NEW S, NEW h \in Seq(S), NEW q \in Seq(S), NEW o \in Seq(S), Rest(h, q, o)
  PROVE  Awaited(h, Append(q, Initialize), o)
<1>1. RestAround(Len(q) + 1, h, Append(q, Initialize), o)
  BY DEF Rest, RestAround
<1> QED  BY <1>1 DEF Awaited

\* ... and the head taken: it is the next that is owed, unless it is initialize.
LEMMA RestTaken ==
  ASSUME NEW S, NEW h \in Seq(S), NEW q \in Seq(S), NEW o \in Seq(S), q # <<>>,
         \A i \in DOMAIN o : o[i] # Initialize,
         Awaited(h, q, o)
  PROVE  IF Head(q) = Initialize
         THEN Rest(h, Tail(q), o)
         ELSE /\ Len(h) < Len(o) /\ o[Len(h) + 1] = Head(q)
              /\ \A i \in 1..Len(h) : o[i] = h[i]
              /\ Awaited(Append(h, Head(q)), Tail(q), o)
<1> DEFINE g == Append(h, Head(q))
           t == Tail(q)
<1>1. /\ Len(g) = Len(h) + 1 /\ Len(q) = Len(t) + 1
      /\ g[Len(h) + 1] = Head(q) /\ Head(q) = q[1]
      /\ \A i \in 1..Len(h) : g[i] = h[i]
      /\ \A i \in 1..Len(t) : t[i] = q[i + 1]
      /\ Len(h) \in Nat /\ Len(t) \in Nat /\ Len(o) \in Nat
      /\ DOMAIN q = 1..Len(q) /\ DOMAIN t = 1..Len(t) /\ DOMAIN o = 1..Len(o)
  OBVIOUS
<1> HIDE DEF g, t
<1>2. ASSUME Rest(h, q, o)
      PROVE  /\ Len(h) < Len(o) /\ o[Len(h) + 1] = Head(q)
             /\ \A i \in 1..Len(h) : o[i] = h[i]
             /\ Awaited(Append(h, Head(q)), Tail(q), o)
  <2>1. o[Len(h) + 1] = Head(q) /\ Len(h) + 1 \in DOMAIN o
    BY <1>1, <1>2 DEF Rest
  <2>2. ASSUME NEW i \in 1..Len(g) PROVE o[i] = g[i]
    <3>1. CASE i = Len(h) + 1
      BY <1>1, <2>1, <3>1
    <3>2. CASE i \in 1..Len(h)
      BY <1>1, <1>2, <3>2 DEF Rest
    <3> QED  BY <1>1, <3>1, <3>2
  <2>3. ASSUME NEW i \in 1..Len(t) PROVE o[Len(g) + i] = t[i]
    <3>1. i + 1 \in 1..Len(q) /\ Len(g) + i = Len(h) + (i + 1)
      BY <1>1
    <3> QED  BY <1>1, <1>2, <3>1 DEF Rest
  <2>4. Len(o) = Len(g) + Len(t)
    BY <1>1, <1>2 DEF Rest
  <2>5. Rest(g, t, o)
    BY <2>2, <2>3, <2>4 DEF Rest
  <2>6. \A i \in 1..Len(h) : o[i] = h[i]
    BY <1>2 DEF Rest
  <2> QED  BY <1>1, <2>1, <2>5, <2>6 DEF Awaited, g, t
<1>3. ASSUME NEW k \in DOMAIN q, RestAround(k, h, q, o), k = 1
      PROVE  Head(q) = Initialize /\ Rest(h, t, o)
  <2>1. ASSUME NEW i \in 1..Len(t) PROVE o[Len(h) + i] = t[i]
    <3>1. i + 1 \in (k + 1)..Len(q) /\ Len(h) + (i + 1) - 1 = Len(h) + i
      BY <1>1, <1>3
    <3> QED  BY <1>1, <1>3, <3>1 DEF RestAround
  <2>2. Len(o) = Len(h) + Len(t)
    BY <1>1, <1>3 DEF RestAround
  <2> QED  BY <1>1, <1>3, <2>1, <2>2 DEF Rest, RestAround
<1>4. ASSUME NEW k \in DOMAIN q, RestAround(k, h, q, o), k # 1
      PROVE  /\ Len(h) < Len(o) /\ o[Len(h) + 1] = Head(q)
             /\ \A i \in 1..Len(h) : o[i] = h[i]
             /\ RestAround(k - 1, g, t, o) /\ k - 1 \in DOMAIN t
  <2>1. o[Len(h) + 1] = Head(q) /\ Len(h) < Len(o)
    <3>1. 1 \in 1..(k - 1)
      BY <1>1, <1>4
    <3> QED  BY <1>1, <1>4, <3>1 DEF RestAround
  <2>2. ASSUME NEW i \in 1..Len(g) PROVE o[i] = g[i]
    <3>1. CASE i = Len(h) + 1
      BY <1>1, <2>1, <3>1
    <3>2. CASE i \in 1..Len(h)
      BY <1>1, <1>4, <3>2 DEF RestAround
    <3> QED  BY <1>1, <3>1, <3>2
  <2>3. ASSUME NEW i \in 1..(k - 1 - 1) PROVE o[Len(g) + i] = t[i]
    <3>1. i + 1 \in 1..(k - 1) /\ Len(g) + i = Len(h) + (i + 1) /\ i \in 1..Len(t)
      BY <1>1, <1>4
    <3> QED  BY <1>1, <1>4, <3>1 DEF RestAround
  <2>4. ASSUME NEW i \in (k - 1 + 1)..Len(t) PROVE o[Len(g) + i - 1] = t[i]
    <3>1. /\ i + 1 \in (k + 1)..Len(q) /\ Len(g) + i - 1 = Len(h) + (i + 1) - 1
          /\ i \in 1..Len(t)
      BY <1>1, <1>4
    <3> QED  BY <1>1, <1>4, <3>1 DEF RestAround
  <2>5. k - 1 \in 1..Len(t) /\ t[k - 1] = Initialize /\ Len(o) = Len(g) + Len(t) - 1
    <3>1. k - 1 \in 1..Len(t) /\ (k - 1) + 1 = k
      BY <1>1, <1>4
    <3> QED  BY <1>1, <1>4, <3>1 DEF RestAround
  <2> QED  BY <1>1, <1>4, <2>1, <2>2, <2>3, <2>4, <2>5 DEF RestAround
<1>5. Head(q) # Initialize \/ ~Rest(h, q, o)
  <2>1. Rest(h, q, o) => o[Len(h) + 1] = Head(q) /\ Len(h) + 1 \in DOMAIN o
    BY <1>1 DEF Rest
  <2> QED  BY <2>1
<1> QED
  <2>1. CASE Rest(h, q, o)
    BY <1>2, <1>5, <2>1
  <2>2. CASE ~Rest(h, q, o)
    <3>1. PICK k \in DOMAIN q : RestAround(k, h, q, o)
      BY <2>2 DEF Awaited
    <3>2. CASE k = 1
      BY <1>3, <3>1, <3>2 DEF t
    <3>3. CASE k # 1
      <4>1. Head(q) # Initialize
        BY <1>1, <1>4, <3>1, <3>3
      <4>2. Awaited(g, t, o)
        BY <1>4, <3>1, <3>3 DEF Awaited
      <4> QED  BY <1>4, <3>1, <3>3, <4>1, <4>2 DEF g, t
    <3> QED  BY <3>2, <3>3
  <2> QED  BY <2>1, <2>2

-----------------------------------------------------------------------------
LEMMA OwedTyped ==
  ASSUME TypeOK, OwnWords
  PROVE  /\ Owed \in Seq(Event \union {Done}) /\ heard \in Seq(Event \union {Done})
         /\ queue \in Seq(Event \union {Done}) /\ said \in Seq(Event \union {Done})
         /\ \A i \in DOMAIN Owed : Owed[i] # Initialize
<1>1. /\ said \in Seq(Event \union {Done}) /\ heard \in Seq(Event \union {Done})
      /\ queue \in Seq(Event \union {Done})
  BY DEF TypeOK
<1>2. Append(said, Done) \in Seq(Event \union {Done})
  BY <1>1, SeqGrows
<1>3. \A i \in DOMAIN Append(said, Done) : Append(said, Done)[i] # Initialize
  BY <1>1, DoneApart DEF OwnWords
<1> QED  BY <1>1, <1>2, <1>3 DEF Owed, OwnWords

\* An event of the ask is owed to the client and put for it.
LEMMA EmitDelivers ==
  ASSUME TypeOK, Delivery, NEW e \in Event \ {Initialize}, NEW to, Emit(e, to),
         job \notin {"unborn", "ended"}, to \notin {"unborn", "ended"}
  PROVE  Delivery'
<1>1. /\ queue' = Append(queue, e) /\ said' = Append(said, e) /\ heard' = heard
      /\ reader' = reader /\ Owed = said /\ Owed' = Append(said, e) /\ e \in Event \union {Done}
  BY DEF Emit, Put, readerVars, Owed
<1>2. Flow'
  <2>1. /\ Rest(heard, queue, said) => Rest(heard, Append(queue, e), Append(said, e))
        /\ Awaited(heard, queue, said) => Awaited(heard, Append(queue, e), Append(said, e))
    BY <1>1, OwedTyped, RestGrows DEF Delivery
  <2> QED  BY <1>1, <2>1 DEF Flow, Delivery
<1>3. OwnWords'
  BY <1>1 DEF OwnWords, Delivery, TypeOK
<1> QED  BY <1>1, <1>2, <1>3 DEF Delivery, Emit

\* The reader takes what is owed next, or initialize.
LEMMA NextOwed ==
  ASSUME TypeOK, Delivery, Reads
  PROVE  IF Head(queue) = Initialize
         THEN Rest(heard, Tail(queue), Owed)
         ELSE /\ Len(heard) < Len(Owed) /\ Owed[Len(heard) + 1] = Head(queue)
              /\ \A i \in 1..Len(heard) : Owed[i] = heard[i]
              /\ Awaited(Append(heard, Head(queue)), Tail(queue), Owed)
BY OwedTyped, RestTaken DEF Reads, Delivery, Flow

LEMMA ReaderDelivers ==
  ASSUME TypeOK, Delivery, Reader \/ Leaves
  PROVE  Delivery'
<1>1. CASE Calls
  BY <1>1 DEF Calls, Delivery, Flow, OwnWords, Owed
<1>2. CASE Announces
  <2>1. Awaited(heard, Append(queue, Initialize), Owed)
    BY <1>2, OwedTyped, RestAnnounced DEF Announces, Delivery, Flow
  <2>2. /\ queue' = Append(queue, Initialize) /\ heard' = heard /\ Owed' = Owed /\ OwnWords'
        /\ reader' = "opening" /\ job' = job /\ job # "unborn"
    BY <1>2 DEF Announces, Put, Owed, OwnWords, Delivery
  <2> QED  BY <2>1, <2>2 DEF Delivery, Flow
<1>3. CASE Opens
  BY <1>3 DEF Opens, Delivery, Flow, OwnWords, Owed
<1>4. CASE Leaves
  BY <1>4 DEF Leaves, Delivery, Flow, OwnWords, Owed
<1>5. CASE Reads
  <2>1. IF Head(queue) = Initialize
        THEN Rest(heard, Tail(queue), Owed)
        ELSE /\ Len(heard) < Len(Owed) /\ Owed[Len(heard) + 1] = Head(queue)
             /\ \A i \in 1..Len(heard) : Owed[i] = heard[i]
             /\ Awaited(Append(heard, Head(queue)), Tail(queue), Owed)
    BY <1>5, NextOwed
  <2>2. /\ queue' = Tail(queue) /\ Owed' = Owed /\ OwnWords' /\ job' = job /\ job # "unborn"
        /\ reader = "reading" /\ said' = said
    BY <1>5 DEF Reads, Owed, OwnWords, Delivery
  <2>3. CASE Head(queue) = Done
    <3>1. reader' = "closed" /\ heard' = heard
      BY <1>5, <2>3 DEF Reads
    <3>2. /\ Len(heard) < Len(Owed) /\ Owed[Len(heard) + 1] = Done
          /\ \A i \in 1..Len(heard) : Owed[i] = heard[i]
      BY <2>1, <2>3, DoneApart
    <3>3. \A i \in 1..Len(said) : said[i] # Done
      BY DoneApart DEF TypeOK
    <3>4. job = "ended"
      BY <3>2, <3>3 DEF Owed, TypeOK
    <3>5. Len(heard) = Len(said) /\ \A i \in 1..Len(heard) : said[i] = heard[i]
      BY <3>2, <3>3, <3>4 DEF Owed, TypeOK
    <3>6. heard = said
      BY <3>5 DEF TypeOK
    <3> QED  BY <2>2, <3>1, <3>4, <3>6 DEF Delivery, Flow
  <2>4. CASE Head(queue) # Done
    <3>1. reader' = reader /\ heard' = heard \o Reported(Head(queue))
      BY <1>5, <2>4 DEF Reads
    <3>2. CASE Head(queue) = Initialize
      <4>1. heard' = heard
        BY <3>1, <3>2 DEF Reported, TypeOK
      <4> QED  BY <2>1, <2>2, <3>1, <3>2, <4>1 DEF Delivery, Flow, Awaited
    <3>3. CASE Head(queue) # Initialize
      <4>1. heard' = Append(heard, Head(queue))
        BY <3>1, <3>3 DEF Reported, TypeOK
      <4> QED  BY <2>1, <2>2, <3>1, <3>3, <4>1 DEF Delivery, Flow
    <3> QED  BY <3>2, <3>3
  <2> QED  BY <2>3, <2>4
<1> QED  BY <1>1, <1>2, <1>3, <1>4, <1>5 DEF Reader

LEMMA JobDelivers ==
  ASSUME TypeOK, StepBegun, Delivery, Job
  PROVE  Delivery'
<1> USE StreamAssumption
<1>1. /\ <<"plan_started">> \in Event \ {Initialize}
      /\ <<"plan_completed">> \in Event \ {Initialize}
      /\ <<"composing_started">> \in Event \ {Initialize}
      /\ <<"composing_completed">> \in Event \ {Initialize}
      /\ <<"final">> \in Event \ {Initialize} /\ <<"error">> \in Event \ {Initialize}
      /\ \A s \in Step, n \in {"step_started", "step_completed", "tool_started",
                               "tool_completed"} : <<n, s>> \in Event \ {Initialize}
  BY DEF Event, Conclusion, Initialize
<1>2. step >= 1 => step \in Step
  BY DEF TypeOK, Step
<1>3. CASE PlanStarts
  BY <1>1, <1>3, EmitDelivers DEF PlanStarts
<1>4. CASE PlanCompletes
  BY <1>1, <1>4, EmitDelivers DEF PlanCompletes
<1>5. CASE StepStarts
  <2>1. step + 1 \in Step /\ step' = step + 1
    BY <1>5 DEF StepStarts, TypeOK, Step
  <2>2. /\ <<"step_started", step + 1>> \in Event \ {Initialize}
        /\ job \notin {"unborn", "ended"}
    BY <1>1, <1>5, <2>1 DEF StepStarts
  <2>3. Emit(<<"step_started", step + 1>>, "calls")
    BY <1>5, <2>1 DEF StepStarts, Emit, Put
  <2> QED  BY <2>2, <2>3, EmitDelivers
<1>6. CASE NoStep
  BY <1>6 DEF NoStep, readerVars, Delivery, Flow, OwnWords, Owed
<1>7. CASE CallStarts
  <2>1. <<"tool_started", step>> \in Event \ {Initialize}
    BY <1>1, <1>2, <1>7 DEF CallStarts, StepBegun
  <2>2. Emit(<<"tool_started", step>>, "calls") /\ job \notin {"unborn", "ended"}
    BY <1>7 DEF CallStarts
  <2> QED  BY <2>1, <2>2, EmitDelivers
<1>8. CASE CallCompletes
  <2>1. <<"tool_completed", step>> \in Event \ {Initialize}
    BY <1>1, <1>2, <1>8 DEF CallCompletes, StepBegun
  <2>2. Emit(<<"tool_completed", step>>, "results") /\ job \notin {"unborn", "ended"}
    BY <1>8 DEF CallCompletes
  <2> QED  BY <2>1, <2>2, EmitDelivers
<1>9. CASE StepCompletes
  BY <1>1, <1>2, <1>9, EmitDelivers DEF StepCompletes, StepBegun
<1>10. CASE ComposingStarts
  BY <1>1, <1>10, EmitDelivers DEF ComposingStarts
<1>11. CASE ComposingCompletes
  <2>1. PICK to \in {"composed", "finish"} : Emit(<<"composing_completed">>, to)
    BY <1>11 DEF ComposingCompletes
  <2> QED  BY <1>1, <1>11, <2>1, EmitDelivers DEF ComposingCompletes
<1>12. CASE DistributedStepCompletes
  <2>1. <<"step_completed", step>> \in Event \ {Initialize}
    BY <1>1, <1>2, <1>12 DEF DistributedStepCompletes, StepBegun
  <2>2. Emit(<<"step_completed", step>>, "finish") /\ job \notin {"unborn", "ended"}
    BY <1>12 DEF DistributedStepCompletes
  <2> QED  BY <2>1, <2>2, EmitDelivers
<1>13. CASE Answers
  BY <1>1, <1>13, EmitDelivers DEF Answers
<1>14. CASE Raises
  BY <1>1, <1>14, EmitDelivers DEF Raises, MayRaise
<1>15. CASE Ends
  <2>1. /\ queue' = Append(queue, Done)
        /\ said' = said
        /\ heard' = heard
        /\ reader' = reader
        /\ Owed = said /\ Owed' = Append(said, Done) /\ Done \in Event \union {Done}
    BY <1>15 DEF Ends, Put, readerVars, Owed
  <2>2. /\ Rest(heard, queue, said) => Rest(heard, Append(queue, Done), Append(said, Done))
        /\ Awaited(heard, queue, said) => Awaited(heard, Append(queue, Done), Append(said, Done))
    BY <2>1, OwedTyped, RestGrows DEF Delivery
  <2> QED  BY <1>15, <2>1, <2>2 DEF Ends, Delivery, Flow, OwnWords
<1> QED
  BY <1>3, <1>4, <1>5, <1>6, <1>7, <1>8, <1>9, <1>10, <1>11, <1>12, <1>13, <1>14, <1>15
     DEF Job

LEMMA StreamInvariant == Spec => [](TypeOK /\ StepBegun /\ Delivery)
<1>1. Init => Delivery
  <2> SUFFICES ASSUME Init
               PROVE  Delivery
    OBVIOUS
  <2>1. /\ heard = <<>> /\ queue = <<>> /\ Owed = <<>> /\ said = <<>> /\ reader = "calling"
        /\ job = "unborn"
    BY DEF Init, Owed
  <2>2. Rest(heard, queue, Owed)
    BY <2>1 DEF Rest
  <2> QED  BY <2>1, <2>2 DEF Delivery, Flow, OwnWords
<1>2. TypeOK /\ StepBegun /\ Delivery /\ [Next]_vars => Delivery'
  <2> SUFFICES ASSUME TypeOK, StepBegun, Delivery, [Next]_vars
               PROVE  Delivery'
    OBVIOUS
  <2>1. CASE UNCHANGED vars
    BY <2>1 DEF vars, Delivery, Flow, OwnWords, Owed
  <2> QED  BY <2>1, ReaderDelivers, JobDelivers DEF Next, Over
<1> QED  BY <1>1, <1>2, StreamTypedInd, PTL DEF Spec

(* A client that stayed to the end has heard everything the ask said, in its *)
(* order, whenever the thread of the request gets to announce the stream:    *)
(* even when the ask is over and its end-of-stream item queued before that   *)
(* (ask_stream starts the thread of the ask and then announces it).          *)
THEOREM StreamDelivers == Spec => []NothingLost
<1>1. Delivery => NothingLost
  BY DEF Delivery, NothingLost
<1> QED  BY <1>1, StreamInvariant, PTL

-----------------------------------------------------------------------------
\* What may be reported after T: the contract's steps, of a set of reports.
Allowed(e, T) ==
  /\ T \intersect Conclusion = {}
  /\ \/ e \in Conclusion
     \/ \E s \in Stages : e = Begins(s) /\ e \notin T
     \/ \E s \in Stages : /\ e = Completes(s) \/ e \in Details(s)
                         /\ Begins(s) \in T /\ Completes(s) \notin T

Before(h, n) == {h[m] : m \in 1..(n - 1)}

Legal(h) == \A n \in DOMAIN h : Allowed(h[n], Before(h, n))

\* The stages that the ask has opened and not closed, as far as it has got.
Told     == ToSet(said)
InStep   == \/ job \in {"calls", "results", "composed"}
            \/ job = "composing" /\ template = "DISTRIBUTED"
Composed == job \in {"composing", "composed", "finish", "done", "ended"}

\* Nothing is said of the steps after the k-th.
Ahead(T, k) ==
  \A i \in Step : i > k => <<"step_started", i>> \notin T /\ <<"step_completed", i>> \notin T

Progress ==
  /\ job \in {"done", "ended"} <=> Told \intersect Conclusion # {}
  /\ job \in {"unborn", "prepare"} => said = <<>>
  /\ job = "planning" => <<"plan_started">> \in Told /\ <<"plan_completed">> \notin Told
  /\ Ahead(Told, step)
  /\ InStep => <<"step_started", step>> \in Told /\ <<"step_completed", step>> \notin Told
  /\ ~Composed => <<"composing_started">> \notin Told /\ <<"composing_completed">> \notin Told
  /\ job = "composing" => <<"composing_started">> \in Told /\ <<"composing_completed">> \notin Told
  /\ job = "compose" => template # "DISTRIBUTED"

Telling == Legal(said) /\ Progress

\* The reports about each stage.
LEMMA StageReports ==
  /\ <<"plan">> \in Stages /\ Begins(<<"plan">>) = <<"plan_started">>
  /\ Completes(<<"plan">>) = <<"plan_completed">>
  /\ <<"composing">> \in Stages /\ Begins(<<"composing">>) = <<"composing_started">>
  /\ Completes(<<"composing">>) = <<"composing_completed">>
  /\ \A i \in Step : /\ <<"step", i>> \in Stages
                     /\ Begins(<<"step", i>>) = <<"step_started", i>>
                     /\ Completes(<<"step", i>>) = <<"step_completed", i>>
                     /\ Details(<<"step", i>>) = {<<"tool_started", i>>, <<"tool_completed", i>>}
<1>1. ASSUME NEW i \in Step
      PROVE  /\ <<"step", i>> \in Stages
             /\ Begins(<<"step", i>>) = <<"step_started", i>>
             /\ Completes(<<"step", i>>) = <<"step_completed", i>>
             /\ Details(<<"step", i>>) = {<<"tool_started", i>>, <<"tool_completed", i>>}
  BY DEF Stages, Begins, Completes, Details
<1> QED  BY <1>1 DEF Stages, Begins, Completes

LEMMA AheadKept ==
  ASSUME NEW T, NEW k \in Nat, NEW j \in Nat, k <= j, Ahead(T, k), NEW e,
         \A i \in Step : i > j => e # <<"step_started", i>> /\ e # <<"step_completed", i>>
  PROVE  Ahead(T \union {e}, j)
BY DEF Ahead, Step

\* What may be said of a stage.
LEMMA StageAllowed ==
  ASSUME NEW s \in Stages, NEW T, T \intersect Conclusion = {}
  PROVE  /\ Begins(s) \notin T => Allowed(Begins(s), T)
         /\ Begins(s) \in T /\ Completes(s) \notin T =>
              Allowed(Completes(s), T) /\ \A e \in Details(s) : Allowed(e, T)
BY DEF Allowed

\* A report that is allowed keeps the reports legal and is among those told.
LEMMA EmitTells ==
  ASSUME TypeOK, Legal(said), NEW e \in Event, NEW to, Emit(e, to), Allowed(e, Told)
  PROVE  Legal(said)' /\ Told' = Told \union {e}
<1>1. said \in Seq(Event) /\ said' = Append(said, e)
  BY DEF TypeOK, Emit
<1>2. /\ DOMAIN said = 1..Len(said)
      /\ DOMAIN said' = 1..(Len(said) + 1)
      /\ Len(said) \in Nat
      /\ said'[Len(said) + 1] = e
      /\ \A i \in 1..Len(said) : said'[i] = said[i]
  BY <1>1
<1>3. Told' = Told \union {e}
  BY <1>2 DEF Told, ToSet
<1>4. ASSUME NEW n \in DOMAIN said' PROVE Allowed(said'[n], Before(said', n))
  <2>1. CASE n \in 1..Len(said)
    <3>1. said'[n] = said[n] /\ Before(said', n) = Before(said, n)
      BY <1>2, <2>1 DEF Before
    <3> QED  BY <1>2, <2>1, <3>1 DEF Legal
  <2>2. CASE n = Len(said) + 1
    <3>1. Before(said', n) = Told
      BY <1>2, <2>2 DEF Before, Told, ToSet
    <3> QED  BY <1>2, <2>2, <3>1
  <2> QED  BY <1>2, <2>1, <2>2
<1>5. Legal(said)'
  BY <1>4 DEF Legal
<1> QED  BY <1>3, <1>5

LEMMA JobTells ==
  ASSUME TypeOK, StepBegun, Telling, Job
  PROVE  Telling'
<1> USE StreamAssumption
<1>1. /\ Legal(said) /\ Progress /\ MaxSteps \in Nat \ {0} /\ step \in 0..MaxSteps
      /\ Step = 1..MaxSteps /\ Told = ToSet(said) /\ (said = <<>> => Told = {})
      /\ template \in {"none", "DYNAMIC", "FAN_OUT", "DISTRIBUTED"}
  BY DEF Telling, TypeOK, Step, Told, ToSet
<1>2. /\ <<"plan_started">> \in Event /\ <<"plan_completed">> \in Event
      /\ <<"composing_started">> \in Event /\ <<"composing_completed">> \in Event
      /\ <<"final">> \in Event /\ <<"error">> \in Event
      /\ <<"final">> \in Conclusion /\ <<"error">> \in Conclusion
      /\ \A s \in Step, n \in {"step_started", "step_completed", "tool_started",
                               "tool_completed"} : <<n, s>> \in Event
  BY DEF Event, Conclusion
<1>3. step >= 1 => step \in Step
  BY DEF TypeOK, Step
<1>4. CASE PlanStarts
  <2> DEFINE e == <<"plan_started">>
  <2>2. e \in Event /\ Emit(e, "planning") /\ job' = "planning"
    BY <1>2, <1>4 DEF PlanStarts, Emit, Put
  <2>3. UNCHANGED <<step, template>>
    BY <1>4 DEF PlanStarts
  <2>4. /\ e = <<"plan_started">> /\ e # <<"plan_completed">>
        /\ e # <<"composing_started">> /\ e # <<"composing_completed">>
        /\ e # <<"step_started", step>> /\ e # <<"step_completed", step>>
        /\ e \notin Conclusion
    BY DEF Conclusion
  <2>5. \A i \in Step : i > step => e # <<"step_started", i>> /\ e # <<"step_completed", i>>
    BY <1>1
  <2>6. Allowed(e, Told)
    <3>1. <<"plan">> \in Stages /\ Begins(<<"plan">>) = e
      BY StageReports
    <3>2. Told \intersect Conclusion = {}
      BY <1>1, <1>4 DEF PlanStarts, Progress
    <3>3. e \notin Told
      BY <1>1, <1>4 DEF PlanStarts, Progress, InStep, Composed
    <3> QED  BY <3>1, <3>2, <3>3, StageAllowed
  <2> HIDE DEF e
  <2>7. Legal(said)' /\ Told' = Told \union {e}
    BY <1>1, <2>2, <2>6, EmitTells
  <2>8. Ahead(Told', step')
    <3>1. Ahead(Told, step) /\ step \in Nat
      BY <1>1 DEF Progress
    <3>2. Ahead(Told \union {e}, step)
      BY <2>5, <3>1, AheadKept
    <3> QED  BY <2>3, <2>7, <3>2
  <2>9. Progress'
    BY <1>1, <1>4, <2>2, <2>3, <2>4, <2>7, <2>8 DEF PlanStarts, Progress, InStep, Composed
  <2> QED  BY <2>7, <2>9 DEF Telling
<1>5. CASE PlanCompletes
  <2> DEFINE e == <<"plan_completed">>
  <2>2. e \in Event /\ Emit(e, "steps") /\ job' = "steps"
    BY <1>2, <1>5 DEF PlanCompletes, Emit, Put
  <2>3. UNCHANGED step
    BY <1>5 DEF PlanCompletes
  <2>4. /\ e # <<"plan_started">> /\ e = <<"plan_completed">>
        /\ e # <<"composing_started">> /\ e # <<"composing_completed">>
        /\ e # <<"step_started", step>> /\ e # <<"step_completed", step>>
        /\ e \notin Conclusion
    BY DEF Conclusion
  <2>5. \A i \in Step : i > step => e # <<"step_started", i>> /\ e # <<"step_completed", i>>
    BY <1>1
  <2>6. Allowed(e, Told)
    <3>1. /\ <<"plan">> \in Stages
          /\ Begins(<<"plan">>) = <<"plan_started">>
          /\ Completes(<<"plan">>) = e
      BY StageReports
    <3>2. Told \intersect Conclusion = {}
      BY <1>1, <1>5 DEF PlanCompletes, Progress
    <3>3. <<"plan_started">> \in Told /\ e \notin Told
      BY <1>1, <1>5 DEF PlanCompletes, Progress, InStep, Composed
    <3> QED  BY <3>1, <3>2, <3>3, StageAllowed
  <2> HIDE DEF e
  <2>7. Legal(said)' /\ Told' = Told \union {e}
    BY <1>1, <2>2, <2>6, EmitTells
  <2>8. Ahead(Told', step')
    <3>1. Ahead(Told, step) /\ step \in Nat
      BY <1>1 DEF Progress
    <3>2. Ahead(Told \union {e}, step)
      BY <2>5, <3>1, AheadKept
    <3> QED  BY <2>3, <2>7, <3>2
  <2>9. Progress'
    BY <1>1, <1>5, <2>2, <2>3, <2>4, <2>7, <2>8
       DEF PlanCompletes, Progress, InStep, Composed
  <2> QED  BY <2>7, <2>9 DEF Telling
<1>6. CASE StepStarts
  <2> DEFINE e == <<"step_started", step + 1>>
  <2>1. step + 1 \in Step /\ step' = step + 1
    BY <1>1, <1>6 DEF StepStarts
  <2>2. e \in Event /\ Emit(e, "calls") /\ job' = "calls"
    BY <1>2, <1>6, <2>1 DEF StepStarts, Emit, Put
  <2>3. UNCHANGED template
    BY <1>6 DEF StepStarts
  <2>4. /\ e # <<"plan_started">> /\ e # <<"plan_completed">>
        /\ e # <<"composing_started">> /\ e # <<"composing_completed">>
        /\ e = <<"step_started", step + 1>> /\ e # <<"step_completed", step + 1>>
        /\ e \notin Conclusion
    BY DEF Conclusion
  <2>5. \A i \in Step : i > step + 1 => e # <<"step_started", i>> /\ e # <<"step_completed", i>>
    BY <1>1, <2>1
  <2>6. Allowed(e, Told)
    <3>1. <<"step", step + 1>> \in Stages /\ Begins(<<"step", step + 1>>) = e
      BY <2>1, StageReports
    <3>2. Told \intersect Conclusion = {}
      BY <1>1, <1>6 DEF StepStarts, Progress
    <3>3. e \notin Told
      <4>1. Ahead(Told, step) /\ step + 1 > step
        BY <1>1 DEF Progress
      <4> QED  BY <2>1, <4>1 DEF Ahead
    <3> QED  BY <3>1, <3>2, <3>3, StageAllowed
  <2> HIDE DEF e
  <2>7. Legal(said)' /\ Told' = Told \union {e}
    BY <1>1, <2>2, <2>6, EmitTells
  <2>8. Ahead(Told', step')
    <3>1. Ahead(Told, step) /\ step \in Nat /\ step + 1 \in Nat /\ step <= step + 1
      BY <1>1 DEF Progress
    <3>2. Ahead(Told \union {e}, step + 1)
      BY <2>5, <3>1, AheadKept
    <3> QED  BY <2>3, <2>7, <3>2, <2>1
  <2>9. <<"step_completed", step + 1>> \notin Told
    <3>1. Ahead(Told, step) /\ step + 1 > step
      BY <1>1 DEF Progress
    <3> QED  BY <2>1, <3>1 DEF Ahead
  <2>10. Progress'
    BY <1>1, <1>6, <2>1, <2>2, <2>3, <2>4, <2>7, <2>8, <2>9
       DEF StepStarts, Progress, InStep, Composed
  <2> QED  BY <2>7, <2>10 DEF Telling
<1>7. CASE NoStep
  BY <1>1, <1>7 DEF NoStep, Telling, Progress, InStep, Composed, Told, TypeOK
<1>8. CASE CallStarts
  <2> DEFINE e == <<"tool_started", step>>
  <2>1. step \in Step
    BY <1>3, <1>8 DEF CallStarts, StepBegun
  <2>2. e \in Event /\ Emit(e, "calls") /\ job' = "calls"
    BY <1>2, <1>8, <2>1 DEF CallStarts, Emit, Put
  <2>3. UNCHANGED <<step, template>>
    BY <1>8 DEF CallStarts
  <2>4. /\ e # <<"plan_started">> /\ e # <<"plan_completed">>
        /\ e # <<"composing_started">> /\ e # <<"composing_completed">>
        /\ e # <<"step_started", step>> /\ e # <<"step_completed", step>>
        /\ e \notin Conclusion
    BY DEF Conclusion
  <2>5. \A i \in Step : i > step => e # <<"step_started", i>> /\ e # <<"step_completed", i>>
    BY <1>1, <2>1
  <2>6. Allowed(e, Told)
    <3>1. /\ <<"step", step>> \in Stages
          /\ Begins(<<"step", step>>) = <<"step_started", step>>
          /\ Completes(<<"step", step>>) = <<"step_completed", step>>
          /\ e \in Details(<<"step", step>>)
      BY <2>1, StageReports
    <3>2. Told \intersect Conclusion = {}
      BY <1>1, <1>8 DEF CallStarts, Progress
    <3>3. <<"step_started", step>> \in Told /\ <<"step_completed", step>> \notin Told
      BY <1>1, <1>8 DEF CallStarts, Progress, InStep, Composed
    <3> QED  BY <3>1, <3>2, <3>3, StageAllowed
  <2> HIDE DEF e
  <2>7. Legal(said)' /\ Told' = Told \union {e}
    BY <1>1, <2>2, <2>6, EmitTells
  <2>8. Ahead(Told', step')
    <3>1. Ahead(Told, step) /\ step \in Nat
      BY <1>1 DEF Progress
    <3>2. Ahead(Told \union {e}, step)
      BY <2>5, <3>1, AheadKept
    <3> QED  BY <2>3, <2>7, <3>2, <2>1
  <2>9. Progress'
    BY <1>1, <1>8, <2>1, <2>2, <2>3, <2>4, <2>7, <2>8
       DEF CallStarts, Progress, InStep, Composed
  <2> QED  BY <2>7, <2>9 DEF Telling
<1>9. CASE CallCompletes
  <2> DEFINE e == <<"tool_completed", step>>
  <2>1. step \in Step
    BY <1>3, <1>9 DEF CallCompletes, StepBegun
  <2>2. e \in Event /\ Emit(e, "results") /\ job' = "results"
    BY <1>2, <1>9, <2>1 DEF CallCompletes, Emit, Put
  <2>3. UNCHANGED <<step, template>>
    BY <1>9 DEF CallCompletes
  <2>4. /\ e # <<"plan_started">> /\ e # <<"plan_completed">>
        /\ e # <<"composing_started">> /\ e # <<"composing_completed">>
        /\ e # <<"step_started", step>> /\ e # <<"step_completed", step>>
        /\ e \notin Conclusion
    BY DEF Conclusion
  <2>5. \A i \in Step : i > step => e # <<"step_started", i>> /\ e # <<"step_completed", i>>
    BY <1>1, <2>1
  <2>6. Allowed(e, Told)
    <3>1. /\ <<"step", step>> \in Stages
          /\ Begins(<<"step", step>>) = <<"step_started", step>>
          /\ Completes(<<"step", step>>) = <<"step_completed", step>>
          /\ e \in Details(<<"step", step>>)
      BY <2>1, StageReports
    <3>2. Told \intersect Conclusion = {}
      BY <1>1, <1>9 DEF CallCompletes, Progress
    <3>3. <<"step_started", step>> \in Told /\ <<"step_completed", step>> \notin Told
      BY <1>1, <1>9 DEF CallCompletes, Progress, InStep, Composed
    <3> QED  BY <3>1, <3>2, <3>3, StageAllowed
  <2> HIDE DEF e
  <2>7. Legal(said)' /\ Told' = Told \union {e}
    BY <1>1, <2>2, <2>6, EmitTells
  <2>8. Ahead(Told', step')
    <3>1. Ahead(Told, step) /\ step \in Nat
      BY <1>1 DEF Progress
    <3>2. Ahead(Told \union {e}, step)
      BY <2>5, <3>1, AheadKept
    <3> QED  BY <2>3, <2>7, <3>2, <2>1
  <2>9. Progress'
    BY <1>1, <1>9, <2>1, <2>2, <2>3, <2>4, <2>7, <2>8
       DEF CallCompletes, Progress, InStep, Composed
  <2> QED  BY <2>7, <2>9 DEF Telling
<1>10. CASE StepCompletes
  <2> DEFINE e == <<"step_completed", step>>
  <2>1. step \in Step
    BY <1>3, <1>10 DEF StepCompletes, StepBegun
  <2>2. e \in Event /\ Emit(e, job') /\ job' = job'
    BY <1>2, <1>10, <2>1 DEF StepCompletes, Emit, Put
  <2>2a. job' \in {"finish", "steps", "compose"} /\ template # "DISTRIBUTED"
    BY <1>1, <1>10 DEF StepCompletes, Emit
  <2>3. UNCHANGED <<step, template>>
    BY <1>10 DEF StepCompletes
  <2>4. /\ e # <<"plan_started">> /\ e # <<"plan_completed">>
        /\ e # <<"composing_started">> /\ e # <<"composing_completed">>
        /\ e # <<"step_started", step>> /\ e = <<"step_completed", step>>
        /\ e \notin Conclusion
    BY DEF Conclusion
  <2>5. \A i \in Step : i > step => e # <<"step_started", i>> /\ e # <<"step_completed", i>>
    BY <1>1, <2>1
  <2>6. Allowed(e, Told)
    <3>1. /\ <<"step", step>> \in Stages
          /\ Begins(<<"step", step>>) = <<"step_started", step>>
          /\ Completes(<<"step", step>>) = e
      BY <2>1, StageReports
    <3>2. Told \intersect Conclusion = {}
      BY <1>1, <1>10 DEF StepCompletes, Progress
    <3>3. <<"step_started", step>> \in Told /\ e \notin Told
      BY <1>1, <1>10 DEF StepCompletes, Progress, InStep, Composed
    <3> QED  BY <3>1, <3>2, <3>3, StageAllowed
  <2> HIDE DEF e
  <2>7. Legal(said)' /\ Told' = Told \union {e}
    BY <1>1, <2>2, <2>6, EmitTells
  <2>8. Ahead(Told', step')
    <3>1. Ahead(Told, step) /\ step \in Nat
      BY <1>1 DEF Progress
    <3>2. Ahead(Told \union {e}, step)
      BY <2>5, <3>1, AheadKept
    <3> QED  BY <2>3, <2>7, <3>2, <2>1
  <2>9. Progress'
    BY <1>1, <1>10, <2>1, <2>2, <2>3, <2>4, <2>7, <2>8, <2>2a
       DEF StepCompletes, Progress, InStep, Composed
  <2> QED  BY <2>7, <2>9 DEF Telling
<1>11. CASE ComposingStarts
  <2> DEFINE e == <<"composing_started">>
  <2>2. e \in Event /\ Emit(e, "composing") /\ job' = "composing"
    BY <1>2, <1>11 DEF ComposingStarts, Emit, Put
  <2>3. UNCHANGED <<step, template>>
    BY <1>11 DEF ComposingStarts
  <2>4. /\ e # <<"plan_started">> /\ e # <<"plan_completed">>
        /\ e = <<"composing_started">> /\ e # <<"composing_completed">>
        /\ e # <<"step_started", step>> /\ e # <<"step_completed", step>>
        /\ e \notin Conclusion
    BY DEF Conclusion
  <2>5. \A i \in Step : i > step => e # <<"step_started", i>> /\ e # <<"step_completed", i>>
    BY <1>1
  <2>6. Allowed(e, Told)
    <3>1. <<"composing">> \in Stages /\ Begins(<<"composing">>) = e
      BY StageReports
    <3>2. Told \intersect Conclusion = {}
      BY <1>1, <1>11 DEF ComposingStarts, Progress
    <3>3. e \notin Told
      BY <1>1, <1>11 DEF ComposingStarts, Progress, InStep, Composed
    <3> QED  BY <3>1, <3>2, <3>3, StageAllowed
  <2> HIDE DEF e
  <2>7. Legal(said)' /\ Told' = Told \union {e}
    BY <1>1, <2>2, <2>6, EmitTells
  <2>8. Ahead(Told', step')
    <3>1. Ahead(Told, step) /\ step \in Nat
      BY <1>1 DEF Progress
    <3>2. Ahead(Told \union {e}, step)
      BY <2>5, <3>1, AheadKept
    <3> QED  BY <2>3, <2>7, <3>2
  <2>9. Progress'
    BY <1>1, <1>11, <2>2, <2>3, <2>4, <2>7, <2>8
       DEF ComposingStarts, Progress, InStep, Composed
  <2> QED  BY <2>7, <2>9 DEF Telling
<1>12. CASE ComposingCompletes
  <2> DEFINE e == <<"composing_completed">>
  <2>2. e \in Event /\ Emit(e, job') /\ job' = job'
    BY <1>2, <1>12 DEF ComposingCompletes, Emit, Put
  <2>2a. job' = IF template = "DISTRIBUTED" THEN "composed" ELSE "finish"
    BY <1>1, <1>12 DEF ComposingCompletes, Emit
  <2>3. UNCHANGED <<step, template>>
    BY <1>12 DEF ComposingCompletes
  <2>4. /\ e # <<"plan_started">> /\ e # <<"plan_completed">>
        /\ e # <<"composing_started">> /\ e = <<"composing_completed">>
        /\ e # <<"step_started", step>> /\ e # <<"step_completed", step>>
        /\ e \notin Conclusion
    BY DEF Conclusion
  <2>5. \A i \in Step : i > step => e # <<"step_started", i>> /\ e # <<"step_completed", i>>
    BY <1>1
  <2>6. Allowed(e, Told)
    <3>1. /\ <<"composing">> \in Stages
          /\ Begins(<<"composing">>) = <<"composing_started">>
          /\ Completes(<<"composing">>) = e
      BY StageReports
    <3>2. Told \intersect Conclusion = {}
      BY <1>1, <1>12 DEF ComposingCompletes, Progress
    <3>3. <<"composing_started">> \in Told /\ e \notin Told
      BY <1>1, <1>12 DEF ComposingCompletes, Progress, InStep, Composed
    <3> QED  BY <3>1, <3>2, <3>3, StageAllowed
  <2> HIDE DEF e
  <2>7. Legal(said)' /\ Told' = Told \union {e}
    BY <1>1, <2>2, <2>6, EmitTells
  <2>8. Ahead(Told', step')
    <3>1. Ahead(Told, step) /\ step \in Nat
      BY <1>1 DEF Progress
    <3>2. Ahead(Told \union {e}, step)
      BY <2>5, <3>1, AheadKept
    <3> QED  BY <2>3, <2>7, <3>2
  <2>9. Progress'
    BY <1>1, <1>12, <2>2, <2>3, <2>4, <2>7, <2>8, <2>2a
       DEF ComposingCompletes, Progress, InStep, Composed
  <2> QED  BY <2>7, <2>9 DEF Telling
<1>13. CASE DistributedStepCompletes
  <2> DEFINE e == <<"step_completed", step>>
  <2>1. step \in Step
    BY <1>3, <1>13 DEF DistributedStepCompletes, StepBegun
  <2>2. e \in Event /\ Emit(e, "finish") /\ job' = "finish"
    BY <1>2, <1>13, <2>1 DEF DistributedStepCompletes, Emit, Put
  <2>3. UNCHANGED <<step, template>>
    BY <1>13 DEF DistributedStepCompletes
  <2>4. /\ e # <<"plan_started">> /\ e # <<"plan_completed">>
        /\ e # <<"composing_started">> /\ e # <<"composing_completed">>
        /\ e # <<"step_started", step>> /\ e = <<"step_completed", step>>
        /\ e \notin Conclusion
    BY DEF Conclusion
  <2>5. \A i \in Step : i > step => e # <<"step_started", i>> /\ e # <<"step_completed", i>>
    BY <1>1, <2>1
  <2>6. Allowed(e, Told)
    <3>1. /\ <<"step", step>> \in Stages
          /\ Begins(<<"step", step>>) = <<"step_started", step>>
          /\ Completes(<<"step", step>>) = e
      BY <2>1, StageReports
    <3>2. Told \intersect Conclusion = {}
      BY <1>1, <1>13 DEF DistributedStepCompletes, Progress
    <3>3. <<"step_started", step>> \in Told /\ e \notin Told
      BY <1>1, <1>13 DEF DistributedStepCompletes, Progress, InStep, Composed
    <3> QED  BY <3>1, <3>2, <3>3, StageAllowed
  <2> HIDE DEF e
  <2>7. Legal(said)' /\ Told' = Told \union {e}
    BY <1>1, <2>2, <2>6, EmitTells
  <2>8. Ahead(Told', step')
    <3>1. Ahead(Told, step) /\ step \in Nat
      BY <1>1 DEF Progress
    <3>2. Ahead(Told \union {e}, step)
      BY <2>5, <3>1, AheadKept
    <3> QED  BY <2>3, <2>7, <3>2, <2>1
  <2>9. Progress'
    BY <1>1, <1>13, <2>1, <2>2, <2>3, <2>4, <2>7, <2>8
       DEF DistributedStepCompletes, Progress, InStep, Composed
  <2> QED  BY <2>7, <2>9 DEF Telling
<1>14. CASE Answers
  <2> DEFINE e == <<"final">>
  <2>2. e \in Event /\ Emit(e, "done") /\ job' = "done"
    BY <1>2, <1>14 DEF Answers, Emit, Put
  <2>3. UNCHANGED <<step, template>>
    BY <1>14 DEF Answers
  <2>4. /\ e # <<"plan_started">> /\ e # <<"plan_completed">>
        /\ e # <<"composing_started">> /\ e # <<"composing_completed">>
        /\ e # <<"step_started", step>> /\ e # <<"step_completed", step>>
        /\ e \in Conclusion
    BY DEF Conclusion
  <2>5. \A i \in Step : i > step => e # <<"step_started", i>> /\ e # <<"step_completed", i>>
    BY <1>1
  <2>6. Allowed(e, Told)
    BY <1>1, <1>14, <2>4 DEF Answers, Allowed, Progress
  <2> HIDE DEF e
  <2>7. Legal(said)' /\ Told' = Told \union {e}
    BY <1>1, <2>2, <2>6, EmitTells
  <2>8. Ahead(Told', step')
    <3>1. Ahead(Told, step) /\ step \in Nat
      BY <1>1 DEF Progress
    <3>2. Ahead(Told \union {e}, step)
      BY <2>5, <3>1, AheadKept
    <3> QED  BY <2>3, <2>7, <3>2
  <2>9. Progress'
    BY <1>1, <1>14, <2>2, <2>3, <2>4, <2>7, <2>8 DEF Answers, Progress, InStep, Composed
  <2> QED  BY <2>7, <2>9 DEF Telling
<1>15. CASE Raises
  <2> DEFINE e == <<"error">>
  <2>2. e \in Event /\ Emit(e, "done") /\ job' = "done"
    BY <1>2, <1>15 DEF Raises, MayRaise, Emit, Put
  <2>3. UNCHANGED <<step, template>>
    BY <1>15 DEF Raises, MayRaise
  <2>4. /\ e # <<"plan_started">> /\ e # <<"plan_completed">>
        /\ e # <<"composing_started">> /\ e # <<"composing_completed">>
        /\ e # <<"step_started", step>> /\ e # <<"step_completed", step>>
        /\ e \in Conclusion
    BY DEF Conclusion
  <2>5. \A i \in Step : i > step => e # <<"step_started", i>> /\ e # <<"step_completed", i>>
    BY <1>1
  <2>6. Allowed(e, Told)
    BY <1>1, <1>15, <2>4 DEF Raises, MayRaise, Allowed, Progress
  <2> HIDE DEF e
  <2>7. Legal(said)' /\ Told' = Told \union {e}
    BY <1>1, <2>2, <2>6, EmitTells
  <2>8. Ahead(Told', step')
    <3>1. Ahead(Told, step) /\ step \in Nat
      BY <1>1 DEF Progress
    <3>2. Ahead(Told \union {e}, step)
      BY <2>5, <3>1, AheadKept
    <3> QED  BY <2>3, <2>7, <3>2
  <2>9. Progress'
    BY <1>1, <1>15, <2>2, <2>3, <2>4, <2>7, <2>8 DEF Raises, MayRaise, Progress, InStep, Composed
  <2> QED  BY <2>7, <2>9 DEF Telling
<1>16. CASE Ends
  BY <1>1, <1>16 DEF Ends, readerVars, Telling, Progress, InStep, Composed, Told
<1> QED
  BY <1>4, <1>5, <1>6, <1>7, <1>8, <1>9, <1>10, <1>11, <1>12, <1>13, <1>14, <1>15, <1>16
     DEF Job

LEMMA ReaderTells ==
  ASSUME TypeOK, Delivery, Telling, Reader \/ Leaves
  PROVE  Telling'
<1>1. CASE Calls
  <2>1. UNCHANGED <<said, step, template>> /\ job = "unborn" /\ job' = "prepare"
    BY <1>1 DEF Calls, Delivery
  <2> QED  BY <2>1 DEF Telling, Progress, InStep, Composed, Told
<1>2. CASE Announces \/ Opens \/ Reads \/ Leaves
  <2>1. UNCHANGED <<said, job, step, template>>
    BY <1>2 DEF Announces, Opens, Reads, Leaves
  <2> QED  BY <2>1 DEF Telling, Progress, InStep, Composed, Told
<1> QED  BY <1>1, <1>2 DEF Reader

LEMMA StreamTells == Spec => []Telling
<1>1. Init => Telling
  <2> SUFFICES ASSUME Init
               PROVE  Telling
    OBVIOUS
  <2>1. said = <<>> /\ job = "unborn" /\ Told = {} /\ Legal(said)
    BY DEF Init, Told, ToSet, Legal
  <2> QED  BY <2>1 DEF Telling, Progress, InStep, Composed, Ahead
<1>2. TypeOK /\ StepBegun /\ Delivery /\ Telling /\ [Next]_vars => Telling'
  <2> SUFFICES ASSUME TypeOK, StepBegun, Delivery, Telling, [Next]_vars
               PROVE  Telling'
    OBVIOUS
  <2>1. CASE UNCHANGED vars
    BY <2>1 DEF vars, Telling, Progress, InStep, Composed, Told
  <2> QED  BY <2>1, ReaderTells, JobTells DEF Next, Over
<1> QED  BY <1>1, <1>2, StreamInvariant, PTL DEF Spec

LEMMA SameSet == \A h : Contract!ToSet(h) = ToSet(h)
BY DEF Contract!ToSet, ToSet

\* What the reader takes is a step of the contract.
LEMMA ReadsKeepContract ==
  ASSUME TypeOK, Delivery, Telling, Reads
  PROVE  Contract!Next \/ UNCHANGED <<heard, reader = "closed">>
<1>1. reader = "reading"
  BY DEF Reads
<1>2. CASE Head(queue) = Done
  <2>1. /\ Len(heard) < Len(Owed) /\ Owed[Len(heard) + 1] = Done
        /\ \A i \in 1..Len(heard) : Owed[i] = heard[i]
    BY <1>2, NextOwed, DoneApart
  <2>2. \A i \in 1..Len(said) : said[i] # Done
    BY DoneApart DEF TypeOK
  <2>3. job = "ended" /\ Len(heard) = Len(said) /\ \A i \in 1..Len(heard) : said[i] = heard[i]
    BY <2>1, <2>2 DEF Owed, TypeOK
  <2>4. heard = said
    BY <2>3 DEF TypeOK
  <2>5. Contract!Concluded
    BY <2>3, <2>4, SameSet DEF Contract!Concluded, Telling, Progress, Told
  <2>6. reader' = "closed" /\ heard' = heard
    BY <1>2 DEF Reads
  <2>7. Contract!Close
    BY <1>1, <2>5, <2>6 DEF Contract!Close
  <2> QED  BY <2>7 DEF Contract!Next
<1>3. CASE Head(queue) = Initialize
  <2>1. heard' = heard \o <<>> /\ reader' = reader
    BY <1>3, DoneApart DEF Reads, Reported
  <2> QED  BY <2>1 DEF TypeOK
<1>4. CASE Head(queue) # Done /\ Head(queue) # Initialize
  <2> DEFINE e == Head(queue)
             n == Len(heard) + 1
  <2>1. heard' = Append(heard, e) /\ reader' = reader
    BY <1>4 DEF Reads, Reported, TypeOK
  <2>2. n <= Len(Owed) /\ Owed[n] = e /\ \A i \in 1..Len(heard) : Owed[i] = heard[i]
    BY <1>4, NextOwed DEF TypeOK
  <2>3. n \in DOMAIN said /\ said[n] = e /\ \A i \in 1..Len(heard) : said[i] = heard[i]
    BY <1>4, <2>2 DEF Owed, TypeOK
  <2>4. Before(said, n) = ToSet(heard)
    <3>1. DOMAIN heard = 1..Len(heard) /\ Len(heard) \in Nat /\ n - 1 = Len(heard)
      BY DEF TypeOK
    <3> QED  BY <2>3, <3>1 DEF Before, ToSet
  <2>5. Allowed(e, ToSet(heard))
    BY <2>3, <2>4 DEF Telling, Legal
  <2> HIDE DEF e, n
  <2>6. Contract!Tell(e)
    BY <1>1, <2>1 DEF Contract!Tell
  <2>7. ~Contract!Concluded
    BY <2>5, SameSet DEF Allowed, Contract!Concluded
  <2>8. CASE e \in Conclusion
    BY <2>6, <2>7, <2>8 DEF Contract!Next, Contract!Conclude
  <2>9. ASSUME NEW s \in Stages, e = Begins(s), e \notin ToSet(heard)
        PROVE  Contract!Next
    <3>1. Contract!Begin(s)
      BY <2>6, <2>7, <2>9, SameSet DEF Contract!Begin, Contract!Begun
    <3> QED  BY <3>1 DEF Contract!Next
  <2>10. ASSUME NEW s \in Stages, e = Completes(s) \/ e \in Details(s),
                Begins(s) \in ToSet(heard), Completes(s) \notin ToSet(heard)
         PROVE  Contract!Next
    <3>1. Contract!Complete(s) \/ Contract!Describe(s)
      BY <2>6, <2>7, <2>10, SameSet
         DEF Contract!Complete, Contract!Describe, Contract!Begun, Contract!Completed
    <3> QED  BY <3>1 DEF Contract!Next
  <2> QED  BY <2>5, <2>8, <2>9, <2>10 DEF Allowed
<1> QED  BY <1>2, <1>3, <1>4

(* Every run of a streamed ask, as its client hears it, is one of the        *)
(* contract: the stages in order, then exactly one conclusion, then the end. *)
(* It holds however far the thread of the ask is ahead of the reader, since  *)
(* what the reader takes next is what the ask said next, and the ask says    *)
(* nothing that the contract does not allow after what it has said before.   *)
THEOREM StreamKeepsContract == Spec => KeepsContract
<1>1. Init => Contract!Init
  BY DEF Init, Contract!Init
<1>2. TypeOK /\ Delivery /\ Telling /\ [Next]_vars =>
        [Contract!Next]_<<heard, reader = "closed">>
  <2> SUFFICES ASSUME TypeOK, Delivery, Telling, [Next]_vars
               PROVE  Contract!Next \/ UNCHANGED <<heard, reader = "closed">>
    OBVIOUS
  <2>1. CASE Reads
    BY <2>1, ReadsKeepContract
  <2>2. CASE Calls \/ Announces \/ Opens \/ Leaves
    BY <2>2 DEF Calls, Announces, Opens, Leaves
  <2>3. CASE Job
    <3>1. UNCHANGED readerVars
      BY <2>3
         DEF Job, Emit, PlanStarts, PlanCompletes, StepStarts, NoStep, CallStarts,
             CallCompletes,
                  StepCompletes, ComposingStarts, ComposingCompletes, DistributedStepCompletes,
                  Answers, Raises, Ends
    <3> QED  BY <3>1 DEF readerVars
  <2>4. CASE UNCHANGED vars
    BY <2>4 DEF vars
  <2> QED  BY <2>1, <2>2, <2>3, <2>4 DEF Next, Over, Reader
<1> QED  BY <1>1, <1>2, StreamInvariant, StreamTells, PTL DEF Spec, KeepsContract, Contract!Spec

-----------------------------------------------------------------------------
\* The phase that an event leaves open, and the phase it needs open before it.
Left(e) ==
  CASE e[1] = "plan_started"      -> <<"plan">>
    [] e[1] = "composing_started" -> <<"composing">>
    [] e[1] \in {"step_started", "tool_started", "tool_completed"} -> <<"step", e[2]>>
    [] OTHER                      -> <<>>

Orderly(e, open) ==
  CASE e[1] \in {"plan_started", "step_started", "composing_started"} ->
         open \in {<<>>, <<"initialize">>}
    [] e[1] \in {"tool_started", "tool_completed", "step_completed"} ->
         open = <<"step", e[2]>>
    [] e[1] = "plan_completed"      -> open = <<"plan">>
    [] e[1] = "composing_completed" -> open = <<"composing">>
    [] e[1] = "final"               -> open = <<>>
    [] OTHER                        -> TRUE

\* The phase after the first n events of h; every event finds the one it needs.
PhaseAt(h, n) == IF n = 0 THEN <<"initialize">> ELSE Left(h[n])
InOrder(h)    == \A n \in DOMAIN h : Orderly(h[n], PhaseAt(h, n - 1))

\* The phase that the ask is in.
JobPhase ==
  LET last == PhaseAt(said, Len(said))
  IN  /\ job \in {"unborn", "prepare"} => last = <<"initialize">>
      /\ job = "planning" => last = <<"plan">>
      /\ job \in {"calls", "results"} => last = <<"step", step>>
      /\ job = "composing" => last = <<"composing">>
      /\ job \in {"steps", "compose", "finish", "done", "ended"} => last = <<>>
      /\ job # "composed"

Grouping ==
  /\ job \in {"unborn", "prepare", "planning"} => template = "none"
  /\ template # "DISTRIBUTED" => InOrder(said) /\ JobPhase

\* The think blocks open after n pieces of t, and a text well grouped so far
\* with k of them open at its end.
Count(t, n, tag) == Cardinality({m \in 1..n : t[m] = tag})
Blocks(t, n)     == Count(t, n, "<think>") - Count(t, n, "</think>")
GoodText(t, k) ==
  /\ \A n \in DOMAIN t : Blocks(t, n) = IF t[n] \in {"<think>", "line"} THEN 1 ELSE 0
  /\ Blocks(t, Len(t)) = k

\* What has been written, and the phase it has reached.
OpenAt(p) == IF p = <<>> THEN 0 ELSE 1
Showing ==
  /\ ~sentInit => text = <<>> /\ phase = <<>>
  /\ reader \in {"calling", "announcing", "opening"} => ~sentInit /\ heard = <<>>
  /\ reader \in {"reading", "closed"} => (sentInit <=> endpoint = "openai")
  /\ template # "DISTRIBUTED" =>
       /\ sentInit => phase = PhaseAt(heard, Len(heard))
       /\ GoodText(text, OpenAt(phase))

-----------------------------------------------------------------------------
(* A piece appended counts after it, and changes no count before it.         *)
LEMMA CountAppend ==
  ASSUME NEW t \in Seq(Tags), NEW x \in Tags, NEW tag
  PROVE  /\ \A n \in 0..Len(t) : Count(Append(t, x), n, tag) = Count(t, n, tag)
         /\ Count(t, Len(t), tag) \in Nat
         /\ Count(Append(t, x), Len(t) + 1, tag) =
              IF x = tag THEN Count(t, Len(t), tag) + 1 ELSE Count(t, Len(t), tag)
<1> DEFINE u == Append(t, x)
           k == Len(t)
           K == {m \in 1..k : t[m] = tag}
<1>1. k \in Nat /\ u[k + 1] = x /\ \A m \in 1..k : u[m] = t[m]
  OBVIOUS
<1>2. IsFiniteSet(K) /\ Cardinality(K) \in Nat /\ k + 1 \notin K
  <2>1. IsFiniteSet(1..k) /\ K \in SUBSET (1..k)
    BY <1>1, FS_Interval
  <2>2. IsFiniteSet(K)
    BY <2>1, FS_Subset
  <2> QED  BY <1>1, <2>2, FS_CardinalityType
<1> HIDE DEF u, k
<1>3. ASSUME NEW n \in 0..k PROVE {m \in 1..n : u[m] = tag} = {m \in 1..n : t[m] = tag}
  BY <1>1
<1>4. {m \in 1..(k + 1) : u[m] = tag} = IF x = tag THEN K \union {k + 1} ELSE K
  <2>1. \A m : m \in 1..(k + 1) <=> m \in 1..k \/ m = k + 1
    BY <1>1
  <2> QED  BY <1>1, <2>1
<1> HIDE DEF K
<1>5. Cardinality({m \in 1..(k + 1) : u[m] = tag}) =
        IF x = tag THEN Cardinality(K) + 1 ELSE Cardinality(K)
  BY <1>2, <1>4, FS_AddElement
<1>6. Count(t, k, tag) = Cardinality(K)
  BY DEF Count, K
<1>7. /\ \A n \in 0..k : Count(u, n, tag) = Count(t, n, tag)
      /\ Count(u, k + 1, tag) = IF x = tag THEN Count(t, k, tag) + 1 ELSE Count(t, k, tag)
  BY <1>3, <1>5, <1>6 DEF Count
<1> QED  BY <1>2, <1>6, <1>7 DEF u, k

(* A piece that fits what is open keeps a text well grouped.                 *)
LEMMA GoodAppend ==
  ASSUME NEW t \in Seq(Tags), NEW k \in {0, 1}, GoodText(t, k), NEW x \in Tags,
         k = IF x \in {"line", "</think>"} THEN 1 ELSE 0
  PROVE  /\ Append(t, x) \in Seq(Tags)
         /\ GoodText(Append(t, x), IF x \in {"<think>", "line"} THEN 1 ELSE 0)
<1> DEFINE u == Append(t, x)
           after == IF x \in {"<think>", "line"} THEN 1 ELSE 0
<1>1. /\ u \in Seq(Tags) /\ Len(t) \in Nat /\ Len(u) = Len(t) + 1 /\ u[Len(t) + 1] = x
      /\ DOMAIN u = 1..(Len(t) + 1) /\ DOMAIN t = 1..Len(t) /\ \A n \in 1..Len(t) : u[n] = t[n]
  OBVIOUS
<1>2. /\ \A n \in 0..Len(t), tag \in Tags : Count(u, n, tag) = Count(t, n, tag)
      /\ \A tag \in Tags : Count(t, Len(t), tag) \in Nat
      /\ \A tag \in Tags : Count(u, Len(t) + 1, tag) =
           IF x = tag THEN Count(t, Len(t), tag) + 1 ELSE Count(t, Len(t), tag)
  BY CountAppend
<1> HIDE DEF u
<1>3. "<think>" \in Tags /\ "</think>" \in Tags
  BY DEF Tags
<1>4. \A n \in 1..Len(t) : Blocks(u, n) = Blocks(t, n)
  BY <1>1, <1>2, <1>3 DEF Blocks
<1>5. Blocks(u, Len(t) + 1) = after
  <2>1. Blocks(t, Len(t)) = k
    BY DEF GoodText
  <2>2. Count(t, Len(t), "<think>") \in Nat /\ Count(t, Len(t), "</think>") \in Nat
    BY <1>2, <1>3
  <2>3. /\ Count(u, Len(t) + 1, "<think>") =
             IF x = "<think>" THEN Count(t, Len(t), "<think>") + 1 ELSE Count(t, Len(t), "<think>")
        /\ Count(u, Len(t) + 1, "</think>") =
             IF x = "</think>" THEN Count(t, Len(t), "</think>") + 1
             ELSE Count(t, Len(t), "</think>")
    BY <1>2, <1>3
  <2>4. x \in {"<think>", "</think>", "line", "answer", "error"}
    BY DEF Tags
  <2> QED  BY <2>1, <2>2, <2>3, <2>4 DEF Blocks
<1>6. ASSUME NEW n \in DOMAIN u
      PROVE  Blocks(u, n) = IF u[n] \in {"<think>", "line"} THEN 1 ELSE 0
  <2>1. CASE n \in 1..Len(t)
    BY <1>1, <1>4, <2>1 DEF GoodText
  <2>2. CASE n = Len(t) + 1
    BY <1>1, <1>5, <2>2
  <2> QED  BY <1>1, <2>1, <2>2
<1>7. GoodText(u, after)
  BY <1>1, <1>5, <1>6 DEF GoodText
<1> QED  BY <1>1, <1>7 DEF u

(* What is written for an event fits the phase that it needs.                *)
LEMMA GoodShow ==
  ASSUME TypeOK, NEW e \in Event \ {Initialize}, Show(e), Orderly(e, phase),
         GoodText(text, OpenAt(phase))
  PROVE  phase' = Left(e) /\ GoodText(text', OpenAt(phase'))
<1>1. text \in Seq(Tags) /\ phase \in Phases
  BY DEF TypeOK, Tags, Phases
<1>2. "<think>" \in Tags /\ "</think>" \in Tags /\ "line" \in Tags /\ "answer" \in Tags /\ "error" \in Tags
  BY DEF Tags
<1>3. CASE e = <<"final">>
  <2>1. text' = Append(text, "answer") /\ phase' = phase /\ phase = <<>> /\ Left(e) = <<>>
    BY <1>3 DEF Show, Orderly, Left
  <2> QED  BY <1>1, <1>2, <2>1, GoodAppend DEF OpenAt
<1>4. CASE e = <<"error">>
  <2>1. phase' = <<>> /\ Left(e) = <<>>
    BY <1>4 DEF Show, Left
  <2>2. CASE phase = <<>>
    <3>1. text' = Append(text, "error")
      BY <1>1, <1>4, <2>2 DEF Show
    <3> QED  BY <1>1, <1>2, <2>1, <2>2, <3>1, GoodAppend DEF OpenAt
  <2>3. CASE phase # <<>>
    <3>1. text' = Append(Append(text, "</think>"), "error")
      BY <1>1, <1>4, <2>3 DEF Show
    <3>2. Append(text, "</think>") \in Seq(Tags) /\ GoodText(Append(text, "</think>"), 0)
      BY <1>1, <1>2, <2>3, GoodAppend DEF OpenAt
    <3>3. GoodText(Append(Append(text, "</think>"), "error"), 0)
      BY <1>2, <3>2, GoodAppend
    <3> QED  BY <2>1, <3>1, <3>3 DEF OpenAt
  <2> QED  BY <2>2, <2>3
<1>5. CASE e # <<"final">> /\ e # <<"error">>
  <2>1. text' = text \o Written(e, phase) /\ phase' = PhaseAfter(e, phase)
    BY <1>5 DEF Show
  <2>2. CASE Opened(e) # <<>>
    <3>1. /\ e[1] \in {"plan_started", "step_started", "composing_started"}
          /\ Opened(e) = Left(e) /\ ~Closes(e) /\ Opened(e) # <<"initialize">>
          /\ phase \in {<<>>, <<"initialize">>}
      <4>1. CASE e \in {<<"plan_started">>, <<"composing_started">>}
        BY <2>2, <4>1 DEF Opened, Left, Closes, Orderly
      <4>2. CASE e \in {<<"plan_completed">>, <<"composing_completed">>}
        BY <2>2, <4>2 DEF Opened
      <4>3. CASE e \in {"step_started", "step_completed", "tool_started", "tool_completed"} \X Step
        BY <2>2, <4>3 DEF Opened, Left, Closes, Orderly
      <4> QED  BY <1>5, <4>1, <4>2, <4>3 DEF Event, Conclusion
    <3>2. phase' = Left(e) /\ phase' # <<>>
      BY <2>1, <2>2, <3>1 DEF PhaseAfter
    <3>3. CASE phase = <<>>
      <4>1. text' = Append(Append(text, "<think>"), "line")
        BY <1>1, <2>1, <2>2, <3>1, <3>3 DEF Written
      <4>2. Append(text, "<think>") \in Seq(Tags) /\ GoodText(Append(text, "<think>"), 1)
        BY <1>1, <1>2, <3>3, GoodAppend DEF OpenAt
      <4>3. GoodText(Append(Append(text, "<think>"), "line"), 1)
        BY <1>2, <4>2, GoodAppend
      <4> QED  BY <3>2, <4>1, <4>3 DEF OpenAt
    <3>4. CASE phase # <<>>
      <4>1. text' = Append(Append(Append(text, "</think>"), "<think>"), "line")
        BY <1>1, <2>1, <2>2, <3>1, <3>4 DEF Written
      <4>2. Append(text, "</think>") \in Seq(Tags) /\ GoodText(Append(text, "</think>"), 0)
        BY <1>1, <1>2, <3>4, GoodAppend DEF OpenAt
      <4> DEFINE u == Append(text, "</think>")
      <4> HIDE DEF u
      <4>3. Append(u, "<think>") \in Seq(Tags) /\ GoodText(Append(u, "<think>"), 1)
        BY <1>2, <4>2, GoodAppend DEF u
      <4>4. GoodText(Append(Append(u, "<think>"), "line"), 1)
        BY <1>2, <4>3, GoodAppend
      <4> QED  BY <3>2, <4>1, <4>4 DEF OpenAt, u
    <3> QED  BY <3>3, <3>4
  <2>3. CASE Opened(e) = <<>>
    <3>1. CASE Closes(e)
      <4>1. phase # <<>> /\ Left(e) = <<>>
        <5>1. CASE e \in {<<"plan_started">>, <<"composing_started">>,
                          <<"plan_completed">>, <<"composing_completed">>}
          BY <3>1, <5>1 DEF Left, Closes, Orderly
        <5>2. CASE e \in {"step_started", "step_completed", "tool_started", "tool_completed"} \X Step
          BY <3>1, <5>2 DEF Left, Closes, Orderly
        <5> QED  BY <1>5, <5>1, <5>2 DEF Event, Conclusion
      <4>2. text' = Append(Append(text, "line"), "</think>") /\ phase' = <<>>
        BY <1>1, <2>1, <2>3, <3>1 DEF Written, PhaseAfter
      <4>3. Append(text, "line") \in Seq(Tags) /\ GoodText(Append(text, "line"), 1)
        BY <1>1, <1>2, <4>1, GoodAppend DEF OpenAt
      <4>4. GoodText(Append(Append(text, "line"), "</think>"), 0)
        BY <1>2, <4>3, GoodAppend
      <4> QED  BY <4>1, <4>2, <4>4 DEF OpenAt
    <3>2. CASE ~Closes(e)
      <4>1. phase = Left(e) /\ phase # <<>>
        <5>1. CASE e \in {<<"plan_started">>, <<"composing_started">>,
                          <<"plan_completed">>, <<"composing_completed">>}
          BY <2>3, <3>2, <5>1 DEF Opened, Closes
        <5>2. CASE e \in {"step_started", "step_completed", "tool_started", "tool_completed"} \X Step
          BY <2>3, <3>2, <5>2 DEF Opened, Left, Closes, Orderly
        <5> QED  BY <1>5, <5>1, <5>2 DEF Event, Conclusion
      <4>2. text' = Append(text, "line") /\ phase' = phase
        BY <1>1, <2>1, <2>3, <3>2 DEF Written, PhaseAfter
      <4>3. GoodText(Append(text, "line"), 1)
        BY <1>1, <1>2, <4>1, GoodAppend DEF OpenAt
      <4> QED  BY <4>1, <4>2, <4>3 DEF OpenAt
    <3> QED  BY <3>1, <3>2
  <2> QED  BY <2>2, <2>3
<1> QED  BY <1>3, <1>4, <1>5

(* An event that finds the phase it needs leaves the phases in order.        *)
LEMMA EmitOrderly ==
  ASSUME TypeOK, NEW e \in Event, NEW to, Emit(e, to),
         InOrder(said), Orderly(e, PhaseAt(said, Len(said)))
  PROVE  InOrder(said)' /\ PhaseAt(said, Len(said))' = Left(e) /\ job' = to
<1>1. /\ Len(said') = Len(said) + 1 /\ said'[Len(said) + 1] = e /\ Len(said) \in Nat
      /\ DOMAIN said = 1..Len(said) /\ DOMAIN said' = 1..(Len(said) + 1)
      /\ \A n \in 1..Len(said) : said'[n] = said[n]
  BY DEF Emit, TypeOK
<1>2. PhaseAt(said, Len(said))' = Left(e)
  BY <1>1 DEF PhaseAt
<1>3. \A n \in 0..Len(said) : PhaseAt(said', n) = PhaseAt(said, n)
  BY <1>1 DEF PhaseAt
<1>4. ASSUME NEW n \in DOMAIN said' PROVE Orderly(said'[n], PhaseAt(said', n - 1))
  <2>1. CASE n = Len(said) + 1
    BY <1>1, <1>3, <2>1
  <2>2. CASE n \in 1..Len(said)
    BY <1>1, <1>3, <2>2 DEF InOrder
  <2> QED  BY <1>1, <2>1, <2>2
<1> QED  BY <1>2, <1>4 DEF InOrder, Emit

(* Every step of the ask keeps its phases in order.                          *)
LEMMA JobGroups ==
  ASSUME TypeOK, StepBegun, Grouping, Job
  PROVE  Grouping' /\ (template' # "DISTRIBUTED" => template # "DISTRIBUTED")
<1> DEFINE last == PhaseAt(said, Len(said))
<1>1. /\ <<"plan_started">> \in Event /\ <<"plan_completed">> \in Event
      /\ <<"composing_started">> \in Event /\ <<"composing_completed">> \in Event
      /\ <<"final">> \in Event /\ <<"error">> \in Event
      /\ \A s \in Step, n \in {"step_started", "step_completed", "tool_started",
                               "tool_completed"} : <<n, s>> \in Event
  BY DEF Event, Conclusion
<1>2. step >= 1 => step \in Step
  BY DEF TypeOK, Step
<1>3. CASE PlanStarts
  <2>1. /\ Emit(<<"plan_started">>, "planning") /\ job = "prepare" /\ job' = "planning"
        /\ template' = template
    BY <1>3 DEF PlanStarts, Emit
  <2>2. template = "none" /\ InOrder(said) /\ last = <<"initialize">>
    BY <2>1 DEF Grouping, JobPhase
  <2>3. Orderly(<<"plan_started">>, last) /\ Left(<<"plan_started">>) = <<"plan">>
    BY <2>2 DEF Orderly, Left
  <2> QED  BY <1>1, <2>1, <2>2, <2>3, EmitOrderly DEF Grouping, JobPhase
<1>4. CASE PlanCompletes
  <2>1. Emit(<<"plan_completed">>, "steps") /\ job = "planning" /\ job' = "steps"
    BY <1>4 DEF PlanCompletes, Emit
  <2>2. template = "none" /\ InOrder(said) /\ last = <<"plan">>
    BY <2>1 DEF Grouping, JobPhase
  <2>3. Orderly(<<"plan_completed">>, last) /\ Left(<<"plan_completed">>) = <<>>
    BY <2>2 DEF Orderly, Left
  <2> QED  BY <1>1, <2>1, <2>2, <2>3, EmitOrderly DEF Grouping, JobPhase
<1>5. CASE StepStarts
  <2>1. /\ Emit(<<"step_started", step'>>, "calls") /\ job = "steps" /\ job' = "calls"
        /\ template' = template /\ step' \in Step
    BY <1>5, StreamAssumption DEF StepStarts, Emit, Step, TypeOK
  <2>2. template # "DISTRIBUTED" => InOrder(said) /\ last = <<>>
    BY <2>1 DEF Grouping, JobPhase
  <2> DEFINE s == step'
  <2>3. /\ last = <<>> => Orderly(<<"step_started", s>>, last)
        /\ Left(<<"step_started", s>>) = <<"step", s>>
    BY DEF Orderly, Left
  <2>4. template # "DISTRIBUTED" => InOrder(said)' /\ PhaseAt(said, Len(said))' = <<"step", s>>
    BY <1>1, <2>1, <2>2, <2>3, EmitOrderly
  <2> QED  BY <2>1, <2>4 DEF Grouping, JobPhase
<1>6. CASE NoStep
  <2>1. job = "steps" /\ job' \in {"finish", "compose"} /\ UNCHANGED <<said, template, step>>
    BY <1>6 DEF NoStep
  <2> QED  BY <2>1 DEF Grouping, JobPhase
<1>7. CASE CallStarts
  <2>1. /\ Emit(<<"tool_started", step>>, "calls") /\ job = "calls" /\ job' = "calls"
        /\ template' = template /\ step' = step /\ step \in Step
    BY <1>2, <1>7 DEF CallStarts, Emit, StepBegun
  <2>2. template # "DISTRIBUTED" => InOrder(said) /\ last = <<"step", step>>
    BY <2>1 DEF Grouping, JobPhase
  <2>3. /\ Orderly(<<"tool_started", step>>, <<"step", step>>)
        /\ Left(<<"tool_started", step>>) = <<"step", step>>
    BY DEF Orderly, Left
  <2>4. template # "DISTRIBUTED" => InOrder(said)' /\ PhaseAt(said, Len(said))' = <<"step", step>>
    BY <1>1, <2>1, <2>2, <2>3, EmitOrderly
  <2> QED  BY <2>1, <2>4 DEF Grouping, JobPhase
<1>8. CASE CallCompletes
  <2>1. /\ Emit(<<"tool_completed", step>>, "results") /\ job \in {"calls", "results"}
        /\ job' = "results" /\ template' = template /\ step' = step /\ step \in Step
    BY <1>2, <1>8 DEF CallCompletes, Emit, StepBegun
  <2>2. template # "DISTRIBUTED" => InOrder(said) /\ last = <<"step", step>>
    BY <2>1 DEF Grouping, JobPhase
  <2>3. /\ Orderly(<<"tool_completed", step>>, <<"step", step>>)
        /\ Left(<<"tool_completed", step>>) = <<"step", step>>
    BY DEF Orderly, Left
  <2>4. template # "DISTRIBUTED" => InOrder(said)' /\ PhaseAt(said, Len(said))' = <<"step", step>>
    BY <1>1, <2>1, <2>2, <2>3, EmitOrderly
  <2> QED  BY <2>1, <2>4 DEF Grouping, JobPhase
<1>9. CASE StepCompletes
  <2>1. /\ Emit(<<"step_completed", step>>, job') /\ job = "results"
        /\ job' \in {"finish", "steps", "compose"}
        /\ template' = template /\ step' = step /\ step \in Step
    BY <1>2, <1>9 DEF StepCompletes, Emit, StepBegun
  <2>2. template # "DISTRIBUTED" => InOrder(said) /\ last = <<"step", step>>
    BY <2>1 DEF Grouping, JobPhase
  <2>3. /\ Orderly(<<"step_completed", step>>, <<"step", step>>)
        /\ Left(<<"step_completed", step>>) = <<>>
    BY DEF Orderly, Left
  <2> DEFINE to == job'
  <2>4. Emit(<<"step_completed", step>>, to) /\ <<"step_completed", step>> \in Event
    BY <1>1, <2>1
  <2> HIDE DEF to
  <2>5. template # "DISTRIBUTED" => InOrder(said)' /\ PhaseAt(said, Len(said))' = <<>>
    BY <2>2, <2>3, <2>4, EmitOrderly
  <2> QED  BY <2>1, <2>5 DEF Grouping, JobPhase
<1>10. CASE ComposingStarts
  <2>1. /\ Emit(<<"composing_started">>, "composing") /\ job' = "composing"
        /\ job = "compose" \/ (template = "DISTRIBUTED" /\ job = "results")
        /\ template' = template
    BY <1>10 DEF ComposingStarts, Emit
  <2>2. template # "DISTRIBUTED" => InOrder(said) /\ last = <<>>
    BY <2>1 DEF Grouping, JobPhase
  <2>3. /\ last = <<>> => Orderly(<<"composing_started">>, last)
        /\ Left(<<"composing_started">>) = <<"composing">>
    BY DEF Orderly, Left
  <2>4. template # "DISTRIBUTED" => InOrder(said)' /\ PhaseAt(said, Len(said))' = <<"composing">>
    BY <1>1, <2>1, <2>2, <2>3, EmitOrderly
  <2> QED  BY <2>1, <2>4 DEF Grouping, JobPhase
<1>11. CASE ComposingCompletes
  <2>1. /\ Emit(<<"composing_completed">>, job') /\ job = "composing" /\ template' = template
        /\ job' = IF template = "DISTRIBUTED" THEN "composed" ELSE "finish"
    BY <1>11 DEF ComposingCompletes, Emit
  <2>2. template # "DISTRIBUTED" => InOrder(said) /\ last = <<"composing">>
    BY <2>1 DEF Grouping, JobPhase
  <2>3. /\ last = <<"composing">> => Orderly(<<"composing_completed">>, last)
        /\ Left(<<"composing_completed">>) = <<>>
    BY DEF Orderly, Left
  <2> DEFINE to == job'
  <2>4. Emit(<<"composing_completed">>, to)
    BY <2>1
  <2> HIDE DEF to
  <2>5. template # "DISTRIBUTED" => InOrder(said)' /\ PhaseAt(said, Len(said))' = <<>>
    BY <1>1, <2>2, <2>3, <2>4, EmitOrderly
  <2> QED  BY <2>1, <2>5 DEF Grouping, JobPhase
<1>12. CASE DistributedStepCompletes
  <2>1. job = "composed" /\ job' = "finish" /\ template' = template
    BY <1>12 DEF DistributedStepCompletes, Emit
  <2> QED  BY <2>1 DEF Grouping, JobPhase
<1>13. CASE Answers
  <2>1. Emit(<<"final">>, "done") /\ job = "finish" /\ job' = "done" /\ template' = template
    BY <1>13 DEF Answers, Emit
  <2>2. template # "DISTRIBUTED" => InOrder(said) /\ last = <<>>
    BY <2>1 DEF Grouping, JobPhase
  <2>3. /\ last = <<>> => Orderly(<<"final">>, last)
        /\ Left(<<"final">>) = <<>>
    BY DEF Orderly, Left
  <2>4. template # "DISTRIBUTED" => InOrder(said)' /\ PhaseAt(said, Len(said))' = <<>>
    BY <1>1, <2>1, <2>2, <2>3, EmitOrderly
  <2> QED  BY <2>1, <2>4 DEF Grouping, JobPhase
<1>14. CASE Raises
  <2>1. Emit(<<"error">>, "done") /\ job' = "done" /\ template' = template
    BY <1>14 DEF Raises, MayRaise, Emit
  <2>2. template # "DISTRIBUTED" => InOrder(said)
    BY DEF Grouping
  <2>3. Orderly(<<"error">>, last) /\ Left(<<"error">>) = <<>>
    BY DEF Orderly, Left
  <2>4. template # "DISTRIBUTED" => InOrder(said)' /\ PhaseAt(said, Len(said))' = <<>>
    BY <1>1, <2>1, <2>2, <2>3, EmitOrderly
  <2> QED  BY <2>1, <2>4 DEF Grouping, JobPhase
<1>15. CASE Ends
  <2>1. job = "done" /\ job' = "ended" /\ UNCHANGED <<said, template, step>>
    BY <1>15 DEF Ends
  <2> QED  BY <2>1 DEF Grouping, JobPhase
<1> QED  BY <1>3, <1>4, <1>5, <1>6, <1>7, <1>8, <1>9, <1>10, <1>11, <1>12, <1>13, <1>14, <1>15
     DEF Job

LEMMA ReaderGroups ==
  ASSUME TypeOK, Delivery, Grouping, Reader \/ Leaves
  PROVE  Grouping' /\ template' = template
<1>1. CASE Calls
  <2>1. UNCHANGED <<said, step, template>> /\ job = "unborn" /\ job' = "prepare"
    BY <1>1 DEF Calls, Delivery
  <2> QED  BY <2>1 DEF Grouping, JobPhase
<1>2. CASE Announces \/ Opens \/ Reads \/ Leaves
  <2>1. UNCHANGED <<said, job, step, template>>
    BY <1>2 DEF Announces, Opens, Reads, Leaves
  <2> QED  BY <2>1 DEF Grouping, JobPhase
<1> QED  BY <1>1, <1>2 DEF Reader

(* The reader keeps what it writes well grouped: what it hears next is what  *)
(* was said next, in the phase that the text has reached.                    *)
LEMMA ReaderShows ==
  ASSUME TypeOK, Delivery, Grouping, Showing, Reader \/ Leaves
  PROVE  Showing'
<1>1. template' = template
  BY ReaderGroups
<1>2. CASE Calls \/ Announces
  <2>1. UNCHANGED <<endpoint, heard, sentInit, phase, text>>
    BY <1>2 DEF Calls, Announces
  <2>2. reader \in {"calling", "announcing"} /\ reader' \in {"announcing", "opening"}
    BY <1>2 DEF Calls, Announces
  <2> QED  BY <1>1, <2>1, <2>2 DEF Showing
<1>3. CASE Leaves
  <2>1. UNCHANGED <<endpoint, heard, sentInit, phase, text>> /\ reader' = "gone"
    BY <1>3 DEF Leaves
  <2> QED  BY <1>1, <2>1 DEF Showing
<1>4. CASE Opens
  <2>1. /\ ~sentInit /\ text = <<>> /\ phase = <<>> /\ heard = <<>> /\ heard' = heard
        /\ reader' = "reading" /\ endpoint' = endpoint
    BY <1>4 DEF Opens, Showing
  <2>2. CASE endpoint = "openai"
    <3>1. sentInit' = TRUE /\ text' = <<"<think>", "line">> /\ phase' = <<"initialize">>
      BY <1>4, <2>1, <2>2
         DEF Opens, Written, PhaseAfter, Opened, Closes, Initialize
    <3>2. PhaseAt(heard', Len(heard')) = <<"initialize">>
      BY <2>1 DEF PhaseAt
    <3>3. template # "DISTRIBUTED" => GoodText(text', 1)
      <4>1. SUFFICES ASSUME template # "DISTRIBUTED" PROVE GoodText(text', 1)
        OBVIOUS
      <4>2. <<>> \in Seq(Tags) /\ GoodText(<<>>, 0) /\ "<think>" \in Tags /\ "line" \in Tags
        BY <2>1, <4>1 DEF Showing, OpenAt, Tags
      <4>3. Append(<<>>, "<think>") \in Seq(Tags) /\ GoodText(Append(<<>>, "<think>"), 1)
        BY <4>2, GoodAppend
      <4>4. GoodText(Append(Append(<<>>, "<think>"), "line"), 1)
        BY <4>2, <4>3, GoodAppend
      <4>5. text' = Append(Append(<<>>, "<think>"), "line")
        BY <3>1
      <4> QED  BY <4>4, <4>5
    <3> QED  BY <1>1, <2>1, <2>2, <3>1, <3>2, <3>3 DEF Showing, OpenAt
  <2>3. CASE endpoint # "openai"
    <3>1. UNCHANGED <<sentInit, phase, text>>
      BY <1>4, <2>3 DEF Opens
    <3> QED  BY <1>1, <2>1, <2>3, <3>1 DEF Showing
  <2> QED  BY <2>2, <2>3
<1>5. CASE Reads
  <2>1. /\ reader = "reading" /\ reader' \in {"reading", "closed"}
        /\ UNCHANGED <<endpoint, sentInit>> /\ (sentInit <=> endpoint = "openai")
        /\ Head(queue) \in Event \union {Done} /\ endpoint \in {"openai", "sse"}
    BY <1>5, StreamAssumption DEF Reads, Showing, TypeOK
  <2>2. CASE Head(queue) = Done
    <3>1. UNCHANGED <<heard, phase, text>>
      BY <1>5, <2>2 DEF Reads
    <3> QED  BY <1>1, <2>1, <3>1 DEF Showing
  <2>3. CASE endpoint = "sse"
    <3>1. UNCHANGED <<phase, text>>
      BY <1>5, <2>3 DEF Reads
    <3> QED  BY <1>1, <2>1, <2>3, <3>1 DEF Showing
  <2>4. CASE endpoint = "openai" /\ Head(queue) = Initialize
    <3>1. UNCHANGED <<phase, text>> /\ heard' = heard \o <<>>
      BY <1>5, <2>1, <2>4, DoneApart DEF Reads, Reported
    <3>2. heard' = heard
      BY <3>1 DEF TypeOK
    <3> QED  BY <1>1, <2>1, <3>1, <3>2 DEF Showing
  <2>5. CASE endpoint = "openai" /\ Head(queue) # Done /\ Head(queue) # Initialize
    <3> DEFINE e == Head(queue)
               n == Len(heard)
    <3>1. heard' = Append(heard, e) /\ Show(e) /\ e \in Event \ {Initialize} /\ sentInit
      BY <1>5, <2>1, <2>5 DEF Reads, Reported, TypeOK
    <3>2. n + 1 <= Len(Owed) /\ Owed[n + 1] = e /\ \A i \in 1..n : Owed[i] = heard[i]
      BY <1>5, <2>5, NextOwed DEF TypeOK
    <3>3. n + 1 \in DOMAIN said /\ said[n + 1] = e /\ \A i \in 1..n : said[i] = heard[i]
      BY <2>5, <3>2 DEF Owed, TypeOK
    <3>4. n \in Nat /\ PhaseAt(heard', Len(heard')) = Left(e)
      BY <3>1 DEF PhaseAt, TypeOK
    <3>5. PhaseAt(said, n) = PhaseAt(heard, n)
      BY <3>3, <3>4 DEF PhaseAt
    <3> HIDE DEF e, n
    <3>6. ASSUME template # "DISTRIBUTED"
          PROVE  phase' = Left(e) /\ GoodText(text', OpenAt(phase'))
      <4>1. phase = PhaseAt(heard, n) /\ GoodText(text, OpenAt(phase)) /\ InOrder(said)
        BY <3>1, <3>6 DEF Showing, Grouping, n
      <4>2. Orderly(e, PhaseAt(said, n))
        BY <3>3, <3>4, <4>1 DEF InOrder
      <4>3. Orderly(e, phase)
        BY <3>5, <4>1, <4>2
      <4> QED  BY <3>1, <4>1, <4>3, GoodShow
    <3>7. sentInit' /\ reader' \in {"reading", "closed"} /\ endpoint' = "openai"
      BY <2>1, <2>5, <3>1
    <3> QED  BY <1>1, <3>4, <3>6, <3>7 DEF Showing
  <2> QED  BY <2>1, <2>2, <2>3, <2>4, <2>5
<1> QED  BY <1>2, <1>3, <1>4, <1>5 DEF Reader

(* The ask writes nothing itself.                                            *)
LEMMA JobShows ==
  ASSUME TypeOK, StepBegun, Grouping, Showing, Job
  PROVE  Showing'
<1>1. UNCHANGED readerVars
  BY DEF Job, Emit, PlanStarts, PlanCompletes, StepStarts, NoStep, CallStarts, CallCompletes,
         StepCompletes, ComposingStarts, ComposingCompletes, DistributedStepCompletes,
         Answers, Raises, Ends
<1>2. template' # "DISTRIBUTED" => template # "DISTRIBUTED"
  BY JobGroups
<1> QED  BY <1>1, <1>2 DEF readerVars, Showing

LEMMA StreamShows == Spec => [](Grouping /\ Showing)
<1>1. Init => Grouping /\ Showing
  <2> SUFFICES ASSUME Init
               PROVE  Grouping /\ Showing
    OBVIOUS
  <2>1. said = <<>> /\ job = "unborn" /\ template = "none" /\ heard = <<>>
    BY DEF Init
  <2>2. InOrder(said) /\ JobPhase
    BY <2>1 DEF InOrder, JobPhase, PhaseAt
  <2>3. GoodText(<<>>, 0)
    <3>1. \A tag : {m \in 1..0 : <<>>[m] = tag} = {} /\ Len(<<>>) = 0
      OBVIOUS
    <3>2. \A tag : Count(<<>>, 0, tag) = 0
      BY <3>1, FS_EmptySet DEF Count
    <3> QED  BY <3>1, <3>2 DEF GoodText, Blocks
  <2> QED  BY <2>1, <2>2, <2>3 DEF Init, Grouping, Showing, OpenAt
<1>2. TypeOK /\ StepBegun /\ Delivery /\ Grouping /\ Showing /\ [Next]_vars =>
        Grouping' /\ Showing'
  <2> SUFFICES ASSUME TypeOK, StepBegun, Delivery, Grouping, Showing, [Next]_vars
               PROVE  Grouping' /\ Showing'
    OBVIOUS
  <2>1. CASE UNCHANGED vars
    BY <2>1 DEF vars, Grouping, JobPhase, Showing
  <2> QED  BY <2>1, ReaderGroups, ReaderShows, JobGroups, JobShows DEF Next, Over
<1> QED  BY <1>1, <1>2, StreamInvariant, PTL DEF Spec

(* However the threads interleave and wherever the ask fails, the text that  *)
(* a client of /v1/chat/completions has been sent is well grouped at every   *)
(* piece of it, for any number of steps and calls (_format_status_event, the *)
(* error case of _openai_stream_with_status); only DISTRIBUTED is apart.     *)
THEOREM StreamGrouped == Spec => []StatusGrouped
<1>1. TypeOK /\ Delivery /\ Grouping /\ Showing => StatusGrouped
  <2> SUFFICES ASSUME TypeOK, Delivery, Grouping, Showing, template # "DISTRIBUTED"
               PROVE  WellGrouped
    BY DEF StatusGrouped
  <2>1. GoodText(text, OpenAt(phase)) /\ \A n : OpenBlocks(n) = Blocks(text, n)
    BY DEF Showing, OpenBlocks, Blocks, Count
  <2>2. ASSUME NEW n \in DOMAIN text
        PROVE  CASE text[n] \in {"answer", "error"} -> OpenBlocks(n) = 0
                 [] text[n] \in {"<think>", "line"} -> OpenBlocks(n) = 1
                 [] OTHER                           -> OpenBlocks(n) = 0
    BY <2>1 DEF GoodText
  <2>3. ASSUME reader = "closed"
        PROVE  OpenBlocks(Len(text)) = 0
    <3>1. heard = said /\ job = "ended"
      BY <2>3 DEF Delivery
    <3>2. PhaseAt(heard, Len(heard)) = <<>>
      BY <3>1 DEF Grouping, JobPhase
    <3>3. phase = <<>>
      BY <3>2 DEF Showing
    <3> QED  BY <2>1, <3>3 DEF GoodText, OpenAt
  <2> QED  BY <2>2, <2>3 DEF WellGrouped
<1> QED  BY <1>1, StreamInvariant, StreamShows, PTL

-----------------------------------------------------------------------------
\* A reader that finds the queue empty waits for an ask that is not over.
NoVainWait == reader = "reading" /\ queue = <<>> => job # "ended"

(* queue.get() has no timeout, and never needs one: while the ask is not     *)
(* over more will be put, and once it is the end-of-stream item is still     *)
(* there for whoever has not taken it (ask_stream's finally).                *)
THEOREM ReaderWaitsForMore == Spec => []NoVainWait
<1>1. TypeOK /\ Delivery => NoVainWait
  <2> SUFFICES ASSUME TypeOK, Delivery, reader = "reading", queue = <<>>, job = "ended"
               PROVE  FALSE
    BY DEF NoVainWait
  <2>1. Rest(heard, queue, Owed)
    BY DEF Delivery, Flow, Awaited
  <2>2. Owed = Append(said, Done) /\ Len(Owed) = Len(said) + 1 /\ Owed[Len(said) + 1] = Done
    BY DEF Owed, TypeOK
  <2>3. Len(queue) = 0 /\ Len(heard) \in Nat /\ Len(said) \in Nat
    BY DEF TypeOK
  <2>4. Len(heard) = Len(said) + 1
    BY <2>1, <2>2, <2>3 DEF Rest
  <2>5. heard[Len(said) + 1] = Done
    BY <2>1, <2>2, <2>3, <2>4 DEF Rest
  <2>6. heard[Len(said) + 1] \in Event
    BY <2>3, <2>4 DEF TypeOK
  <2> QED  BY <2>5, <2>6, DoneApart
<1> QED  BY <1>1, StreamInvariant, PTL
=============================================================================
