---------------------------- MODULE StreamContract ----------------------------
(***************************************************************************)
(* What a client of a streamed ask is promised: progress reports, then one *)
(* conclusion (the final answer or an error), then the end of the stream.  *)
(* Progress is reported stage by stage: a stage is over before the next    *)
(* one of its kind begins, and only reported as over once it has begun.    *)
(***************************************************************************)
EXTENDS Sequences, SequencesExt

CONSTANTS
  Stage,        \* the stages that are reported on
  Begins(_),    \* the report that a stage begins
  Completes(_), \* the report that it is over
  Details(_),   \* the reports about what happens in it
  Conclusion    \* the reports that conclude an ask

VARIABLES
  heard,        \* what the client has been told
  closed        \* the stream has ended

Begun(s)     == Begins(s) \in ToSet(heard)
Completed(s) == Completes(s) \in ToSet(heard)
Concluded    == \E e \in Conclusion : e \in ToSet(heard)

Tell(e) == heard' = Append(heard, e) /\ UNCHANGED closed

Init == heard = <<>> /\ closed = FALSE

Begin(s)    == ~Concluded /\ ~Begun(s) /\ Tell(Begins(s))
Complete(s) == ~Concluded /\ Begun(s) /\ ~Completed(s) /\ Tell(Completes(s))

\* A detail of a stage is reported while the stage is under way.
Describe(s) ==
  /\ ~Concluded /\ Begun(s) /\ ~Completed(s)
  /\ \E e \in Details(s) : Tell(e)

Conclude == ~Concluded /\ \E e \in Conclusion : Tell(e)

Close == Concluded /\ ~closed /\ closed' = TRUE /\ UNCHANGED heard

Next ==
  \/ \E s \in Stage : Begin(s) \/ Complete(s) \/ Describe(s)
  \/ Conclude \/ Close

Spec == Init /\ [][Next]_<<heard, closed>>
=============================================================================
