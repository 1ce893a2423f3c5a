------------------------------ MODULE MCProbing ------------------------------
(* Instances of Probing: the service and the profiling script, which save    *)
(* records of one tool; bound: the script's prober asks one question.        *)
EXTENDS Probing

CONSTANTS tool, p1, p2

MCPrefix == [p \in Probe |-> "VECTOR:"]
MCMaxQuestions == [p \in Probe |-> IF p = p1 THEN 3 ELSE 1]
MCToolOf == [p \in Probe |-> tool]
=============================================================================
