------------------------------ MODULE ToolHealth ------------------------------
(***************************************************************************)
(* The health of the tools (_update_health of service.py) under asks that  *)
(* run in threads: each ask has the router look at it, calls tools, and at *)
(* its end goes through its steps and counts failures in records that all  *)
(* asks share.  There is no lock: every read and every write of a field is *)
(* a step of its own, the router's look at each tool included.  Which      *)
(* tools an ask calls, and which calls fail, is picked; a step whose error *)
(* has an empty text counts as a success.                                  *)
(***************************************************************************)
EXTENDS Router, FiniteSets

CONSTANTS
  Ask,          \* the threads that serve asks
  Threshold,    \* the failures that make a tool unhealthy: 3
  MaxUpdates    \* bound: steps that are counted

ASSUME ToolHealthAssumption ==
  Tool # {} /\ Threshold \in Nat \ {0} /\ MaxUpdates \in Nat

VARIABLES
  count,        \* failure_count of each tool
  healthy,      \* and its flag
  pc,           \* where each ask stands
  route,        \* what the router said: strategy, fallback, and if by hand
  trusted,      \* the tools it has looked at and found healthy
  step,         \* the step an ask is counting: its tool and if it failed
  read,         \* the failure_count it has read
  updates,      \* history: the steps counted so far
  errors,       \* history: the failures counted of each tool
  streak,       \* history: those since the last success that ended alone
  alone,        \* history: no other update has met that of the ask
  raced         \* history: updates of the tool have met since then

health  == <<count, healthy>>
history == <<updates, errors, streak, alone, raced>>
vars == <<health, pc, route, trusted, step, read, history>>

Updating == {a \in Ask : pc[a] \in {"read", "write", "test", "mark", "reset", "heal"}}
Others(a) == {b \in Updating \ {a} : step[b].tool = step[a].tool}

NoRoute == [strategy |-> CHOOSE s \in Allowed : TRUE, fellBack |-> TRUE, manual |-> FALSE]

-----------------------------------------------------------------------------
Init ==
  /\ count = [t \in Tool |-> 0]
  /\ healthy = [t \in Tool |-> TRUE]
  /\ pc = [a \in Ask |-> "idle"]
  /\ route = [a \in Ask |-> NoRoute]
  /\ trusted = [a \in Ask |-> {}]
  /\ step = [a \in Ask |-> [tool |-> CHOOSE t \in Tool : TRUE, failed |-> FALSE]]
  /\ read = [a \in Ask |-> 0]
  /\ updates = 0
  /\ errors = count /\ streak = count
  /\ alone = [a \in Ask |-> FALSE]
  /\ raced = [t \in Tool |-> FALSE]

Goto(a, to) == pc' = [pc EXCEPT ![a] = to]

\* select_strategy; _manual_strategy has it choose for an empty query, and then
\* puts in the strategy that was asked for.
Choose(a, s, fellBack, manual) ==
  route' = [route EXCEPT ![a] = [strategy |-> s, fellBack |-> fellBack, manual |-> manual]]

Select(a) ==
  /\ pc[a] = "idle"
  /\ \E intent \in Intent, needExternal \in BOOLEAN :
       \E s \in Restricted(Preferred(intent, needExternal)) : Choose(a, s, FALSE, FALSE)
  /\ Goto(a, "look")
  /\ UNCHANGED <<health, trusted, step, read, history>>

\* _strategy_tools_healthy looks at one tool after the other; a strategy that has
\* none is not healthy.  A tool without a record counts as healthy.
Unseen(a) == Required(route[a].strategy) \ trusted[a]

FindHealthy(a) ==
  /\ \E t \in Unseen(a) : healthy[t] /\ trusted' = [trusted EXCEPT ![a] = @ \union {t}]
  /\ UNCHANGED <<pc, route>>

FallBack(a) ==
  /\ Required(route[a].strategy) = {} \/ \E t \in Unseen(a) : ~healthy[t]
  /\ \E f \in Fallbacks : Choose(a, f, TRUE, FALSE)
  /\ Goto(a, "routed")
  /\ UNCHANGED trusted

Vouch(a) ==
  /\ Required(route[a].strategy) # {} /\ Unseen(a) = {}
  /\ Goto(a, "routed")
  /\ UNCHANGED <<route, trusted>>

Look(a) ==
  /\ pc[a] = "look"
  /\ FindHealthy(a) \/ FallBack(a) \/ Vouch(a)
  /\ UNCHANGED <<health, step, read, history>>

SelectByHand(a) ==
  /\ pc[a] = "idle"
  /\ \E s \in Allowed, fellBack \in BOOLEAN : Choose(a, s, fellBack, TRUE)
  /\ Goto(a, "routed")
  /\ UNCHANGED <<health, trusted, step, read, history>>

\* The tools have been called and the trace, with the route, is saved.
Saved(a) ==
  /\ pc[a] = "routed"
  /\ route' = [route EXCEPT ![a] = NoRoute]
  /\ trusted' = [trusted EXCEPT ![a] = {}]
  /\ Goto(a, "called")
  /\ UNCHANGED <<health, step, read, history>>

\* _update_health comes to the next step of the ask.
Begin(a) ==
  /\ pc[a] = "called" /\ updates < MaxUpdates
  /\ updates' = updates + 1
  /\ \E t \in Tool, failed \in BOOLEAN :
       /\ step' = [step EXCEPT ![a] = [tool |-> t, failed |-> failed]]
       /\ Goto(a, IF failed THEN "read" ELSE "reset")
       /\ LET met == {b \in Updating : step[b].tool = t} IN
            /\ alone' = [b \in Ask |-> IF b = a THEN met = {} ELSE alone[b] /\ b \notin met]
            /\ raced' = [raced EXCEPT ![t] = @ \/ met # {}]
  /\ UNCHANGED <<health, route, trusted, read, errors, streak>>

\* health.failure_count += 1: a read and a write.
Read(a) ==
  /\ pc[a] = "read"
  /\ read' = [read EXCEPT ![a] = count[step[a].tool]]
  /\ errors' = [errors EXCEPT ![step[a].tool] = @ + 1]
  /\ streak' = [streak EXCEPT ![step[a].tool] = @ + 1]
  /\ Goto(a, "write")
  /\ UNCHANGED <<health, route, trusted, step, updates, alone, raced>>

Write(a) ==
  /\ pc[a] = "write"
  /\ count' = [count EXCEPT ![step[a].tool] = read[a] + 1]
  /\ Goto(a, "test")
  /\ UNCHANGED <<healthy, route, trusted, step, read, history>>

\* The count is read again: it may be another ask's by now.
TestEarly(a) ==                                        \* mutant: > for >=
  /\ pc[a] = "test"
  /\ Goto(a, IF count[step[a].tool] + 1 >= Threshold THEN "mark" ELSE "called")
  /\ UNCHANGED <<health, route, trusted, step, read, history>>

Test(a) ==
  /\ pc[a] = "test"
  /\ Goto(a, IF count[step[a].tool] >= Threshold THEN "mark" ELSE "called")
  /\ UNCHANGED <<health, route, trusted, step, read, history>>

Mark(a) ==
  /\ pc[a] = "mark"
  /\ healthy' = [healthy EXCEPT ![step[a].tool] = FALSE]
  /\ Goto(a, "called")
  /\ UNCHANGED <<count, route, trusted, step, read, history>>

ResetByOne(a) ==                                       \* mutant: a success takes one back
  /\ pc[a] = "reset"
  /\ count' = [count EXCEPT ![step[a].tool] = @ - 1]
  /\ Goto(a, "heal")
  /\ UNCHANGED <<healthy, route, trusted, step, read, history>>

Reset(a) ==
  /\ pc[a] = "reset"
  /\ count' = [count EXCEPT ![step[a].tool] = 0]
  /\ Goto(a, "heal")
  /\ UNCHANGED <<healthy, route, trusted, step, read, history>>

HealOnly(a) ==                                         \* mutant: a success does not heal
  /\ pc[a] = "heal"
  /\ streak' = IF alone[a] THEN [streak EXCEPT ![step[a].tool] = 0] ELSE streak
  /\ raced' = [raced EXCEPT ![step[a].tool] = @ /\ ~alone[a]]
  /\ Goto(a, "called")
  /\ UNCHANGED <<health, route, trusted, step, read, updates, errors, alone>>

Heal(a) ==
  /\ pc[a] = "heal"
  /\ healthy' = [healthy EXCEPT ![step[a].tool] = TRUE]
  /\ streak' = IF alone[a] THEN [streak EXCEPT ![step[a].tool] = 0] ELSE streak
  /\ raced' = [raced EXCEPT ![step[a].tool] = @ /\ ~alone[a]]
  /\ Goto(a, "called")
  /\ UNCHANGED <<count, route, trusted, step, read, updates, errors, alone>>

\* The ask returns its answer; the thread serves another.
Return(a) ==
  /\ pc[a] = "called"
  /\ Goto(a, "idle")
  /\ step' = [step EXCEPT ![a] = [tool |-> CHOOSE t \in Tool : TRUE, failed |-> FALSE]]
  /\ read' = [read EXCEPT ![a] = 0]
  /\ alone' = [alone EXCEPT ![a] = FALSE]
  /\ UNCHANGED <<health, route, trusted, updates, errors, streak, raced>>

Update(a) == Read(a) \/ Write(a) \/ Test(a) \/ Mark(a) \/ Reset(a) \/ Heal(a)

Next ==
  \E a \in Ask :
    \/ Select(a) \/ Look(a) \/ SelectByHand(a) \/ Saved(a)
    \/ Begin(a) \/ Update(a) \/ Return(a)

Spec == Init /\ [][Next]_vars

-----------------------------------------------------------------------------
TypeOK ==
  /\ count \in [Tool -> Nat]
  /\ healthy \in [Tool -> BOOLEAN]
  /\ pc \in [Ask -> {"idle", "look", "routed", "called", "read", "write", "test", "mark",
                     "reset", "heal"}]
  /\ route \in [Ask -> [strategy : Strategy, fellBack : BOOLEAN, manual : BOOLEAN]]
  /\ trusted \in [Ask -> SUBSET Tool]
  /\ step \in [Ask -> [tool : Tool, failed : BOOLEAN]]
  /\ read \in [Ask -> Nat]
  /\ updates \in 0..MaxUpdates
  /\ errors \in [Tool -> Nat] /\ streak \in [Tool -> Nat]
  /\ alone \in [Ask -> BOOLEAN] /\ raced \in [Tool -> BOOLEAN]

(* Whatever updates are lost or overtaken, failures are never invented: a    *)
(* tool's count is covered by failures it has had, and a tool that is held   *)
(* for unhealthy has had as many as that takes.                              *)
FailuresAreReal ==
  \A t \in Tool :
    /\ count[t] <= errors[t]
    /\ ~healthy[t] => errors[t] >= Threshold

(* Where the updates of a tool have not met since its last success that met  *)
(* no other, its count is that of its failures since, and it is unhealthy    *)
(* exactly when they have reached the threshold: what a race has spoilt, the *)
(* next undisturbed success puts right.                                      *)
HealthIsExact ==
  \A t \in Tool :
    ~raced[t] /\ (\A a \in Updating : step[a].tool # t) =>
      /\ count[t] = streak[t]
      /\ healthy[t] <=> streak[t] < Threshold

(* Restrictions, fallbacks and the caller's own choice: a strategy that the  *)
(* profile does not allow is never the outcome.                              *)
StrategyAllowed == \A a \in Ask : route[a].strategy \in Allowed

(* Unless it fell back, the router vouches for the tools it selects: it has  *)
(* looked at each and found it healthy, and there is one.                    *)
SelectionWasHealthy ==
  \A a \in Ask : pc[a] = "routed" /\ ~route[a].fellBack /\ ~route[a].manual =>
    Selected(route[a].strategy) # {} /\ Selected(route[a].strategy) \subseteq trusted[a]
=============================================================================
