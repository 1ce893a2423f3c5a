--------------------------- MODULE ToolHealthProofs ---------------------------
(***************************************************************************)
(* Proofs about the router's choice and the health of the tools, for any   *)
(* number of asks that look at it and count failures without a lock, any   *)
(* tools, profile and threshold.                                           *)
(***************************************************************************)
EXTENDS ToolHealth, TLAPS

USE DEF health, history

-----------------------------------------------------------------------------
\* Whatever is preferred, the outcome is a strategy that the profile allows.
LEMMA FallbacksAllowed == Fallbacks \subseteq Allowed
BY DEF Fallbacks, FirstAllowed

LEMMA RestrictedAllowed == \A s : Restricted(s) \subseteq Allowed
BY FallbacksAllowed DEF Restricted

LEMMA NoRouteAllowed ==
  NoRoute \in [strategy : Strategy, fellBack : BOOLEAN, manual : BOOLEAN]
  /\ NoRoute.strategy \in Allowed /\ NoRoute.fellBack
<1>1. (CHOOSE s \in Allowed : TRUE) \in Allowed /\ Allowed \subseteq Strategy
  BY RouterAssumption
<1> QED  BY <1>1 DEF NoRoute

LEMMA SomeTool == (CHOOSE t \in Tool : TRUE) \in Tool
BY ToolHealthAssumption

-----------------------------------------------------------------------------
(* Asks, their routes and the shared counts are well typed.                  *)
THEOREM HealthTyped == Spec => []TypeOK
<1> USE DEF TypeOK
<1>1. Init => TypeOK
  BY ToolHealthAssumption, NoRouteAllowed, SomeTool DEF Init
<1>2. TypeOK /\ [Next]_vars => TypeOK'
  <2> SUFFICES ASSUME TypeOK, [Next]_vars
               PROVE  TypeOK'
    OBVIOUS
  <2>1. ASSUME NEW a \in Ask, NEW s \in Allowed, NEW fellBack \in BOOLEAN,
               NEW manual \in BOOLEAN, Choose(a, s, fellBack, manual),
               Goto(a, "routed") \/ Goto(a, "look"),
               UNCHANGED <<health, trusted, step, read, history>>
        PROVE  TypeOK'
    <3>1. s \in Strategy
      BY RouterAssumption
    <3> QED  BY <2>1, <3>1 DEF Choose, Goto
  <2>2. ASSUME NEW a \in Ask, Select(a)
        PROVE  TypeOK'
    <3>1. PICK s \in Allowed : Choose(a, s, FALSE, FALSE)
      BY <2>2, RestrictedAllowed DEF Select
    <3>2. Goto(a, "look") /\ UNCHANGED <<health, trusted, step, read, history>>
      BY <2>2 DEF Select
    <3> HIDE DEF TypeOK
    <3> QED  BY <2>1, <3>1, <3>2
  <2>11. ASSUME NEW a \in Ask, Look(a)
         PROVE  TypeOK'
    <3>1. CASE FindHealthy(a)
      <4>1. Unseen(a) \subseteq Tool
        BY RouterAssumption DEF Unseen, Required, ByPrefix, Externals
      <4> QED  BY <2>11, <3>1, <4>1 DEF Look, FindHealthy
    <3>2. CASE FallBack(a)
      <4>1. PICK f \in Allowed : Choose(a, f, TRUE, FALSE)
        BY <3>2, FallbacksAllowed DEF FallBack
      <4>2. Goto(a, "routed") /\ UNCHANGED <<health, trusted, step, read, history>>
        BY <2>11, <3>2 DEF Look, FallBack
      <4> HIDE DEF TypeOK
      <4> QED  BY <2>1, <4>1, <4>2
    <3>3. CASE Vouch(a)
      BY <2>11, <3>3 DEF Look, Vouch, Goto
    <3> QED  BY <2>11, <3>1, <3>2, <3>3 DEF Look
  <2>3. ASSUME NEW a \in Ask, SelectByHand(a)
        PROVE  TypeOK'
    <3>1. PICK s \in Allowed, fellBack \in BOOLEAN : Choose(a, s, fellBack, TRUE)
      BY <2>3 DEF SelectByHand
    <3>2. Goto(a, "routed") /\ UNCHANGED <<health, trusted, step, read, history>>
      BY <2>3 DEF SelectByHand
    <3> HIDE DEF TypeOK
    <3> QED  BY <2>1, <3>1, <3>2
  <2>4. ASSUME NEW a \in Ask, Saved(a)
        PROVE  TypeOK'
    BY <2>4, NoRouteAllowed DEF Saved, Goto
  <2>5. ASSUME NEW a \in Ask, Begin(a)
        PROVE  TypeOK'
    <3>1. updates' \in 0..MaxUpdates
      BY <2>5, ToolHealthAssumption DEF Begin
    <3>2. /\ step' \in [Ask -> [tool : Tool, failed : BOOLEAN]]
          /\ pc' \in [Ask -> {"idle", "look", "routed", "called", "read", "write", "test",
                              "mark", "reset", "heal"}]
      BY <2>5 DEF Begin, Goto
    <3>3. alone' \in [Ask -> BOOLEAN] /\ raced' \in [Tool -> BOOLEAN]
      BY <2>5 DEF Begin
    <3> QED  BY <2>5, <3>1, <3>2, <3>3 DEF Begin
  <2>6. ASSUME NEW a \in Ask, Read(a) \/ Write(a)
        PROVE  TypeOK'
    <3>1. CASE Read(a)
      BY <3>1 DEF Read, Goto
    <3>2. CASE Write(a)
      BY <3>2 DEF Write, Goto
    <3> QED  BY <2>6, <3>1, <3>2
  <2>7. ASSUME NEW a \in Ask, Test(a) \/ Mark(a)
        PROVE  TypeOK'
    BY <2>7 DEF Test, Mark, Goto
  <2>8. ASSUME NEW a \in Ask, Reset(a) \/ Heal(a)
        PROVE  TypeOK'
    <3>1. CASE Reset(a)
      BY <3>1 DEF Reset, Goto
    <3>2. CASE Heal(a)
      <4>1. streak' \in [Tool -> Nat] /\ raced' \in [Tool -> BOOLEAN]
        BY <3>2 DEF Heal
      <4> QED  BY <3>2, <4>1 DEF Heal, Goto
    <3> QED  BY <2>8, <3>1, <3>2
  <2>9. ASSUME NEW a \in Ask, Return(a)
        PROVE  TypeOK'
    BY <2>9, SomeTool DEF Return, Goto
  <2>10. CASE UNCHANGED vars
    BY <2>10 DEF vars
  <2> QED
    BY <2>2, <2>3, <2>4, <2>5, <2>6, <2>7, <2>8, <2>9, <2>10, <2>11 DEF Next, Update
<1> QED  BY <1>1, <1>2, PTL DEF Spec

-----------------------------------------------------------------------------
\* The steps that leave every route as it is.
LEMMA RoutesKept ==
  ASSUME TypeOK, NEW a \in Ask, Begin(a) \/ Update(a) \/ Return(a)
  PROVE  /\ UNCHANGED <<route, trusted>>
         /\ \A b \in Ask : pc'[b] = "routed" => pc[b] = "routed"
<1> USE DEF TypeOK, Goto
<1>1. CASE Begin(a)
  BY <1>1 DEF Begin
<1>2. CASE Return(a)
  BY <1>2 DEF Return
<1>3. CASE Read(a) \/ Write(a) \/ Test(a)
  BY <1>3 DEF Read, Write, Test
<1>4. CASE Mark(a) \/ Reset(a) \/ Heal(a)
  BY <1>4 DEF Mark, Reset, Heal
<1> QED  BY <1>1, <1>2, <1>3, <1>4 DEF Update

\* The tools that a strategy runs are those that the router looks at for it.
LEMMA LookedAt == \A s : Selected(s) = Required(s)
BY DEF Selected, Required

Vouched(a) ==
  /\ route[a].strategy \in Allowed
  /\ pc[a] = "routed" /\ ~route[a].fellBack /\ ~route[a].manual =>
       Selected(route[a].strategy) # {} /\ Selected(route[a].strategy) \subseteq trusted[a]

RouteInv == \A a \in Ask : Vouched(a)

LEMMA RoutesVouched == Spec => []RouteInv
<1>1. Init => RouteInv
  BY NoRouteAllowed DEF Init, RouteInv, Vouched
<1>2. TypeOK /\ RouteInv /\ [Next]_vars => RouteInv'
  <2> SUFFICES ASSUME TypeOK, RouteInv, [Next]_vars, NEW b \in Ask
               PROVE  Vouched(b)'
    BY DEF RouteInv
  <2>0. Vouched(b)
    BY DEF RouteInv
  <2>1. ASSUME NEW a \in Ask, NEW s \in Allowed, NEW fellBack \in BOOLEAN,
               NEW manual \in BOOLEAN, NEW to, Choose(a, s, fellBack, manual),
               Goto(a, to), UNCHANGED trusted, fellBack \/ manual \/ to = "look"
        PROVE  Vouched(b)'
    <3>1. CASE b = a
      BY <2>1, <3>1 DEF Choose, Goto, Vouched, TypeOK
    <3>2. CASE b # a
      BY <2>0, <2>1, <3>2 DEF Choose, Goto, Vouched, TypeOK
    <3> QED  BY <3>1, <3>2
  <2>2. ASSUME NEW a \in Ask, Select(a)
        PROVE  Vouched(b)'
    <3>1. PICK s \in Allowed : Choose(a, s, FALSE, FALSE)
      BY <2>2, RestrictedAllowed DEF Select
    <3>2. Goto(a, "look") /\ UNCHANGED trusted
      BY <2>2 DEF Select
    <3> QED  BY <2>1, <3>1, <3>2
  <2>3. ASSUME NEW a \in Ask, SelectByHand(a)
        PROVE  Vouched(b)'
    <3>1. PICK s \in Allowed, fellBack \in BOOLEAN : Choose(a, s, fellBack, TRUE)
      BY <2>3 DEF SelectByHand
    <3>2. Goto(a, "routed") /\ UNCHANGED trusted
      BY <2>3 DEF SelectByHand
    <3> QED  BY <2>1, <3>1, <3>2
  <2>4. ASSUME NEW a \in Ask, Saved(a)
        PROVE  Vouched(b)'
    BY <2>0, <2>4, NoRouteAllowed DEF Saved, Goto, Vouched, TypeOK
  <2>5. ASSUME NEW a \in Ask, pc[a] = "look", FindHealthy(a)
        PROVE  Vouched(b)'
    BY <2>0, <2>5 DEF FindHealthy, Vouched, TypeOK
  <2>6. ASSUME NEW a \in Ask, FallBack(a)
        PROVE  Vouched(b)'
    <3>1. PICK f \in Allowed : Choose(a, f, TRUE, FALSE)
      BY <2>6, FallbacksAllowed DEF FallBack
    <3>2. Goto(a, "routed") /\ UNCHANGED trusted
      BY <2>6 DEF FallBack
    <3> QED  BY <2>1, <3>1, <3>2
  <2>7. ASSUME NEW a \in Ask, Vouch(a)
        PROVE  Vouched(b)'
    <3>1. Selected(route[a].strategy) # {} /\ Selected(route[a].strategy) \subseteq trusted[a]
      BY <2>7, LookedAt DEF Vouch, Unseen
    <3>2. UNCHANGED <<route, trusted>> /\ \A c \in Ask \ {a} : pc'[c] = pc[c]
      BY <2>7 DEF Vouch, Goto, TypeOK
    <3> QED  BY <2>0, <3>1, <3>2 DEF Vouched
  <2>8. CASE UNCHANGED vars
    BY <2>0, <2>8 DEF Vouched, vars
  <2>9. ASSUME NEW a \in Ask, Begin(a) \/ Update(a) \/ Return(a)
        PROVE  Vouched(b)'
    BY <2>0, <2>9, RoutesKept DEF Vouched
  <2> QED  BY <2>2, <2>3, <2>4, <2>5, <2>6, <2>7, <2>8, <2>9 DEF Next, Look
<1> QED  BY <1>1, <1>2, HealthTyped, PTL DEF Spec

(* No intent, fallback or choice by hand leads to a strategy that the        *)
(* profile does not allow (_apply_profile_and_health, _fallback_strategy).   *)
THEOREM ProfileObeyed == Spec => []StrategyAllowed
<1>1. RouteInv => StrategyAllowed
  BY DEF RouteInv, Vouched, StrategyAllowed
<1> QED  BY <1>1, RoutesVouched, PTL

(* What the router selects without falling back it has looked at and found   *)
(* healthy, all of it, whatever is counted meanwhile, and there is a tool    *)
(* (_strategy_tools_healthy, _selected_tools).                               *)
THEOREM HealthyWhenSelected == Spec => []SelectionWasHealthy
<1>1. RouteInv => SelectionWasHealthy
  BY DEF RouteInv, Vouched, SelectionWasHealthy
<1> QED  BY <1>1, RoutesVouched, PTL

-----------------------------------------------------------------------------
\* The steps that leave the counting as it is.
LEMMA CountingKept ==
  ASSUME TypeOK, NEW a \in Ask, Select(a) \/ Look(a) \/ SelectByHand(a) \/ Saved(a)
  PROVE  /\ UNCHANGED <<health, step, read, history>>
         /\ pc[a] \in {"idle", "look", "routed"}
         /\ \E to \in {"look", "routed", "called"} : Goto(a, to)
<1>1. CASE Look(a)
  <2>1. pc' = pc => Goto(a, "look")
    BY <1>1 DEF Look, Goto, TypeOK
  <2> QED  BY <1>1, <2>1 DEF Look, FindHealthy, FallBack, Vouch
<1>2. CASE Select(a) \/ SelectByHand(a) \/ Saved(a)
  BY <1>2 DEF Select, SelectByHand, Saved
<1> QED  BY <1>1, <1>2

(***************************************************************************)
(* A count that is about to be written, and a flag that is about to be     *)
(* set, are covered by the failures already.                               *)
(***************************************************************************)
Covered(a) ==
  /\ pc[a] = "write" => read[a] < errors[step[a].tool]
  /\ pc[a] = "mark" => errors[step[a].tool] >= Threshold

RealInv == FailuresAreReal /\ \A a \in Ask : Covered(a)

LEMMA RealInvInductive == TypeOK /\ RealInv /\ [Next]_vars => RealInv'
<1> SUFFICES ASSUME TypeOK, RealInv, [Next]_vars
             PROVE  RealInv'
  OBVIOUS
<1> USE ToolHealthAssumption DEF TypeOK
<1>1. ASSUME NEW a \in Ask, Read(a)
      PROVE  RealInv'
  <2>1. errors' = [errors EXCEPT ![step[a].tool] = @ + 1] /\ step' = step
    BY <1>1 DEF Read
  <2>2. \A t \in Tool : errors'[t] >= errors[t]
    BY <2>1
  <2>3. FailuresAreReal'
    BY <1>1, <2>2 DEF Read, RealInv, FailuresAreReal
  <2>4. ASSUME NEW b \in Ask
        PROVE  Covered(b)'
    <3>1. CASE b = a
      BY <1>1, <2>1, <3>1 DEF Read, Goto, RealInv, FailuresAreReal, Covered
    <3>2. CASE b # a
      BY <1>1, <2>1, <2>2, <3>2 DEF Read, Goto, RealInv, Covered
    <3> QED  BY <3>1, <3>2
  <2> QED  BY <2>3, <2>4 DEF RealInv
<1>2. ASSUME NEW a \in Ask, Write(a)
      PROVE  RealInv'
  BY <1>2 DEF Write, Goto, RealInv, FailuresAreReal, Covered
<1>3. ASSUME NEW a \in Ask, Test(a)
      PROVE  RealInv'
  BY <1>3 DEF Test, Goto, RealInv, FailuresAreReal, Covered
<1>4. ASSUME NEW a \in Ask, Mark(a)
      PROVE  RealInv'
  BY <1>4 DEF Mark, Goto, RealInv, FailuresAreReal, Covered
<1>5. ASSUME NEW a \in Ask, Reset(a)
      PROVE  RealInv'
  BY <1>5 DEF Reset, Goto, RealInv, FailuresAreReal, Covered
<1>6. ASSUME NEW a \in Ask, Heal(a)
      PROVE  RealInv'
  BY <1>6 DEF Heal, Goto, RealInv, FailuresAreReal, Covered
<1>7. ASSUME NEW a \in Ask,
             Begin(a) \/ Return(a) \/ Select(a) \/ Look(a) \/ SelectByHand(a) \/ Saved(a)
      PROVE  RealInv'
  <2>1. /\ UNCHANGED <<count, healthy, errors>>
        /\ \A b \in Ask \ {a} : pc'[b] = pc[b] /\ step'[b] = step[b] /\ read'[b] = read[b]
        /\ pc'[a] \notin {"write", "mark"}
    BY <1>7, CountingKept DEF Begin, Return, Goto
  <2> QED  BY <2>1 DEF RealInv, FailuresAreReal, Covered
<1>8. CASE UNCHANGED vars
  BY <1>8 DEF vars, RealInv, FailuresAreReal, Covered
<1> QED
  BY <1>1, <1>2, <1>3, <1>4, <1>5, <1>6, <1>7, <1>8 DEF Next, Update

(* However updates are lost or overtaken, no failure is invented: the count  *)
(* and the flag of a tool are covered by failures that it has had.           *)
THEOREM FailuresReal == Spec => []FailuresAreReal
<1>1. Init => RealInv
  BY DEF Init, RealInv, FailuresAreReal, Covered
<1>2. RealInv => FailuresAreReal
  BY DEF RealInv
<1> QED  BY <1>1, <1>2, RealInvInductive, HealthTyped, PTL DEF Spec
-----------------------------------------------------------------------------
(***************************************************************************)
(* Where updates of a tool meet, raced says so, and an update that met no  *)
(* other is the only one that touches its tool: its place then determines  *)
(* how far count and flag are behind the streak.                           *)
(***************************************************************************)
Exact(t) == count[t] = streak[t] /\ (healthy[t] <=> streak[t] < Threshold)

Behind(a, t) ==
  /\ pc[a] \in {"read", "reset"} => Exact(t)
  /\ pc[a] = "write" => /\ read[a] = count[t] /\ streak[t] = count[t] + 1
                        /\ healthy[t] <=> count[t] < Threshold
  /\ pc[a] = "test" => count[t] = streak[t] /\ (healthy[t] <=> streak[t] <= Threshold)
  /\ pc[a] = "mark" => count[t] = streak[t] /\ streak[t] >= Threshold

Undisturbed ==
  \A a \in Updating :
    /\ alone[a] => \A b \in Updating \ {a} : step[b].tool # step[a].tool
    /\ ~raced[step[a].tool] => alone[a]

ExactInv ==
  /\ Undisturbed
  /\ \A a \in Updating :
       /\ alone[a] /\ pc[a] = "heal" => count[step[a].tool] = 0
       /\ ~raced[step[a].tool] => Behind(a, step[a].tool)
  /\ \A t \in Tool : ~raced[t] /\ (\A a \in Updating : step[a].tool # t) => Exact(t)

\* An update moves its ask and touches its own tool only.
LEMMA UpdateFrame ==
  ASSUME TypeOK, NEW a \in Ask, Update(a)
  PROVE  /\ a \in Updating /\ step' = step /\ alone' = alone
         /\ \A b \in Ask \ {a} : pc'[b] = pc[b] /\ read'[b] = read[b]
         /\ pc'[a] \in {"called", "write", "test", "mark", "heal"}
         /\ pc'[a] # "called" => raced' = raced
         /\ \A t \in Tool \ {step[a].tool} :
              /\ count'[t] = count[t] /\ healthy'[t] = healthy[t]
              /\ streak'[t] = streak[t] /\ raced'[t] = raced[t]
<1> USE DEF TypeOK, Updating
<1>1. CASE Read(a)
  BY <1>1 DEF Read, Goto
<1>2. CASE Write(a)
  BY <1>2 DEF Write, Goto
<1>3. CASE Test(a)
  BY <1>3 DEF Test, Goto
<1>4. CASE Mark(a)
  BY <1>4 DEF Mark, Goto
<1>5. CASE Reset(a)
  BY <1>5 DEF Reset, Goto
<1>6. CASE Heal(a)
  BY <1>6 DEF Heal, Goto
<1> QED  BY <1>1, <1>2, <1>3, <1>4, <1>5, <1>6 DEF Update

\* Undisturbed, an update is nearer its end or leaves its tool exact.
LEMMA UpdateAlone ==
  ASSUME TypeOK, ExactInv, NEW a \in Ask, Update(a), ~raced'[step[a].tool]
  PROVE  /\ alone[a]
         /\ pc'[a] = "called" => Exact(step[a].tool)'
         /\ pc'[a] # "called" => Behind(a, step[a].tool)'
<1> DEFINE t == step[a].tool
<1> USE ToolHealthAssumption DEF TypeOK
<1>0. a \in Updating /\ t \in Tool
  BY UpdateFrame
<1>1. /\ ~raced[t] => alone[a] /\ Behind(a, t)
      /\ alone[a] /\ pc[a] = "heal" => count[t] = 0
  BY <1>0 DEF ExactInv, Undisturbed
<1>2. CASE Read(a)
  BY <1>0, <1>1, <1>2 DEF Read, Goto, Behind, Exact
<1>3. CASE Write(a)
  BY <1>0, <1>1, <1>3 DEF Write, Goto, Behind, Exact
<1>4. CASE Test(a)
  BY <1>0, <1>1, <1>4 DEF Test, Goto, Behind, Exact
<1>5. CASE Mark(a)
  BY <1>0, <1>1, <1>5 DEF Mark, Goto, Behind, Exact
<1>6. CASE Reset(a)
  BY <1>0, <1>1, <1>6 DEF Reset, Goto, Behind, Exact
<1>7. CASE Heal(a)
  BY <1>0, <1>1, <1>7 DEF Heal, Goto, Behind, Exact
<1> QED  BY <1>2, <1>3, <1>4, <1>5, <1>6, <1>7 DEF Update

LEMMA UpdateExact ==
  ASSUME TypeOK, ExactInv, NEW a \in Ask, Update(a)
  PROVE  ExactInv'
<1> USE DEF Updating
<1> DEFINE t == step[a].tool
<1>0. t \in Tool /\ \A b \in Ask : step[b].tool \in Tool
  BY DEF TypeOK
<1>1. \A b \in Updating' : b \in Updating
  BY UpdateFrame
<1>2. ~raced'[t] => alone[a]
  BY UpdateAlone
<1>3. alone[a] => \A b \in Updating \ {a} : step[b].tool # t
  BY UpdateFrame DEF ExactInv, Undisturbed
<1>4. Undisturbed'
  <2> SUFFICES ASSUME NEW b \in Updating'
               PROVE  /\ alone[b] => \A c \in Updating' \ {b} : step[c].tool # step[b].tool
                      /\ ~raced'[step[b].tool] => alone[b]
    BY UpdateFrame DEF Undisturbed
  <2>1. alone[b] => \A c \in Updating' \ {b} : step[c].tool # step[b].tool
    BY <1>1 DEF ExactInv, Undisturbed
  <2>2. CASE step[b].tool = t
    BY <1>1, <1>2, <1>3, <2>1, <2>2
  <2>3. CASE step[b].tool # t
    BY <1>0, <1>1, <2>3, UpdateFrame DEF ExactInv, Undisturbed
  <2> QED  BY <2>1, <2>2, <2>3
<1>5. ASSUME NEW b \in Updating'
      PROVE  /\ alone'[b] /\ pc'[b] = "heal" => count'[step'[b].tool] = 0
             /\ ~raced'[step'[b].tool] => Behind(b, step[b].tool)'
  <2>1. CASE b = a
    <3>1. alone[a] /\ pc'[a] = "heal" => count'[t] = 0
      BY <1>0, UpdateFrame
         DEF Update, Read, Write, Test, Mark, Reset, Heal, Goto, TypeOK
    <3> QED  BY <2>1, <3>1, UpdateAlone, UpdateFrame
  <2>2. CASE b # a /\ step[b].tool # t
    BY <1>0, <1>1, <2>2, UpdateFrame DEF ExactInv, Behind, Exact
  <2>3. CASE b # a /\ step[b].tool = t
    <3>1. ~alone[a] /\ ~alone[b]
      BY <1>1, <1>3, <2>3, UpdateFrame DEF ExactInv, Undisturbed
    <3> QED  BY <1>2, <2>3, <3>1, UpdateFrame
  <2> QED  BY <2>1, <2>2, <2>3
<1>6. ASSUME NEW u \in Tool, ~raced'[u], \A b \in Updating' : step'[b].tool # u
      PROVE  Exact(u)'
  <2>1. CASE u = t
    BY <1>6, <2>1, UpdateAlone, UpdateFrame
  <2>2. CASE u # t
    BY <1>6, <2>2, UpdateFrame DEF ExactInv, Exact
  <2> QED  BY <2>1, <2>2
<1> QED  BY <1>4, <1>5, <1>6, UpdateFrame DEF ExactInv

LEMMA BeginExact ==
  ASSUME TypeOK, ExactInv, NEW a \in Ask, Begin(a)
  PROVE  ExactInv'
<1> USE DEF Updating
<1>1. PICK t \in Tool, failed \in BOOLEAN :
        /\ step' = [step EXCEPT ![a] = [tool |-> t, failed |-> failed]]
        /\ Goto(a, IF failed THEN "read" ELSE "reset")
        /\ LET met == {b \in Updating : step[b].tool = t} IN
             /\ alone' = [b \in Ask |-> IF b = a THEN met = {} ELSE alone[b] /\ b \notin met]
             /\ raced' = [raced EXCEPT ![t] = @ \/ met # {}]
  BY DEF Begin
<1> DEFINE met == {b \in Updating : step[b].tool = t}
<1>2. /\ pc[a] = "called" /\ UNCHANGED <<count, healthy, streak, read>>
      /\ pc' = [pc EXCEPT ![a] = IF failed THEN "read" ELSE "reset"]
  BY <1>1 DEF Begin, Goto
<1>3. /\ \A b \in Ask \ {a} : /\ pc'[b] = pc[b] /\ step'[b] = step[b]
                              /\ alone'[b] = (alone[b] /\ b \notin met)
      /\ pc'[a] \in {"read", "reset"} /\ step'[a].tool = t /\ alone'[a] = (met = {})
      /\ Updating' = Updating \union {a} /\ a \notin Updating
  BY <1>1, <1>2 DEF TypeOK
<1>4. /\ \A u \in Tool \ {t} : raced'[u] = raced[u]
      /\ raced'[t] = (raced[t] \/ met # {})
  BY <1>1 DEF TypeOK
<1>5. \A b \in Ask : step[b].tool \in Tool
  BY DEF TypeOK
<1>6. \A b \in Updating : b \in Ask \ {a} /\ (b \notin met => step[b].tool # t)
  BY <1>3
<1> HIDE DEF Updating
<1>7. Undisturbed'
  <2>1. ASSUME NEW b \in Updating', alone'[b], NEW c \in Updating' \ {b}
        PROVE  step'[c].tool # step'[b].tool
    <3>1. CASE b = a
      BY <1>3, <1>6, <2>1, <3>1
    <3>2. CASE c = a
      BY <1>3, <1>6, <2>1, <3>2
    <3>3. CASE b # a /\ c # a
      <4>1. b \in Updating /\ c \in Updating \ {b}
        BY <1>3, <3>3
      <4>2. alone[b] /\ step'[b] = step[b] /\ step'[c] = step[c]
        BY <1>3, <1>6, <2>1, <3>3, <4>1
      <4>3. alone[b] => \A d \in Updating \ {b} : step[d].tool # step[b].tool
        BY <4>1 DEF ExactInv, Undisturbed
      <4> QED  BY <4>1, <4>2, <4>3
    <3> QED  BY <3>1, <3>2, <3>3
  <2>2. ASSUME NEW b \in Updating', ~raced'[step'[b].tool]
        PROVE  alone'[b]
    BY <1>3, <1>4, <1>5, <2>2 DEF ExactInv, Undisturbed, Updating
  <2> QED  BY <2>1, <2>2 DEF Undisturbed
<1>8. ASSUME NEW b \in Updating'
      PROVE  /\ alone'[b] /\ pc'[b] = "heal" => count'[step'[b].tool] = 0
             /\ ~raced'[step'[b].tool] => Behind(b, step[b].tool)'
  <2>1. CASE b = a
    <3>1. ~raced'[t] => Exact(t)
      BY <1>4 DEF ExactInv
    <3> QED  BY <1>2, <1>3, <2>1, <3>1 DEF Behind, Exact
  <2>2. CASE b # a
    <3>1. ~raced'[step[b].tool] => ~raced[step[b].tool]
      BY <1>4, <1>5, <1>8 DEF Updating
    <3>2. b \in Updating /\ b \in Ask \ {a}
      BY <1>3, <1>6, <1>8, <2>2
    <3>3. step'[b] = step[b] /\ pc'[b] = pc[b] /\ (alone'[b] => alone[b])
      BY <1>3, <3>2
    <3>4. Behind(b, step[b].tool) => Behind(b, step[b].tool)'
      BY <1>2, <3>3 DEF Behind, Exact
    <3> QED  BY <1>2, <3>1, <3>2, <3>3, <3>4 DEF ExactInv
  <2> QED  BY <2>1, <2>2
<1>9. ASSUME NEW u \in Tool, ~raced'[u], \A b \in Updating' : step'[b].tool # u
      PROVE  Exact(u)'
  BY <1>2, <1>3, <1>4, <1>9 DEF ExactInv, Exact, Updating
<1> QED  BY <1>7, <1>8, <1>9 DEF ExactInv

LEMMA ExactInvInductive == TypeOK /\ ExactInv /\ [Next]_vars => ExactInv'
<1> SUFFICES ASSUME TypeOK, ExactInv, [Next]_vars
             PROVE  ExactInv'
  OBVIOUS
<1>1. ASSUME NEW a \in Ask, Return(a) \/ Select(a) \/ Look(a) \/ SelectByHand(a) \/ Saved(a)
      PROVE  ExactInv'
  <2>1. /\ UNCHANGED <<count, healthy, streak, raced>>
        /\ a \notin Updating /\ a \notin Updating'
        /\ \A b \in Ask \ {a} : /\ pc'[b] = pc[b] /\ step'[b] = step[b]
                               /\ read'[b] = read[b] /\ alone'[b] = alone[b]
    BY <1>1, CountingKept DEF Return, Goto, TypeOK, Updating
  <2>2. Updating' = Updating
    BY <2>1 DEF Updating
  <2>3. \A b \in Updating : b \in Ask \ {a}
    BY <2>1 DEF Updating
  <2> QED  BY <2>1, <2>2, <2>3 DEF ExactInv, Undisturbed, Behind, Exact
<1>2. CASE UNCHANGED vars
  BY <1>2 DEF vars, ExactInv, Undisturbed, Behind, Exact, Updating
<1> QED  BY <1>1, <1>2, UpdateExact, BeginExact DEF Next

(* Without a race since the last undisturbed success, a tool is unhealthy    *)
(* exactly when its failures since then have reached the threshold.          *)
THEOREM HealthExact == Spec => []HealthIsExact
<1>1. Init => ExactInv
  BY ToolHealthAssumption DEF Init, ExactInv, Undisturbed, Exact, Updating
<1>2. ExactInv => HealthIsExact
  BY DEF ExactInv, Exact, HealthIsExact
<1> QED  BY <1>1, <1>2, ExactInvInductive, HealthTyped, PTL DEF Spec
=============================================================================
