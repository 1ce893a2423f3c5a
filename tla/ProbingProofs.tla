---------------------------- MODULE ProbingProofs ----------------------------
(***************************************************************************)
(* Proofs about the probes of tools, which go on and run out of questions, *)
(* and the records they leave, for any number of threads, questions,       *)
(* attempts and tools, and whatever crashes.                               *)
(***************************************************************************)
EXTENDS Probing, FiniteSetTheorems, TLAPS

QuestState == {"waiting", "asking", "pausing", "answered", "failed", "cancelled", "stray"}

-----------------------------------------------------------------------------
\* Sets of questions are finite.
LEMMA AskedFinite ==
  ASSUME NEW p \in Probe
  PROVE  IsFiniteSet(Asked[p]) /\ Asked[p] \subseteq Index
<1>1. Questions(Prefix[p]) \in Nat
  <2>1. Prefix[p] \in {"VECTOR:", "GRAPH:", "HYBRID:", "HYBRIDCOT:", "SQL:", "none"}
    BY ProberAssumption
  <2> QED  BY <2>1 DEF Questions
<1>2. \E n \in Nat : Asked[p] = 1..n
  BY <1>1, ProberAssumption DEF Asked
<1> QED  BY <1>2, FS_Interval DEF Index, Asked

LEMMA WithFinite ==
  ASSUME NEW p \in Probe, NEW states
  PROVE  IsFiniteSet(With(p, states)) /\ Cardinality(With(p, states)) \in Nat
<1>1. With(p, states) \subseteq Asked[p]
  BY DEF With
<1> QED  BY <1>1, AskedFinite, FS_Subset, FS_CardinalityType

-----------------------------------------------------------------------------
\* The steps of the composition, each as a step of a probe and one of the files.
LEMMA ProbeSteps ==
  ASSUME ProbingNext
  PROVE  \/ \E p \in Probe : StartProbe(p) \/ Step(p) \/ Finish(p)
         \/ \E dead \in SUBSET Probe : Crash(dead)
         \/ UNCHANGED prober
BY ProbingAssumption
   DEF ProbingNext, ProbeTool, ProbeStep, BeginSave, EndSave, prober

LEMMA StoreSteps ==
  ASSUME ProbingNext
  PROVE  \/ \E w \in Probe, t \in Tool : Store!Open(w, t)
         \/ \E w \in Probe : Store!Close(w)
         \/ Store!Minute
         \/ \E dead \in SUBSET Probe : Store!CutShort(dead)
         \/ UNCHANGED store
BY ProbingAssumption
   DEF ProbingNext, ProbeTool, ProbeStep, BeginSave, EndSave, Crash

-----------------------------------------------------------------------------
LEMMA ProberTyped == ProbingSpec => []TypeOK
<1> USE ProberAssumption DEF TypeOK
<1>1. ProbingInit => TypeOK
  BY DEF ProbingInit, Init
<1>2. TypeOK /\ [ProbingNext]_vars => TypeOK'
  <2> SUFFICES ASSUME TypeOK, [ProbingNext]_vars
               PROVE  TypeOK'
    OBVIOUS
  <2>0. ASSUME NEW p \in Probe, Forget(p)
        PROVE  /\ quest' \in [Probe -> [Index -> QuestState]]
               /\ attempt' \in [Probe -> [Index -> 0..(RetryMax - 1)]]
    BY <2>0 DEF Forget, QuestState
  <2> USE DEF QuestState
  <2>1. ASSUME NEW p \in Probe, StartProbe(p) \/ Finish(p)
        PROVE  TypeOK'
    BY <2>1, <2>0 DEF StartProbe, Finish
  <2>2. ASSUME NEW p \in Probe, Raises(p) \/ Returns(p)
        PROVE  TypeOK'
    BY <2>2, <2>0 DEF Raises, Returns
  <2>6. ASSUME NEW p \in Probe, Cancel(p)
        PROVE  TypeOK'
    BY <2>6 DEF Cancel
  <2>3. ASSUME NEW p \in Probe, NEW q \in Asked[p], Question(p, q)
        PROVE  TypeOK'
    <3>1. q \in Index
      BY AskedFinite
    <3>2. ASSUME NEW s \in QuestState, Become(p, q, s)
          PROVE  quest' \in [Probe -> [Index -> QuestState]]
      BY <3>1, <3>2 DEF Become, QuestState
    <3>3. CASE Send(p, q) \/ Resume(p, q) \/ StrayEnds(p, q)
      BY <3>2, <3>3 DEF Send, Resume, StrayEnds, QuestState
    <3>4. CASE Answer(p, q)
      BY <3>1, <3>2, <3>4 DEF Answer, QuestState
    <3>5. CASE Retry(p, q)
      <4>1. attempt[p][q] + 1 \in 0..(RetryMax - 1)
        BY <3>1, <3>5 DEF Retry
      <4> QED  BY <3>1, <3>2, <3>5, <4>1 DEF Retry, QuestState
    <3>6. CASE GiveUp(p, q)
      BY <3>2, <3>6 DEF GiveUp, QuestState
    <3> QED  BY <2>3, <3>3, <3>4, <3>5, <3>6 DEF Question
  <2>4. ASSUME NEW dead \in SUBSET Probe, Crash(dead)
        PROVE  TypeOK'
    BY <2>4 DEF Crash
  <2>5. CASE UNCHANGED prober
    BY <2>5 DEF prober
  <2> QED  BY <2>1, <2>2, <2>3, <2>4, <2>5, <2>6, ProbeSteps DEF Step, vars, prober
<1> QED  BY <1>1, <1>2, PTL DEF ProbingSpec

(***************************************************************************)
(* The stage of a probe says what its questions may be doing: a request    *)
(* that nobody waits for exists only while asyncio.run closes its loop.    *)
(***************************************************************************)
Staged(p) ==
  /\ stage[p] = "idle" => \A q \in Asked[p] : quest[p][q] = "waiting"
  /\ stage[p] = "running" =>
       \A q \in Asked[p] : quest[p][q] \in {"waiting", "asking", "pausing", "answered"}
  /\ stage[p] = "failing" =>
       \A q \in Asked[p] :
         quest[p][q] \in {"waiting", "asking", "pausing", "answered", "failed"}
  /\ stage[p] = "closing" => \A q \in Asked[p] : quest[p][q] \in {"cancelled", "stray"}
  /\ stage[p] = "answered" => \A q \in Asked[p] : quest[p][q] = "answered"

ProbeInv == \A p \in Probe : Staged(p) /\ Cardinality(InFlight(p)) <= Limit

\* Fewer requests under way, or one more where the semaphore had a slot.
LEMMA FewerInFlight ==
  ASSUME NEW p \in Probe, Cardinality(InFlight(p)) <= Limit, InFlight(p)' \subseteq InFlight(p)
  PROVE  Cardinality(InFlight(p))' <= Limit
<1>1. IsFiniteSet(InFlight(p)) /\ Cardinality(InFlight(p)) \in Nat
  BY WithFinite DEF InFlight
<1>2. Cardinality(InFlight(p)') <= Cardinality(InFlight(p)) /\ Cardinality(InFlight(p)') \in Nat
  BY <1>1, FS_Subset, FS_CardinalityType
<1> QED  BY <1>1, <1>2, ProberAssumption

LEMMA OneMoreInFlight ==
  ASSUME NEW p \in Probe, NEW q, Cardinality(InFlight(p)) < Limit,
         InFlight(p)' \subseteq InFlight(p) \union {q}
  PROVE  Cardinality(InFlight(p))' <= Limit
<1>1. IsFiniteSet(InFlight(p)) /\ Cardinality(InFlight(p)) \in Nat
  BY WithFinite DEF InFlight
<1>2. /\ IsFiniteSet(InFlight(p) \union {q})
      /\ Cardinality(InFlight(p) \union {q}) <= Cardinality(InFlight(p)) + 1
      /\ Cardinality(InFlight(p) \union {q}) \in Nat
  <2>1. /\ IsFiniteSet(InFlight(p) \union {q})
        /\ Cardinality(InFlight(p) \union {q}) \in
             {Cardinality(InFlight(p)), Cardinality(InFlight(p)) + 1}
    BY <1>1, FS_AddElement
  <2> QED  BY <1>1, <2>1
<1>3. /\ Cardinality(InFlight(p)') <= Cardinality(InFlight(p) \union {q})
      /\ Cardinality(InFlight(p)') \in Nat
  BY <1>2, FS_Subset, FS_CardinalityType
<1> QED  BY <1>1, <1>2, <1>3, ProberAssumption

LEMMA ProbeInvInductive == TypeOK /\ ProbeInv /\ [ProbingNext]_vars => ProbeInv'
<1> SUFFICES ASSUME TypeOK, ProbeInv, [ProbingNext]_vars, NEW p \in Probe
             PROVE  Staged(p)' /\ Cardinality(InFlight(p))' <= Limit
  BY DEF ProbeInv
<1> USE DEF TypeOK
<1>0. Staged(p) /\ Cardinality(InFlight(p)) <= Limit /\ Asked[p] \subseteq Index
  BY AskedFinite DEF ProbeInv
\* What another probe does, or a step of the files.
<1>1. CASE quest'[p] = quest[p] /\ stage'[p] = stage[p]
  <2>1. InFlight(p)' \subseteq InFlight(p)
    BY <1>1 DEF InFlight, With
  <2> QED  BY <1>0, <1>1, <2>1, FewerInFlight DEF Staged
\* What leaves no request under way.
<1>2. ASSUME stage'[p] \in {"idle", "running"}, \A q \in Index : quest'[p][q] = "waiting"
      PROVE  Staged(p)' /\ Cardinality(InFlight(p))' <= Limit
  <2>1. InFlight(p)' \subseteq InFlight(p)
    BY <1>0, <1>2 DEF InFlight, With
  <2> QED  BY <1>0, <1>2, <2>1, FewerInFlight DEF Staged
<1>3. CASE StartProbe(p) \/ Finish(p) \/ Raises(p)
  BY <1>2, <1>3 DEF StartProbe, Finish, Raises, Forget
<1>4. CASE Returns(p)
  <2>1. quest' = quest /\ stage' = [stage EXCEPT ![p] = "answered"]
        /\ stage[p] = "running" /\ Asked[p] \subseteq With(p, {"answered", "failed"})
    BY <1>4 DEF Returns
  <2>2. Staged(p)'
    BY <1>0, <2>1 DEF Staged, With
  <2>3. InFlight(p)' \subseteq InFlight(p)
    BY <2>1 DEF InFlight, With
  <2> QED  BY <1>0, <2>2, <2>3, FewerInFlight
<1>5. ASSUME NEW q \in Asked[p], Question(p, q)
      PROVE  Staged(p)' /\ Cardinality(InFlight(p))' <= Limit
  <2>1. CASE Send(p, q)
    <3>1. stage' = stage /\ quest' = [quest EXCEPT ![p][q] = "asking"] /\ Looping(p)
      BY <2>1 DEF Send, Become
    <3>2. Staged(p)'
      BY <1>0, <3>1 DEF Staged, Looping
    <3>3. InFlight(p) = With(p, {"asking"})
      BY <1>0, <3>1 DEF Staged, Looping, InFlight, With
    <3>4. Cardinality(InFlight(p)) < Limit
      BY <2>1, <3>3 DEF Send, SlotFree
    <3>5. InFlight(p)' \subseteq InFlight(p) \union {q}
      BY <1>0, <3>1 DEF InFlight, With
    <3> QED  BY <3>2, <3>4, <3>5, OneMoreInFlight
  <2>2. ASSUME NEW s \in {"answered", "pausing", "waiting", "failed"}, Looping(p),
               Become(p, q, s),
               \/ stage' = stage /\ s # "failed"
               \/ stage' = [stage EXCEPT ![p] = "failing"]
        PROVE  Staged(p)' /\ Cardinality(InFlight(p))' <= Limit
    <3>1. quest' = [quest EXCEPT ![p][q] = s]
      BY <2>2 DEF Become
    <3>2. Staged(p)'
      BY <1>0, <2>2, <3>1 DEF Staged, Looping
    <3>3. InFlight(p)' \subseteq InFlight(p)
      BY <1>0, <3>1 DEF InFlight, With
    <3> QED  BY <1>0, <3>2, <3>3, FewerInFlight
  <2>3. CASE Answer(p, q) \/ Retry(p, q) \/ Resume(p, q)
    BY <2>2, <2>3 DEF Answer, Retry, Resume
  \* A failure takes no request with it but its own.
  <2>4. CASE GiveUp(p, q)
    BY <2>2, <2>4 DEF GiveUp
  <2>5. CASE StrayEnds(p, q)
    <3>1. /\ stage' = stage /\ quest' = [quest EXCEPT ![p][q] = "cancelled"]
          /\ quest[p][q] = "stray"
      BY <2>5 DEF StrayEnds, Become, With
    <3>2. stage[p] = "closing"
      BY <1>0, <3>1 DEF Staged
    <3>3. Staged(p)'
      BY <1>0, <3>1, <3>2 DEF Staged
    <3>4. InFlight(p)' \subseteq InFlight(p)
      BY <1>0, <3>1 DEF InFlight, With
    <3> QED  BY <1>0, <3>3, <3>4, FewerInFlight
  <2> QED  BY <1>5, <2>1, <2>3, <2>4, <2>5 DEF Question
\* What is cancelled stays under way only if it was.
<1>9. CASE Cancel(p)
  <2>1. /\ stage[p] = "failing" /\ stage'[p] = "closing"
        /\ \A q \in Index :
             quest'[p][q] = IF quest[p][q] = "asking" THEN "stray" ELSE "cancelled"
    BY <1>9 DEF Cancel
  <2>2. Staged(p)'
    BY <1>0, <2>1 DEF Staged
  <2>3. InFlight(p)' \subseteq InFlight(p)
    BY <1>0, <2>1 DEF InFlight, With
  <2> QED  BY <1>0, <2>2, <2>3, FewerInFlight
<1>6. ASSUME NEW o \in Probe \ {p}, StartProbe(o) \/ Step(o) \/ Finish(o)
      PROVE  quest'[p] = quest[p] /\ stage'[p] = stage[p]
  <2>1. CASE StartProbe(o) \/ Finish(o) \/ Cancel(o) \/ Raises(o) \/ Returns(o)
    BY <2>1 DEF StartProbe, Finish, Cancel, Raises, Returns, Forget
  <2>2. ASSUME NEW q \in Asked[o], Question(o, q)
        PROVE  quest'[p] = quest[p] /\ stage'[p] = stage[p]
    BY <2>2 DEF Question, Send, Answer, Retry, Resume, GiveUp, StrayEnds, Become
  <2> QED  BY <1>6, <2>1, <2>2 DEF Step
<1>7. ASSUME NEW dead \in SUBSET Probe, Crash(dead)
      PROVE  Staged(p)' /\ Cardinality(InFlight(p))' <= Limit
  <2>1. CASE p \in dead
    BY <1>2, <1>7, <2>1 DEF Crash
  <2>2. CASE p \notin dead
    BY <1>1, <1>7, <2>2 DEF Crash
  <2> QED  BY <2>1, <2>2
<1>8. CASE UNCHANGED prober
  BY <1>1, <1>8 DEF prober
<1> QED
  BY <1>1, <1>3, <1>4, <1>5, <1>6, <1>7, <1>8, <1>9, ProbeSteps DEF Step, vars, prober

LEMMA ProbesStaged == ProbingSpec => [](TypeOK /\ ProbeInv)
<1>1. ProbingInit => ProbeInv
  <2> SUFFICES ASSUME ProbingInit, NEW p \in Probe
               PROVE  Staged(p) /\ Cardinality(InFlight(p)) <= Limit
    BY DEF ProbeInv
  <2>1. stage[p] = "idle" /\ \A q \in Asked[p] : quest[p][q] = "waiting"
    BY AskedFinite DEF ProbingInit, Init
  <2>2. InFlight(p) = {}
    BY <2>1 DEF InFlight, With
  <2>3. Cardinality(InFlight(p)) = 0
    BY <2>2, FS_EmptySet
  <2> QED  BY <2>1, <2>3, ProberAssumption DEF Staged
<1> QED  BY <1>1, ProbeInvInductive, ProberTyped, PTL DEF ProbingSpec

(* A probe never has more requests under way than rate_limit_per_base_url,   *)
(* whatever fails and comes back (_get_rate_limiter, _ask), and although     *)
(* others go on between a failure and the cancellation (asyncio.run).        *)
THEOREM LimitKept == ProbingSpec => []ProbeLimited
<1>1. ProbeInv => ProbeLimited
  BY DEF ProbeInv, ProbeLimited
<1> QED  BY <1>1, ProbesStaged, PTL

(* A probe that is over has left no request behind: the loop of a failed one *)
(* is closed only when the threads of its requests have ended (asyncio.run). *)
THEOREM NoneLeftBehind == ProbingSpec => []NothingStrays
<1>1. TypeOK /\ ProbeInv => NothingStrays
  BY DEF TypeOK, ProbeInv, Staged, NothingStrays, InFlight, With
<1> QED  BY <1>1, ProbesStaged, PTL

(* A profile is made of the answers to all questions (_ask_parallel).        *)
THEOREM ProfileOfAllAnswers == ProbingSpec => []WholeProfile
<1>1. ProbeInv => WholeProfile
  BY DEF ProbeInv, Staged, WholeProfile, With
<1> QED  BY <1>1, ProbesStaged, PTL

-----------------------------------------------------------------------------
(***************************************************************************)
(* The records.  While a tool has records of one year only, their names    *)
(* are of minutes that have come; where no two writers have met either, a  *)
(* file that is open is the only one, empty and the last by name.          *)
(***************************************************************************)
Last(t, s) == s \in Store!Names(t) /\ \A u \in Store!Names(t) : u <= s

Record(t, w) ==
  /\ Last(t, open[w].name) /\ file[t][open[w].name] = Empty
  /\ newest[t] = open[w].value /\ Store!Writing(t) = {w}

\* The minutes of a year are in the order of their names.
InYear(s, y) == \E m \in 0..now : m \div Year = y /\ m % Year = s
Passed(t) ==
  /\ years[t] = {} => Store!Names(t) = {} /\ Store!Writing(t) = {}
  /\ \A y \in years[t] :
       /\ \A s \in Store!Names(t) : InYear(s, y)
       /\ \A w \in Store!Writing(t) : InYear(open[w].name, y)

Stored(t) ==
  /\ Store!OneYear(t) => Passed(t)
  /\ ~clash[t] /\ Store!OneYear(t) =>
       /\ \A w \in Store!Writing(t) : Record(t, w)
       /\ Store!Writing(t) = {} => Store!LoadLatest(t) = newest[t]

StoreInv == \A t \in Tool : Stored(t)

LEMMA LastIsLoaded ==
  ASSUME NEW t \in Tool, NEW s, Last(t, s), Store!Names(t) \subseteq Int
  PROVE  Store!LoadLatest(t) = IF file[t][s] = Empty THEN None ELSE file[t][s]
<1>1. \A u \in Store!Names(t) : (\A v \in Store!Names(t) : v <= u) => u = s
  BY DEF Last
<1>2. Store!LastName(t) = s
  BY <1>1 DEF Store!LastName, Last
<1> QED  BY <1>2 DEF Store!LoadLatest, Last

LEMMA YearsCounted ==
  ASSUME NEW n \in Nat, NEW size \in Nat, size # 0
  PROVE  n \div size \in Nat
OBVIOUS

LEMMA StoreTyped == ProbingSpec => []Store!TypeOK
<1> USE ProbingAssumption DEF Store!TypeOK, Store!RecordFilesAssumption
<1>1. ProbingInit => Store!TypeOK
  BY DEF ProbingInit, Store!Init, Store!Body
<1>2. Store!TypeOK /\ [ProbingNext]_vars => Store!TypeOK'
  <2> SUFFICES ASSUME Store!TypeOK, [ProbingNext]_vars
               PROVE  Store!TypeOK'
    OBVIOUS
  <2>1. ASSUME NEW w \in Probe, NEW t \in Tool, Store!Open(w, t)
        PROVE  Store!TypeOK'
    <3>1. now \in Nat /\ Store!Stamp(now) \in 0..(Year - 1)
      BY DEF Store!Stamp
    <3>2. saves + 1 \in Store!Value
      BY <2>1 DEF Store!Open, Store!Value
    <3>3. saves' \in 0..MaxSaves
      BY <2>1 DEF Store!Open
    <3>4. file' \in [Tool -> [0..(Year - 1) -> Store!Body]]
      BY <2>1, <3>1 DEF Store!Open, Store!Body
    <3>5. now \div Year \in Nat
      <4>1. Year \in Nat /\ Year # 0
        OBVIOUS
      <4> QED  BY <3>1, <4>1, YearsCounted
    <3>6. years' \in [Tool -> SUBSET Nat]
      BY <2>1, <3>5 DEF Store!Open
    <3> QED  BY <2>1, <3>1, <3>2, <3>3, <3>4, <3>6 DEF Store!Open
  <2>2. ASSUME NEW w \in Probe, Store!Close(w)
        PROVE  Store!TypeOK'
    <3>1. PICK body \in Store!Body : Store!Written(w, body)
      BY <2>2 DEF Store!Close, Store!Body
    <3>2. file' \in [Tool -> [0..(Year - 1) -> Store!Body]]
      BY <2>2, <3>1 DEF Store!Close, Store!Written
    <3>3. open' = [open EXCEPT ![w] = None]
      BY <3>1 DEF Store!Written
    <3> QED  BY <2>2, <3>2, <3>3 DEF Store!Close
  <2>3. CASE Store!Minute
    BY <2>3 DEF Store!Minute
  <2>4. ASSUME NEW dead \in SUBSET Probe, Store!CutShort(dead)
        PROVE  Store!TypeOK'
    BY <2>4 DEF Store!CutShort
  <2>5. CASE UNCHANGED store
    BY <2>5 DEF store
  <2> QED  BY <2>1, <2>2, <2>3, <2>4, <2>5, StoreSteps DEF vars, store
<1> QED  BY <1>1, <1>2, PTL DEF ProbingSpec

(* Probes and records, of any number of threads, are well typed.             *)
THEOREM ProbingTyped == ProbingSpec => []ProbingTypeOK
BY ProberTyped, StoreTyped, PTL DEF ProbingTypeOK

\* In one year the later minute has the later name.
LEMMA NamesInOrder ==
  ASSUME NEW s, NEW y, now \in Nat, Year \in Nat \ {0}, y = now \div Year
  PROVE  InYear(s, y) => s <= Store!Stamp(now)
<1>1. ASSUME NEW n \in Nat, NEW m \in Nat, m <= n, NEW size \in Nat \ {0},
             m \div size = n \div size
      PROVE  m % size <= n % size
  BY <1>1
<1>2. ASSUME NEW m \in 0..now, m \div Year = y
      PROVE  m % Year <= Store!Stamp(now)
  <2>1. m \in Nat /\ m <= now
    OBVIOUS
  <2> QED  BY <1>1, <1>2, <2>1 DEF Store!Stamp
<1> QED  BY <1>2 DEF InYear

\* What becomes of a tool whose files and writers a step does not touch.
LEMMA StoreKept ==
  ASSUME Store!TypeOK, StoreInv, NEW t \in Tool, now' \in Nat, now <= now',
         file'[t] = file[t], newest'[t] = newest[t], clash'[t] = clash[t],
         years'[t] = years[t], Store!Writing(t)' = Store!Writing(t),
         \A w \in Store!Writing(t) : open'[w] = open[w]
  PROVE  Stored(t)'
<1>1. Store!Names(t)' = Store!Names(t) /\ Store!Names(t) \subseteq Int
  BY DEF Store!Names
<1>2. Store!OneYear(t)' = Store!OneYear(t) /\ (Passed(t) => Passed(t)')
  <2>1. \A s, y : InYear(s, y) => InYear(s, y)'
    BY DEF InYear, Store!TypeOK
  <2> QED  BY <1>1, <2>1 DEF Passed, Store!OneYear
<1>3. Store!LoadLatest(t)' = Store!LoadLatest(t)
  BY <1>1 DEF Store!LoadLatest, Store!LastName
<1>4. \A w \in Store!Writing(t) : Record(t, w) => Record(t, w)'
  BY <1>1 DEF Record, Last
<1> QED  BY <1>1, <1>2, <1>3, <1>4 DEF StoreInv, Stored

LEMMA StoreInvInductive == Store!TypeOK /\ StoreInv /\ [ProbingNext]_vars => StoreInv'
<1> SUFFICES ASSUME Store!TypeOK, StoreInv, [ProbingNext]_vars, NEW t \in Tool
             PROVE  Stored(t)'
  BY DEF StoreInv
<1> USE ProbingAssumption DEF Store!RecordFilesAssumption
<1>a. /\ now \in Nat /\ Store!Names(t) \subseteq Int
      /\ Store!OneYear(t) => Passed(t)
      /\ ~clash[t] /\ Store!OneYear(t) =>
           /\ \A w \in Store!Writing(t) : Record(t, w)
           /\ Store!Writing(t) = {} => Store!LoadLatest(t) = newest[t]
  BY DEF StoreInv, Stored, Store!TypeOK, Store!Names
<1>1. ASSUME NEW w \in Probe, NEW u \in Tool, Store!Open(w, u)
      PROVE  Stored(t)'
  <2> DEFINE stamp == Store!Stamp(now)
             year  == now \div Year
  <2>1. stamp \in 0..(Year - 1)
    BY <1>a DEF Store!Stamp
  <2>a. InYear(stamp, year)
    BY <1>a DEF Store!Stamp, InYear
  <2>b. \A s : InYear(s, year) => s <= stamp
    BY <1>a, NamesInOrder
  <2>c. years' = [years EXCEPT ![u] = @ \union {year}]
    BY <1>1 DEF Store!Open
  <2>d. stamp' = stamp /\ year' = year
    BY <1>1 DEF Store!Open, Store!Stamp
  <2> HIDE DEF stamp, year
  <2>2. /\ open[w] = None /\ now' = now
        /\ open' = [open EXCEPT ![w] = [tool |-> u, name |-> stamp, value |-> saves + 1]]
        /\ file' = [file EXCEPT ![u][stamp] = Empty]
        /\ newest' = [newest EXCEPT ![u] = saves + 1]
        /\ clash' = [clash EXCEPT ![u] = @ \/ Store!Writing(u) # {}]
    BY <1>1, <2>1 DEF Store!Open, stamp
  <2>3. [tool |-> u, name |-> stamp, value |-> saves + 1] # None
    <3>1. saves + 1 \in Store!Value
      BY <1>1 DEF Store!Open, Store!TypeOK, Store!Value
    <3> QED  BY <2>1, <3>1
  <2>4. CASE u # t
    <3>1. Store!Writing(t)' = Store!Writing(t) /\ \A v \in Store!Writing(t) : open'[v] = open[v]
      BY <2>2, <2>4 DEF Store!Writing, Store!TypeOK
    <3>2. /\ file'[t] = file[t] /\ newest'[t] = newest[t] /\ clash'[t] = clash[t]
          /\ years'[t] = years[t]
      BY <2>2, <2>c, <2>4 DEF Store!TypeOK
    <3> QED  BY <1>a, <2>2, <3>1, <3>2, StoreKept
  <2>5. CASE u = t
    <3>1. Store!Names(t)' = Store!Names(t) \union {stamp} /\ file'[t][stamp] = Empty
      BY <2>1, <2>2, <2>5 DEF Store!Names, Store!TypeOK
    <3>a. years'[t] = years[t] \union {year}
      BY <2>c, <2>5 DEF Store!TypeOK
    <3>b. ASSUME Store!OneYear(t)'
          PROVE  /\ Store!OneYear(t) /\ years'[t] = {year}
                 /\ \A s \in Store!Names(t) : InYear(s, year)
                 /\ \A v \in Store!Writing(t) : InYear(open[v].name, year)
      <4>1. Store!OneYear(t) /\ years'[t] = {year} /\ years[t] \in {{}, {year}}
        BY <3>a, <3>b DEF Store!OneYear
      <4> QED  BY <1>a, <4>1 DEF Passed
    <3>2. Store!OneYear(t)' => Last(t, stamp)'
      <4>1. ASSUME Store!OneYear(t)', NEW s \in Store!Names(t)'
            PROVE  s <= stamp
        BY <2>1, <2>b, <3>1, <3>b, <4>1
      <4> QED  BY <2>d, <3>1, <4>1 DEF Last
    <3>3. w \in Store!Writing(t)' /\ open'[w].name = stamp /\ open'[w].value = newest'[t]
      BY <2>2, <2>3, <2>5 DEF Store!Writing, Store!TypeOK
    <3>4. ~clash'[t] => Store!Writing(t)' = {w}
      <4>1. ~clash'[t] => Store!Writing(t) = {}
        BY <2>2, <2>5 DEF Store!TypeOK
      <4>2. \A v \in Probe \ {w} : open'[v] = open[v]
        BY <2>2
      <4> QED  BY <3>3, <4>1, <4>2 DEF Store!Writing
    <3>5. ~clash'[t] /\ Store!OneYear(t)' => Record(t, w)'
      <4> SUFFICES ASSUME ~clash'[t], Store!OneYear(t)'
                   PROVE  Record(t, w)'
        OBVIOUS
      <4>1. Last(t, open[w].name)'
        BY <2>d, <3>2, <3>3 DEF Last
      <4> QED  BY <2>d, <3>1, <3>3, <3>4, <4>1 DEF Record
    <3>6. ASSUME Store!OneYear(t)'
          PROVE  Passed(t)'
      <4>1. \A s \in Store!Names(t)' : InYear(s, year)
        BY <2>a, <3>1, <3>b, <3>6
      <4>2. \A v \in Store!Writing(t)' : InYear(open'[v].name, year)
        BY <2>2, <2>5, <2>a, <3>3, <3>b, <3>6 DEF Store!Writing, Store!TypeOK
      <4>3. \A s, y : InYear(s, y)' = InYear(s, y)
        BY <2>2 DEF InYear
      <4> QED  BY <3>b, <3>6, <4>1, <4>2, <4>3 DEF Passed
    <3> QED  BY <3>3, <3>4, <3>5, <3>6 DEF Stored
  <2> QED  BY <2>4, <2>5
<1>2. ASSUME NEW w \in Probe, Store!Close(w)
      PROVE  Stored(t)'
  <2>1. PICK body \in Store!Body \ {NoFile, Empty} :
          /\ Store!Written(w, body)
          /\ body = open[w].value \/ file[open[w].tool][open[w].name] # Empty
    BY <1>2 DEF Store!Close, Store!Body, Store!TypeOK
  <2>2. open[w] # None /\ UNCHANGED <<now, newest, clash, years>>
    BY <1>2 DEF Store!Close
  <2>3. /\ file' = [file EXCEPT ![open[w].tool][open[w].name] = body]
        /\ open' = [open EXCEPT ![w] = None]
        /\ open[w].tool \in Tool /\ open[w].name \in 0..(Year - 1)
    BY <2>1, <2>2 DEF Store!Written, Store!TypeOK
  <2>4. CASE open[w].tool # t
    <3>1. Store!Writing(t)' = Store!Writing(t) /\ \A v \in Store!Writing(t) : open'[v] = open[v]
      BY <2>3, <2>4 DEF Store!Writing, Store!TypeOK
    <3>2. file'[t] = file[t]
      BY <2>3, <2>4 DEF Store!TypeOK
    <3> QED  BY <1>a, <2>2, <3>1, <3>2, StoreKept
  <2>5. CASE open[w].tool = t
    <3>1. Store!Names(t)' = Store!Names(t) \union {open[w].name}
      BY <2>1, <2>3, <2>5 DEF Store!Names, Store!TypeOK
    <3>2. w \in Store!Writing(t)
      BY <2>2, <2>5 DEF Store!Writing
    <3>a. Store!OneYear(t)' = Store!OneYear(t)
      BY <2>2 DEF Store!OneYear
    <3>3. ASSUME ~clash[t], Store!OneYear(t)
          PROVE  Store!Writing(t)' = {} /\ Store!LoadLatest(t)' = newest'[t]
      <4>1. Record(t, w)
        BY <1>a, <3>2, <3>3
      <4>2. body = newest[t] /\ body # Empty
        BY <2>1, <2>5, <4>1 DEF Record
      <4>3. Store!Names(t)' = Store!Names(t)
        BY <3>1, <4>1 DEF Record, Last
      <4>4. /\ open[w].name \in Store!Names(t)'
            /\ \A v \in Store!Names(t)' : v <= open[w].name
        BY <4>1, <4>3 DEF Record, Last
      <4>5. file'[t][open[w].name] = body
        BY <2>3, <2>5 DEF Store!TypeOK
      <4>6. Store!LastName(t)' = open[w].name
        BY <1>a, <2>3, <4>3, <4>4 DEF Store!LastName
      <4>7. Store!LoadLatest(t)' = body
        BY <4>2, <4>4, <4>5, <4>6 DEF Store!LoadLatest
      <4>8. Store!Writing(t)' = {}
        BY <2>3, <4>1 DEF Record, Store!Writing, Store!TypeOK
      <4> QED  BY <2>2, <4>2, <4>7, <4>8
    <3>4. Passed(t) => Passed(t)'
      <4>1. \A s, y : InYear(s, y)' = InYear(s, y)
        BY <2>2 DEF InYear
      <4>2. \A v \in Store!Writing(t)' : v \in Store!Writing(t) /\ open'[v] = open[v]
        BY <2>3 DEF Store!Writing, Store!TypeOK
      <4> QED  BY <2>2, <3>1, <3>2, <4>1, <4>2 DEF Passed
    <3> QED  BY <1>a, <2>2, <3>3, <3>4, <3>a DEF Stored
  <2> QED  BY <2>4, <2>5
<1>3. CASE Store!Minute
  <2>1. now' = now + 1 /\ UNCHANGED <<file, open, newest, clash, years>>
    BY <1>3 DEF Store!Minute
  <2>2. Store!Writing(t)' = Store!Writing(t)
    BY <2>1 DEF Store!Writing
  <2> QED  BY <1>a, <2>1, <2>2, StoreKept
<1>4. ASSUME NEW dead \in SUBSET Probe, Store!CutShort(dead)
      PROVE  Stored(t)'
  <2>1. /\ UNCHANGED <<now, file, clash, years>>
        /\ newest'[t] = IF \E w \in Store!Writing(t) \intersect dead : open[w].value = newest[t]
                        THEN None ELSE newest[t]
        /\ open' = [w \in Probe |-> IF w \in dead THEN None ELSE open[w]]
    BY <1>4 DEF Store!CutShort
  <2>2. Store!Writing(t)' = Store!Writing(t) \ dead
    BY <2>1 DEF Store!Writing
  <2>3. CASE Store!Writing(t) \intersect dead = {}
    <3>1. newest'[t] = newest[t]
      BY <2>1, <2>3
    <3>2. Store!Writing(t)' = Store!Writing(t)
      BY <2>2, <2>3
    <3>3. \A w \in Store!Writing(t) : open'[w] = open[w]
      BY <2>1, <2>3 DEF Store!Writing
    <3> QED  BY <1>a, <2>1, <3>1, <3>2, <3>3, StoreKept
  <2>4. ASSUME NEW w \in Store!Writing(t) \intersect dead
        PROVE  Stored(t)'
    <3>1. Store!Names(t)' = Store!Names(t) /\ Store!LastName(t)' = Store!LastName(t)
      BY <2>1 DEF Store!Names, Store!LastName
    <3>a. Store!OneYear(t)' = Store!OneYear(t)
      BY <2>1 DEF Store!OneYear
    <3>2. ASSUME ~clash[t], Store!OneYear(t)
          PROVE  Store!Writing(t)' = {} /\ Store!LoadLatest(t)' = newest'[t]
      <4>1. Record(t, w)
        BY <1>a, <2>4, <3>2
      <4>2. newest'[t] = None
        BY <2>1, <2>4, <4>1 DEF Record
      <4>3. Store!LoadLatest(t) = None
        BY <1>a, <4>1, LastIsLoaded DEF Record
      <4>4. Store!LoadLatest(t)' = Store!LoadLatest(t)
        BY <2>1, <3>1 DEF Store!LoadLatest
      <4>5. Store!Writing(t)' = {}
        BY <2>2, <2>4, <4>1 DEF Record
      <4> QED  BY <4>2, <4>3, <4>4, <4>5
    <3>3. \A v \in Store!Writing(t)' : v \in Store!Writing(t) /\ open'[v] = open[v]
      BY <2>1, <2>2 DEF Store!Writing
    <3>4. Passed(t) => Passed(t)'
      <4>1. \A s, y : InYear(s, y)' = InYear(s, y)
        BY <2>1 DEF InYear
      <4> QED  BY <2>1, <2>2, <3>1, <3>3, <4>1 DEF Passed
    <3> QED  BY <1>a, <2>1, <3>2, <3>4, <3>a DEF Stored
  <2> QED  BY <2>3, <2>4
<1>5. CASE UNCHANGED store
  <2>1. UNCHANGED <<now, file, open, newest, clash, years>>
    BY <1>5 DEF store
  <2>2. Store!Writing(t)' = Store!Writing(t)
    BY <2>1 DEF Store!Writing
  <2> QED  BY <1>a, <2>1, <2>2, StoreKept
<1> QED  BY <1>1, <1>2, <1>3, <1>4, <1>5, StoreSteps DEF vars, store

(* As long as all records of a tool are of one year, and no two writers have *)
(* met, load_latest returns the record whose save began last, whole, or none *)
(* if a crash cut it short.                                                  *)
THEOREM LatestNewest == ProbingSpec => []LatestIsNewest
<1>1. ProbingInit => StoreInv
  BY DEF ProbingInit, Store!Init, StoreInv, Stored, Passed, Store!Names, Store!Writing,
         Store!LoadLatest
<1>2. StoreInv => LatestIsNewest
  BY DEF StoreInv, Stored, LatestIsNewest, Store!LatestIsNewest
<1>3. StoreInv /\ Store!TypeOK /\ [ProbingNext]_vars => StoreInv'
  BY StoreInvInductive
<1> QED  BY <1>1, <1>2, <1>3, StoreTyped, PTL DEF ProbingSpec

-----------------------------------------------------------------------------
\* A question of a running probe that waits for a slot finds one, or others of the
\* same probe are under way.
NoVainWait ==
  \A p \in Probe : stage[p] = "running" =>
    \/ Asked[p] \subseteq With(p, {"answered"})
    \/ With(p, {"asking", "pausing"}) # {}
    \/ With(p, {"waiting"}) # {} /\ SlotFree(p)

\* How far a question is from its end: three steps per attempt that it has left.
ToGo(p, q) ==
  LET tries == 3 * (RetryMax - attempt[p][q])
  IN  CASE quest[p][q] = "waiting" -> tries + 2
        [] quest[p][q] = "asking"  -> tries + 1
        [] quest[p][q] = "pausing" -> tries + 3
        [] OTHER                   -> 0

QuestionsRunOut ==
  [][\A p \in Probe : Looping(p) /\ Looping(p)' =>
       \A q \in Asked[p] :
         /\ ToGo(p, q) \in Nat
         /\ quest'[p][q] # quest[p][q] => ToGo(p, q)' < ToGo(p, q)]_vars

(* A probe is never stuck on its semaphore: its questions share it with none *)
(* but each other, and a pausing question holds no slot (_ask).              *)
THEOREM ProbesGoOn == ProbingSpec => []NoVainWait
<1>1. TypeOK /\ ProbeInv => NoVainWait
  <2> SUFFICES ASSUME TypeOK, ProbeInv, NEW p \in Probe, stage[p] = "running",
                      With(p, {"asking", "pausing"}) = {},
                      ~(Asked[p] \subseteq With(p, {"answered"}))
               PROVE  With(p, {"waiting"}) # {} /\ SlotFree(p)
    BY DEF NoVainWait
  <2>1. With(p, {"waiting"}) # {}
    BY DEF With, ProbeInv, Staged
  <2>2. With(p, {"asking"}) = {}
    BY DEF With
  <2>3. SlotFree(p)
    BY <2>2, FS_EmptySet, ProberAssumption DEF SlotFree
  <2> QED
    BY <2>1, <2>3
<1> QED
  BY <1>1, ProbesStaged, PTL

(* Every step of a question brings it nearer to its end, because each pause  *)
(* is paid for with an attempt: nothing is asked for ever (_ask's loop).     *)
THEOREM NothingAskedForEver == ProbingSpec => QuestionsRunOut
<1>1. TypeOK /\ ProbeInv /\ [ProbingNext]_vars =>
        \A p \in Probe : Looping(p) /\ Looping(p)' =>
          \A q \in Asked[p] :
            /\ ToGo(p, q) \in Nat
            /\ quest'[p][q] # quest[p][q] => ToGo(p, q)' < ToGo(p, q)
  <2> SUFFICES ASSUME TypeOK, ProbeInv, [ProbingNext]_vars, NEW p \in Probe,
                      Looping(p), Looping(p)', NEW q \in Asked[p]
               PROVE  /\ ToGo(p, q) \in Nat
                      /\ quest'[p][q] # quest[p][q] => ToGo(p, q)' < ToGo(p, q)
    OBVIOUS
  <2>0. q \in Index
    BY AskedFinite
  <2>1. RetryMax \in Nat /\ attempt[p][q] \in Nat /\ attempt[p][q] < RetryMax
    BY <2>0, ProberAssumption DEF TypeOK
  <2>2. ToGo(p, q) \in Nat
    BY <2>1 DEF ToGo
  <2>3. ASSUME quest'[p][q] # quest[p][q]
        PROVE  ToGo(p, q)' < ToGo(p, q)
    <3>1. CASE Step(p)
      <4>1. PICK i \in Asked[p] : Question(p, i)
        BY <3>1 DEF Step, Cancel, Raises, Returns, Looping, TypeOK
      <4>2. i \in Index
        BY AskedFinite
      <4>4. i = q /\ quest'[p][q] # "stray"
        BY <2>0, <2>3, <4>1, <4>2
           DEF Question, Send, Answer, Retry, Resume, GiveUp, StrayEnds, Become, With, TypeOK
      <4>5. CASE Send(p, q)
        BY <2>0, <2>1, <4>5 DEF Send, Become, With, ToGo, TypeOK
      <4>6. CASE Answer(p, q)
        BY <2>0, <2>1, <4>6 DEF Answer, Become, With, ToGo, TypeOK
      <4>7. CASE Retry(p, q)
        <5>1. quest[p][q] = "asking" /\ quest'[p][q] = "pausing"
          BY <2>0, <4>7 DEF Retry, Become, With, TypeOK
        <5>2. attempt'[p][q] = attempt[p][q] + 1
          BY <2>0, <4>7 DEF Retry, TypeOK
        <5> QED
          BY <2>1, <5>1, <5>2 DEF ToGo
      <4>8. CASE Resume(p, q)
        BY <2>0, <2>1, <4>8 DEF Resume, Become, With, ToGo, TypeOK
      <4>9. CASE GiveUp(p, q)
        BY <2>0, <2>1, <4>9 DEF GiveUp, Become, With, ToGo, TypeOK
      <4>10. CASE StrayEnds(p, q)
        BY <4>10 DEF StrayEnds, With, ProbeInv, Staged, Looping
      <4> QED
        BY <4>1, <4>4, <4>5, <4>6, <4>7, <4>8, <4>9, <4>10 DEF Question
    <3>2. CASE \E o \in Probe \ {p} : StartProbe(o) \/ Step(o) \/ Finish(o)
      BY <2>3, <3>2
         DEF StartProbe, Step, Finish, Forget, Cancel, Raises, Returns, Question, Send, Answer,
             Retry, Resume, GiveUp, StrayEnds, Become, TypeOK
    <3>3. CASE StartProbe(p) \/ Finish(p)
      BY <3>3 DEF StartProbe, Finish, Looping, TypeOK
    <3>4. CASE \E dead \in SUBSET Probe : Crash(dead)
      BY <2>3, <3>4 DEF Crash, Looping, TypeOK
    <3>5. CASE UNCHANGED prober
      BY <2>3, <3>5 DEF prober
    <3> QED
      BY <3>1, <3>2, <3>3, <3>4, <3>5, ProbeSteps DEF vars, prober
  <2> QED
    BY <2>2, <2>3
<1> QED
  BY <1>1, ProbesStaged, PTL DEF ProbingSpec, QuestionsRunOut
=============================================================================
