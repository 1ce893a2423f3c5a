----------------------------- MODULE RecordFiles -----------------------------
(***************************************************************************)
(* The profiling records on disk (ProfilingStore of profiling.py): a file  *)
(* per tool and minute, written by whoever has probed the tool; the latest *)
(* one is the last by name.  write_text empties the file before it writes, *)
(* so a crash, or a look in between, finds an empty record, which counts   *)
(* as none; two writers of one file may leave a mixture of both.           *)
(*                                                                         *)
(* A name says month, day, hour and minute, and not the year: Year is the  *)
(* number of names, and the last by name may be of the year before.        *)
(* Ids of tools that differ in a suffix after a dash only, or by sanitized *)
(* characters, share their files; here ids do not.                         *)
(***************************************************************************)
EXTENDS Naturals

CONSTANTS
  Tool,
  Writer,       \* the threads that save records
  Year,         \* the minutes of a year
  MaxMinutes,   \* bound: minutes that pass
  MaxSaves,     \* bound: records ever saved; a record is its number
  NoFile, Empty, Mixed,   \* the contents of a file that is not one record
  None

Value == 1..MaxSaves
Body  == Value \union {NoFile, Empty, Mixed}

\* Assumed by the module that instantiates this one.
RecordFilesAssumption ==
  /\ Year \in Nat \ {0} /\ MaxMinutes \in Nat /\ MaxSaves \in Nat
  /\ {None, NoFile, Empty, Mixed} \intersect Value = {} /\ None \notin {Mixed, Empty}
  /\ Empty # NoFile /\ Mixed \notin {Empty, NoFile}
  /\ None \notin [tool : Tool, name : 0..(Year - 1), value : Value]

VARIABLES
  now,          \* minutes gone by
  file,         \* the contents of each tool's file of each minute
  open,         \* the file a writer has open: tool, name and record, or None
  saves,        \* history: the records so far
  newest,       \* history: the record of each tool whose save began last, None
                \* if that was cut short
  clash,        \* history: two writers had a file of the tool open at once
  years         \* history: the years in which records of the tool were saved

records == <<now, file, open, saves, newest, clash, years>>

\* strftime("%m%d%H%M")
StampDayFirst(minute) == Year - 1 - (minute % Year)    \* mutant: "%d%m%H%M"
Stamp(minute) == minute % Year

Names(t) == {s \in 0..(Year - 1) : file[t][s] # NoFile}

\* load_latest, with None for a record without a profile.
LastName(t) == CHOOSE s \in Names(t) : \A u \in Names(t) : u <= s
LoadLatest(t) ==
  IF Names(t) = {} \/ file[t][LastName(t)] = Empty THEN None ELSE file[t][LastName(t)]

\* No turn of the year between two records.
OneYear(t) == \A y, z \in years[t] : y = z

Writing(t) == {w \in Writer : open[w] # None /\ open[w].tool = t}

-----------------------------------------------------------------------------
Init ==
  /\ now = 0
  /\ file = [t \in Tool |-> [s \in 0..(Year - 1) |-> NoFile]]
  /\ open = [w \in Writer |-> None]
  /\ saves = 0
  /\ newest = [t \in Tool |-> None]
  /\ clash = [t \in Tool |-> FALSE]
  /\ years = [t \in Tool |-> {}]

\* write_text opens the file and empties it.
Open(w, t) ==
  /\ open[w] = None /\ saves < MaxSaves
  /\ saves' = saves + 1
  /\ open' = [open EXCEPT ![w] = [tool |-> t, name |-> Stamp(now), value |-> saves + 1]]
  /\ file' = [file EXCEPT ![t][Stamp(now)] = Empty]
  /\ newest' = [newest EXCEPT ![t] = saves + 1]
  /\ clash' = [clash EXCEPT ![t] = @ \/ Writing(t) # {}]
  /\ years' = [years EXCEPT ![t] = @ \union {now \div Year}]
  /\ UNCHANGED now

Written(w, body) ==
  /\ file' = [file EXCEPT ![open[w].tool][open[w].name] = body]
  /\ open' = [open EXCEPT ![w] = None]

\* It writes from the start of the file, over what another has written since.
Close(w) ==
  /\ open[w] # None
  /\ \/ Written(w, open[w].value)
     \/ file[open[w].tool][open[w].name] # Empty /\ Written(w, Mixed)
  /\ UNCHANGED <<now, saves, newest, clash, years>>

Minute ==
  /\ now < MaxMinutes
  /\ now' = now + 1
  /\ UNCHANGED <<file, open, saves, newest, clash, years>>

\* The process of some writers dies: files that are open stay as they are.
CutShort(dead) ==
  /\ newest' = [t \in Tool |->
       IF \E w \in Writing(t) \intersect dead : open[w].value = newest[t]
       THEN None ELSE newest[t]]
  /\ open' = [w \in Writer |-> IF w \in dead THEN None ELSE open[w]]
  /\ UNCHANGED <<now, file, saves, clash, years>>

Next ==
  \/ \E w \in Writer : Close(w) \/ \E t \in Tool : Open(w, t)
  \/ Minute \/ \E dead \in SUBSET Writer : CutShort(dead)

Spec == Init /\ [][Next]_records

-----------------------------------------------------------------------------
TypeOK ==
  /\ now \in 0..MaxMinutes
  /\ file \in [Tool -> [0..(Year - 1) -> Body]]
  /\ open \in [Writer -> [tool : Tool, name : 0..(Year - 1), value : Value] \union {None}]
  /\ saves \in 0..MaxSaves
  /\ newest \in [Tool -> Value \union {None}]
  /\ clash \in [Tool -> BOOLEAN]
  /\ years \in [Tool -> SUBSET Nat]

(* As long as all records of a tool are of one year, and no two of its       *)
(* writers have met: the record that is loaded is the one whose save began   *)
(* last, whole; a save that is cut short hides the records before it, so     *)
(* that the tool is probed again.                                            *)
LatestIsNewest ==
  \A t \in Tool :
    ~clash[t] /\ OneYear(t) /\ Writing(t) = {} => LoadLatest(t) = newest[t]
=============================================================================
