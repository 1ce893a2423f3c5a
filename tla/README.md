# A TLA+ model of the Reference Agent

The Reference Agent answers a question by asking several RAG tools (HybridRAG
pipelines and external MCP services) in bounded steps, judging after each step
whether what it has is enough, and composing an answer with citable evidence. It
is a Python service: a FastAPI application, one `ReferenceAgentService` shared
by all requests, thread pools for the tool calls and one more thread per streamed
ask. This directory holds TLA+ modules of that code, TLC configurations that
check them on small instances and TLAPS proofs for every value of the constants.
Paths below are relative to `src/reference_agent/` unless they begin otherwise.

## 1. The system

| Component | State | Operations | Talks to | Correct if |
|---|---|---|---|---|
| Tool calls (`executor.py`) | semaphore per base URL, chat id per tool, their two locks | `call_tool` from pool threads | adapters | limit per URL holds; permits come back; one chat per tool; every call returns |
| Ask orchestration (`service.py`: `_ask_impl`) | local to the ask; trace file | `ask` | planners, bounded executor, composer, trace store | the final status is backed by the evidence shown |
| Bounded executor (`v2_executor.py`) | step records, evidence, evaluations of a run | `execute` (DYNAMIC, FAN_OUT, DISTRIBUTED) | tool calls through a pool, evaluator, LLM | step budget; records in plan order; no call left behind |
| Evaluator (`evaluator.py`), evidence (`evidence.py`) | none | `evaluate`, `dedupe_evidence`, `sort_evidence` | LLM | stops when it should |
| Streamed asks (`service.py`: `ask_stream`; `app.py`) | queue, think phase | `/ask/stream`, streaming `/v1/chat/completions` | the ask's thread, the client | one conclusion, last; nothing lost; think tags paired |
| Profiling (`service.py`: `_ensure_profiling`; `profiling.py`) | profile summaries in memory, record files, `.tools_md.hash` | before every ask; `/profiling/run`; `scripts/profile_tools.py` | HybridRAG, disk | tools have a profile before planning; changes are noticed; a profile is whole; the newest record is the one that is loaded |
| Router (`router.py`) | none | `select_strategy` | health records | only what the profile allows; only healthy tools unless it says that it fell back |
| Tool health (`service.py`: `_update_health`) | failure counts, healthy flags, shared by all asks | at the end of every ask | router, Explain | failures are never invented; exact where nothing raced |
| Planning, synthesis, composer, LLM adapter | none | one LLM request each | LLM | fall back on bad answers |
| Trace store (`storage.py`) | JSON files | `save`, `load` | disk | - |
| Service entry (`main.py`), scripts (`src/scripts/*.sh`), admin control (`admin/process_control.py`) | PID file, processes | start, stop, restart, from a shell or from a page of the service itself | each other through the PID file; the service's event loop, which a chat completion may hold | the PID file names the service; a stop stops it; a restart brings one back |
| Configuration editor (`admin/config_editor.py`, `admin/routes.py`) | config.yaml, TOOLS.md, profiles; forms in browsers | preview, apply; of a form or of raw text | the loaders at the next start | what is applied can be loaded, unless a crash falls into its write |
| Admin views (`admin/`: logs, docs, audit, system info) | append-only audit log | read | - | - |

What is hard here is concurrency (pool threads on shared caches, requests that
profile the same tool, asks that count failures in shared records without a lock,
the event loop against the threads), order (results, events and the end-of-stream
item), failure (each LLM or tool request may raise, a client may leave, a process may
go down between the two halves of a write), time (retries, a script that gives up
after five seconds while a service drains as long as an ask) and status (an answer
must not claim more than its evidence). `PROJECT.json` lists each such hazard at its
line, with the properties that cover it or the reason why none does.

## 2. The modules

`ToolCalls` - the life of a `call_tool` from a pool thread to its step record.
`pc` follows the code: `limiter` and `install` are the two halves of `with
_rate_limit_lock`, `acquire` waits for a permit, `lookup`/`create`/`store` are the
steps of `_get_or_create_chat_id` (with the HTTP request between the two uses of the
cache's lock), `send`/`query` the request itself, `release` the `finally`. A
semaphore and a chat are named by the call that made them. `chatCache` tells a key
that is missing (`Absent`) from one that holds a falsy id (`None`): `setdefault` does.

`Ask` - one ask. The ask's thread moves through `pc` (`plan`, `step`, `collect`,
`compose`, `finish`), pool threads end calls in any order (`CallEnds`). `subs` are the
submitted calls of the step and the futures dict is derived from them: a tool that an
LLM lists twice overwrites its key, so that its first call is never collected but
still has to end before the pool is left. `Verdict` is the cascade of downgrades in
`_ask_impl`, with its reasons; `ShouldContinue` is `Evaluator._should_continue`. What
the LLM and the tools answer is picked from all they may answer. A HybridRAG tool brings
one item of its own; an external service brings any list of items of `Replies`, whose tool,
source, type and locator are what the service says (`Brings`). A loop that keeps some
items of a list is the set of their positions, in order (`Rank`, `At`): deduplication keeps
the first position of each source, and the stable sort puts each item at the number of
those that come up to it by the priority of the type it claims (`UpTo`, `Place`). An ask
may fail wherever the code can raise (`AnswerRaises`): also when a step has been collected,
since the record of an evaluation is built outside of the evaluator's `try`.

`StreamContract` - what the client of a streamed ask is promised: stages are reported
in order, one conclusion, then the end.

`AskStream` - `ask_stream` with its queue, the thread of the ask (reduced to the events
it emits in the order the templates emit them), the reader, and the text that
`/v1/chat/completions` writes, reduced to think tags, status lines and the answer. The
ask may raise in every phase (`MayRaise`), with a step's block open or not.
It implements `StreamContract`; `heard` is what the client was told of the ask
(`initialize` belongs to the stream, not to the ask, and is left out).

`Profiling` - `_ensure_profiling` by concurrent requests. A definition of a tool is its
version, a probe's result and a record are the version they were made for, the hash of
TOOLS.md is the function of all versions. `loop` is the event loop: the async handler
of chat completions keeps it, the other endpoints are served by threads. `Edit` changes
TOOLS.md, which is read again only by `Restart`.

`Prober` - the probe of one tool per thread (`RuntimeProber`). The questions of a tool are
asked at once on an event loop of the probe's own; `quest` says where each stands:
`waiting` for the semaphore, `asking` (a request in a thread, with a slot), `pausing`
between two attempts (without one), `answered`. A question that fails its last attempt
frees its slot and ends the probe, but not at once (`GiveUp`, stage `failing`): until the
loop comes round to the end of `gather`, the others go on, and one of them may take the
slot. Then they are cancelled (`Cancel`), but a request in a thread cannot be and becomes
a `stray`, which `asyncio.run` waits for before it raises.

`RecordFiles` - `ProfilingStore`. A file per tool and minute, named by `Stamp`; `Open` is
the truncation at the start of `write_text`, `Close` the text it puts there, so that a
look, another writer or the end of the process can fall in between. The latest record
is the last *name*, as in the code, and an empty one is no record. The name says no year:
`Year` is the number of names, and after its turn they start again.

`Probing` - composes the two: the threads of the service and of the profiling script
probe, save, and go down with their process at any step.

`Router` - the choice of a strategy from intent, profile and health: preferred strategy,
restriction to the profile, fallback. Pure operators, without variables.

`ToolHealth` - asks that route and at their end count failures. The router prefers a
strategy (`Select`), then looks at its tools one after the other while other asks change
their flags (`Look`: `FindHealthy`, `FallBack`, `Vouch`); or the strategy is set by hand
(`SelectByHand`). Each access of `_update_health` to a shared field is a step (`Read`,
`Write`, `Test`, `Mark`, `Reset`, `Heal`). History variables say which updates of a tool
have met.

`ServiceControl` - `start.sh`, `stop.sh`, `restart.sh` and the restart of the admin page,
step by step, on one PID file; and the processes: `booting`, `up`, `told` (SIGTERM
received), `draining` (port released, requests still in flight), `gone`. A page's stop
or start is run inside the async handler, so the loop of that service stands still
(`Waits`) until the script has ended. So it does while a chat completion that is not
streamed has its ask (`Chat`; `held` is then `chat`, or `hung` when the ask has to probe, see
`Profiling`) and while the configuration page writes a file. A loop that stands still
(`Busy`) takes no request, notices no SIGTERM and does not exit. uvicorn's part is external.

`ConfigEditor` - the configuration page: a submission of the form or of a raw text reads
the file again, validates, and writes in two steps, the truncation (`Preview`) and the text
(`EndWrite`), between which the service may die (`CutShort`). `Valid` are the validators of the editor:
they see no environment, and ask TOOLS.md for a line feed after the opening of its block.
`Loads` are the loaders: they let `REFERENCE_AGENT_PORT` override the file's port, and read
with line ends translated (`ReadText`). `env` is that variable as the running service has it;
the next service may have another. `page` is what each page says of a restart.

`Administration` - composes the last two. A process that comes up loads the files as
they are then and does not come up on files it cannot load or serve; edits happen on
the pages of a service that serves and hold its loop while they write (`EditPage`,
`PageWritten`); a crash may fall into a write (`GoesDown`).

`ToolCallsProofs`, `AskProofs`, `AskStreamProofs`, `ProfilingProofs`, `ProbingProofs`,
`ToolHealthProofs`, `ServiceControlProofs` and `AdministrationProofs` hold the proofs. `MCToolCalls`, `MCAsk`,
`MCAskStream`, `MCProfiling`, `MCProbing`, `MCToolHealth` and `MCAdmin` give the constants
their values.

How they compose: an ask first profiles (`Profiling`, whose steps `Probed` and `Save` are
a probe of `Prober` and a save of `RecordFiles`), then plans and runs its steps (`Ask`);
each of its calls is a `call_tool` (`ToolCalls`, whose calls stand for those of all asks
of the process), of which `Ask` keeps the outcome; at its end it updates the health of
the tools (`ToolHealth`); and when it is streamed, what it emits is the thread of
`AskStream`. All of this is one process of `ServiceControl`, where `TakeAsk` and `EndAsk`
are what is left of an ask, and a `Restart` of `Profiling` is a new process. `Ask` relies
on two results of the others: a call always returns (`EveryCallReturns`) and never raises
(`Raises` ends in a record). What the router chooses is written to the trace but does
not decide which tools an ask calls: the plan does. `ToolHealth` therefore leaves the
called tools open.

Operators whose comment says "mutant" are faulty versions of the definition below them:
they are not part of any specification, and each property is known to fail with one.

## 3. The runs

| Run | What it asks | Bounds |
|---|---|---|
| `tool_calls` | limit, permits, one chat, return of all calls | 4 calls: two of one HybridRAG tool and one of an external tool on a URL with limit 2, one of a second HybridRAG tool on another URL. Three calls for two permits make a waiter; two on one tool race for its chat. A create may be answered without an id |
| `ask` | budget, order of records, no call left, backed SUCCESS, the best evidence shown; every ask ends | 2 steps; an external tool that is split into up to 2 questions and a vector tool, both required; the external service answers with two items, its own and one it passes off as a hybrid answer of the other tool, or with none; a selected list of up to 2 tools (so it may repeat one); a pool of 2 for up to 4 calls; a response of 2 items, fewer than a step brings |
| `needs_more` (violated) | is the downgrade about the last evaluation | 2 steps |
| `stream` | contract, nothing lost, status lines grouped, both liveness properties | both endpoints, 2 steps of 2 calls, an error at each place the code can raise, an open step included, a client that leaves at any time |
| `profiling` | profiled before planning, forced profiling is fresh, threads get through | an ask, a chat completion and a forced profiling of one tool; a tool without summary, one with, an external one; one edit per tool at most, one restart |
| `reprofile` (violated) | is a changed tool profiled again | one ask |
| `probe_on_loop` (violated) | does a chat completion that has to probe end | one chat completion |
| `probing` | limit, no stray request, whole profiles, which record is loaded; probes end | two processes with a thread each that probe one tool at the same time, 3 questions of one and 1 of the other, 2 at a time, 2 attempts each; a crash of either at any step; 2 records, a year of two minutes and a run of three, so one turn of the year |
| `tool_health` | real failures, exact health, allowed strategies, healthy selections | 2 asks, a HYBRID and an external tool, 6 counted steps against a threshold of 3; a profile whose fallback order starts with a strategy it does not allow |
| `admin` | PID file, files that load; told services end | 2 runs of scripts that may overlap, from a shell or a page, 2 processes, 1 crash, also within a write, 1 request in flight, which may be a chat completion, which may hang; `REFERENCE_AGENT_PORT` set or not at each start; an administrator who fills in the form and submits raw texts: a port that is no number, TLS without its files, a sound TOOLS.md with either line ends |
| `own_stop` (violated) | does a stop on the page of the service itself work | a start, then the stop; no crash, nothing in flight |
| `restart` (violated) | does a restart by the page bring the service back | 2 runs one after the other, 1 ask in flight, no crash |

Why these are enough: a race on a semaphore or a chat needs two calls, a waiter a third;
the second step is the first whose behaviour depends on an earlier evaluation, and a
third adds no new case to `ShouldContinue`; the stream's phases depend on the kind of
event only; a stale record needs one edit and one restart; a question more than the limit
takes the slot of one that failed; two attempts tell the last from another; two saves meet
in a file, follow each other within a year, or have its turn between them; six counted
steps let both tools pass the threshold or one pass it and recover; a PID file is spoilt, if
at all, by what one script leaves to the next; a text is judged in one service and loaded
in the next. The theorems of section 4 lift most of these bounds. Runs that do not check
for deadlock are those where the system really may stop: after a chat completion that had
to probe, when all saves of `probing` are done, when all scripts of the administration have
run. There one administrator has a page: that pages of several administrators and of any age
do no more harm is covered by the proofs only.

What the violated runs show (each is a finding in `PROJECT.json` with the line it
contradicts): an ask of several steps is always downgraded to PARTIAL; a changed tool keeps
its old profile; a chat completion that has to probe blocks the whole service; a stop on the
service's own page is reported as an error, since the handler that waits for `stop.sh` keeps
the service from ending, and takes effect once that has given up; a restart by the page while
an ask is in flight leaves the service down, since `stop.sh` gives up after five seconds
and `start.sh` hangs on its success.

Known divergences without a run. The models contain them, and the properties above make
no claim about them:

- A `create_chat` that is answered without an id stores that in the chat cache for good
  (`executor.py:68`): every later call of the tool opens a chat of its own, against
  `CHANGELOG.md:241`. In `ToolCalls` this is `StoreChat` with `None`.
- A DISTRIBUTED ask composes inside its step (`v2_executor.py:256`), so its text writes a
  status line outside of the think blocks and closes one too many, against `CHANGELOG.md:336`.
  `WellGrouped` says what that line promises, `StatusGrouped` what is kept.
- The prober's semaphores are those of an event loop, and each request thread has its own
  (`profiling.py:226`): two probes of one base URL have its limit each, and the executor has
  it once more, against `README.md:65` of the repository. `ProbeLimited` speaks of one probe.
- A second apply of the form says that no restart is required though the first one's still
  is, because the page compares with the file (`config_editor.py:264`), against the admin
  design, line 370. In `ConfigEditor`, `page` says "no" while `running` is not `disk`.
- A browser's TOOLS.md is refused for its CRLF line ends (`config.py:135`), though it would
  be read with others: `Valid` asks more of it than `Loads`.
- After the turn of the year the record that is loaded may be the old one (`OneYear`).
- `/ask/stream` starts the thread of the ask before it puts `initialize` on the queue, so
  that event need not be the first.

### Fairness

`ToolCalls`, `Profiling`: weak fairness of each call's or request's steps - a started
thread keeps running, and every HTTP request has a timeout, so it answers or raises.
Nothing is assumed of the semaphores' order beyond it: with limited permits that all
come back, and finitely many calls, no call waits for ever. `Ask`: weak fairness of the
whole - the ask's thread or its pool moves. `AskStream`: weak fairness of the reader
and of the ask's thread; a client is not obliged to leave, and new requests
(`Profiling`'s `Start`) are not obliged to come. `Probing`: weak fairness of each probe's
loop as a whole - a request has a timeout, a pause an end; that a probe ends rests on
the count of attempts, not on fairness to single questions. `Administration`: weak
fairness of each script, of a process that boots, of the end of asks and of exiting;
operators, new asks and crashes need not come. That a SIGTERM is noticed (`Drain`) is
strongly fair: asks may hold the loop again and again, but each time one lets go of it, what
is ready comes to its turn, for asyncio runs its callbacks first in, first out. A chat
completion that hangs never lets go, so nothing is assumed of a service it has got hold of,
and `SignalledEnds` and `RestartComesBack` leave it out by name. One assumption is about time:
`stop.sh` gives up (`Wait`) only on a service that has requests in flight or whose loop
waits for a script. An idle service ends within the ten polls.

## 4. The proofs

`ToolCallsProofs` proves, for any set of calls (finite), tools, URLs and any limit:
`TypeOK`, `RateLimited`, `PermitsReturned`, `OneChatPerTool` as invariants of `Spec`,
and, where creates are always answered with an id (`IdAlways`, which the run does not
assume), `ChatReused` with `FirstChatStays`: a call that looks for a chat once one is stored opens none, and the first one stored stays.
Calls that look before that may open several, of which one is kept.

None of the last three invariants is inductive. `RateLimited` needs the accounts of the semaphores:
a URL has one semaphore (`limiters`), a call holds the one of its URL, its permits and
the calls in flight on the URL always sum up to the limit, and while one is being built
(`install`) its builder holds the lock and no call on that URL is in flight. `IInv` is the
conjunction of these, of what `sem` and `chat` may hold at each `pc`, and of the
chat cache's agreement; lemmas prove each part's preservation (`LockStep`, `LimiterStep`,
`PermitStep`, `ChatStep`...), the cardinality steps rest on FiniteSetTheorems. The
assumptions are those of `CallAssumption`. From the same accounts follows that nobody
waits in vain (`NobodyWaitsInVain`): a call that waits for the lock waits for one that
is building a semaphore, and one that waits for a permit for one in flight on its own URL;
neither of these waits itself for a lock or a permit. This is the safety half of
`EveryCallReturns`.

`ProfilingProofs` proves, for any list of tools, any requests, targets and threads, and
any number of edits and restarts: `TypeOK`, `ReadyToPlan` and `ForceRefreshes`. The last two
speak of a request that is over and of what other requests may have done to the same
tools since, so the invariant follows each request through its list: the tools it has
passed are `Settled` for it (`Passed`), it stands where its `pc` says (`InPlace`), what it is
about to apply or save is there (`Ready`), and the set of changed tools is that of its own
scope (`OwnScope`). A request that takes no step keeps all this (`BystanderGood`) because no
step takes anything away (`Kept`, `StepKeeps`): a profile or a record, once there, stays until
a restart, and a restart leaves no request behind. The assumptions are
`ProfilingAssumption`. `ProbeOnLoopHangs` is what the run `probe_on_loop` finds, for all
instances: a chat completion that has to probe stays there, and no other request gets in,
until the service is restarted (`HangsForGood`, from who has the loop, `LoopHeld`).

`AskProofs` proves, for any tools, plans, limits, answers and pool sizes: `TypeOK`,
`StepBudget`, `NoCallLeftBehind`, `RecordsInOrder`, `SuccessIsBacked` and `BestShown`.
`StepBudget` needs that a DYNAMIC run which is about to take a later step was told to by its
last judgement (`ToldToGoOn`), and that a judgement says so only within the budget
(`RoomForMore`); `NoCallLeftBehind` that a call can only end while its step is being
collected. The other four are about sequences of any length. They are proved without
induction over data: what is wrong at some position is wrong at a least one (`Least`, from
the well-foundedness of `<`), and with `Rank` the items a loop has kept are numbered by
position (`Ranks` and the lemmas on `At`). In the same way the places of the sort number the
items it keeps, one each (`Places`, `SortedPlaces`), so what is shown is a beginning of the
sorted list that holds the first item of every source once (`FirstOfSource`, `ShownRight`).
The invariant is `ResultsInv`: the types, `RecordsInOrder` with the fact that no record is of
a later step (`NoLaterRecord`, so that a new step starts with none), `SuccessIsBacked` and
`BestShown`. Nothing is assumed of what an external service sends but its type.

Three more theorems of `AskProofs` speak of what the runs show on one instance.
`SeveralStepsAreDoubted` is the extent of the finding of `needs_more`: an ask with more than
one evaluation is downgraded for needing more steps *whatever* these say, so no such ask is
ever a SUCCESS; with at most one the reason is given exactly when it asks for more.
`StepsGoOn` is the safety half of `AskEnds`: while a step is collected, the next result is
there, or the pool can be left, or a worker is running a call. With `AskAdvances`, by which
every step brings the ask nearer to its end (another step within the budget, a later place
in the step, one more result, one call less), what is left to the run is fairness and that
an ask which waits for no call is never stuck (it checks for deadlock).

`ToolHealthProofs` proves, for any asks, tools, profile and threshold: `TypeOK`,
`StrategyAllowed`, `SelectionWasHealthy`, `FailuresAreReal` and `HealthIsExact`.
`FailuresAreReal` needs what an ask that is between read and write knows (`Covered`: the
count it has read is below the failures that have happened). `HealthIsExact` needs that
an update which met no other is the only one at its tool (`Undisturbed`) and how far the
count is behind the failures at each of its steps (`Behind`); a race spoils both, and
the next success that ends alone restores them. `SelectionWasHealthy` needs what each look
at a tool adds to those the route is trusted for (`Vouched`), and that the tools looked at
are those selected, which the code lists twice (`LookedAt`).

`ProbingProofs` proves, for any threads, tools, questions, attempts and limits:
`ProbingTypeOK`, `ProbeLimited`, `NothingStrays`, `WholeProfile` and `LatestIsNewest`. The
first group rests on what a stage allows its questions to be (`Staged`) and on the requests
in flight, which only `Send` adds to, in a slot that is free. `LatestIsNewest` holds in runs
of any length and across any number of years, but speaks only of a tool whose records are
of one year (`OneYear`): with that condition dropped it fails, because after the turn of the
year the order of the names is not that of time. It rests on `Stored`: where no writers
have met, an open file is the only one, empty, and the last by name (`Record`), and minutes
of one year are in the order of their names (`NamesInOrder`).
`ProbesGoOn` and `NothingAskedForEver` are the safety half of `ProbeEnds`: a running probe
is never stuck on its semaphore, because its questions share it with each other only, and
each step of a question lowers what it has to go (`ToGo`: three steps per attempt left).

`ServiceControlProofs` proves `TypeOK` and `FileNamesService` for any number of scripts and
processes, and of the finding of `own_stop` how far it goes (`OwnStop`): however scripts
overlap, a stop asked of the page of the very service it stops is never reported as done.
The PID file agrees with the processes only between scripts; `FileInv` says for each place
in a script what stands between (`Between`), as long as no two have overlapped. `OwnStop`
needs no such condition: without a crash the service that waits for a script keeps its port
(`WaitsUp`), so no script finds it dead.
`AdministrationProofs` shows that the composition implements `ServiceControl`
(`AdministrationControls`: `AdminSpec => Spec`) and `ConfigEditor` too
(`AdministrationComposes`), takes those results over (`AdministrationKeepsControl`), and
proves `AdminTypeOK` and `FilesLoad` for any administrators, ports and environments.
`FilesLoad` relates the two halves of an edit that are apart in the code: what is `Valid`
without an environment `Loads` in every one (`ValidLoads`), which is not so the other way
round; and as long as nothing crashed only the file that is being written may be empty, and
what is being written is valid (`WriteInv`), so that nothing but a crash leaves it empty.

`AskStreamProofs` proves, for any number of steps and calls: `TypeOK`, `NothingLost`,
`StatusGrouped`, and that `AskStream` implements `StreamContract` (`KeepsContract`). The
argument has three parts. `Delivery` is about the two threads: what the reader has taken is
the beginning of what the ask has said (`Owed`, which ends with the end-of-stream item),
and the queue holds the rest, with `initialize` anywhere in it (`Awaited`), since the thread
is started before it is put. `Telling` is about the ask alone: each event it emits may
follow those before it (`Legal`), because where the ask stands tells which stages are open
(`Progress`). What the reader takes next is therefore what the contract allows next.
`Grouping` and `Showing` are about the text: each event the ask emits finds the phase it
needs left by the one before it, on whichever side of `initialize` it falls; an error that
falls into an open phase closes it, and each event adds pieces that keep the text well
grouped when it is shown in that phase (`GoodShow`).
`Delivery` also gives `ReaderWaitsForMore`: a reader at an empty queue waits for an ask that
has not ended, the safety half of `StreamEnds`.

The assumptions are the named ASSUMEs of the modules; TLC evaluates each in a run.

Left to TLC: the liveness properties, whose fairness and ENABLED the prover cannot treat.
`NobodyWaitsInVain`, `StepsGoOn`, `ReaderWaitsForMore` and `ProbesGoOn` prove of four of
them that no waiting is in vain, `AskAdvances` and `NothingAskedForEver` that what is left
to do shrinks with every step; that the steps are then taken is what the runs check.
Every invariant and every action property of a passing run is proved.

## 5. Not modelled, and the plan

Not modelled because there is no behaviour over time to check: prompts and their
parsing, synthesis, reference lists, constant tables, the fields of the configuration,
authentication, the read-only admin pages and the audit log. The T3 and sequential runs
of the bounded executor and `StrategyExecutor.execute` are never reached from an
endpoint.

Abstractions worth knowing: ids of tools do not collide in file names (`RecordFiles`);
process ids are not reused (`ServiceControl`); a process loads its files and binds its port
in one step, though `main.py` loads them three times before it binds (lines 4, 9 and 17), so
an edit between these is not seen; the router looks at a strategy's tools in any order; the
limits of the prober and of the executor are separate, as they are in the code. The
repository's `README.md` also speaks of 3 questions per probe; the code asks
up to `max_questions` of the tool's set and all seven of a hybrid tool. The executors'
and probers' semaphores of closed event loops are never dropped from their caches: a
leak, but a harmless one, since a semaphore that is in use keeps its loop alive and an
id is not taken over by another loop.

Next, in this order:

1. the safety half of the remaining liveness properties (`ThreadedRequestsEnd`, the end of
   services that were told to stop): no state in which they are stuck;
2. the assumption that `Ask` makes of its calls, as a theorem: a step of `ToolCalls`, seen
   from one ask, is a `CallEnds` or nothing;
3. the text of the References section and `synthesis.py`, if it ever keeps state.
