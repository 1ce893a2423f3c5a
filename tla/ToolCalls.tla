------------------------------ MODULE ToolCalls ------------------------------
(***************************************************************************)
(* StrategyExecutor (executor.py): the calls that worker threads make to   *)
(* the RAG tools.  Every call takes a permit of the semaphore of its       *)
(* tool's base URL, a HybridRAG call then finds or opens the chat of its   *)
(* tool, asks its question and gives the permit back on every path.        *)
(*                                                                         *)
(* One executor is shared by all the asks of the process, so the calls     *)
(* below are those of one ask's thread pool and of concurrent asks alike.  *)
(*                                                                         *)
(* A semaphore is named by the call that built it and a chat by the call   *)
(* that opened it: both are fresh objects, at most one per call.           *)
(***************************************************************************)
EXTENDS Integers, FiniteSets

CONSTANTS
  Call,         \* the call_tool invocations
  Tool,         \* the tool ids of tools.yaml
  Url,          \* the base URLs, without their trailing slash
  ToolOf,       \* the tool a call is for
  UrlOf,        \* the base URL of a tool, or None (missing or empty)
  Hybrid,       \* the tools whose type is not external_mcp
  Limit,        \* runtime.rate_limit_per_base_url; no throttling unless > 0
  IdAlways,     \* TRUE: the chat service never answers a create without an id
  None,         \* Python's None, and the empty chat id: what "if cached" skips
  Absent        \* the tool id is not a key of _chat_cache

ASSUME CallAssumption ==
  /\ IsFiniteSet(Call)
  /\ ToolOf \in [Call -> Tool]
  /\ UrlOf \in [Tool -> Url \union {None}]
  /\ Hybrid \subseteq Tool
  /\ Limit \in Int
  /\ IdAlways \in BOOLEAN
  /\ None \notin Call \union Url
  /\ Absent \notin Call \union {None}

VARIABLES
  pc,           \* where each call stands
  lock,         \* the call inside "with self._rate_limit_lock", or None
  limiters,     \* _rate_limiters: URL -> semaphore or None
  sem,          \* the local "limiter" of each call
  permits,      \* the value of each semaphore that exists
  chatCache,    \* _chat_cache: tool -> chat id, None or Absent
  chat,         \* the local "chat_id" of each call
  result        \* "pending", then whether the step record has an error_code

vars == <<pc, lock, limiters, sem, permits, chatCache, chat, result>>

UrlOfCall(c) == UrlOf[ToolOf[c]]
Throttled(c) == UrlOfCall(c) # None /\ Limit > 0

\* Where a call goes once it may talk to its service (call_tool's dispatch).
Service(c) == IF ToolOf[c] \in Hybrid THEN "lookup" ELSE "query"

PC == {"ready", "limiter", "install", "acquire", "lookup", "create", "store",
       "send", "query", "release", "done"}

\* The calls between the two halves of the rate limiter's context manager.
InFlight(c) == pc[c] \in {"lookup", "create", "store", "send", "query", "release"}

Goto(c, to) == pc' = [pc EXCEPT ![c] = to]

-----------------------------------------------------------------------------
Init ==
  /\ pc = [c \in Call |-> "ready"]
  /\ lock = None
  /\ limiters = [u \in Url |-> None]
  /\ sem = [c \in Call |-> None]
  /\ permits = [c \in Call |-> 0]
  /\ chatCache = [t \in Tool |-> Absent]
  /\ chat = [c \in Call |-> None]
  /\ result = [c \in Call |-> "pending"]

\* A pool thread picks the call up; without a URL or a limit it is not throttled.
Start(c) ==
  /\ pc[c] = "ready"
  /\ Goto(c, IF Throttled(c) THEN "limiter" ELSE Service(c))
  /\ UNCHANGED <<lock, limiters, sem, permits, chatCache, chat, result>>

\* with _rate_limit_lock: the URL's semaphore is already there.
FindLimiter(c) ==
  /\ pc[c] = "limiter"
  /\ lock = None
  /\ limiters[UrlOfCall(c)] # None
  /\ sem' = [sem EXCEPT ![c] = limiters[UrlOfCall(c)]]
  /\ Goto(c, "acquire")
  /\ UNCHANGED <<lock, limiters, permits, chatCache, chat, result>>

\* with _rate_limit_lock: it is not; the lock is kept while one is built.
MissLimiterUnlocked(c) ==                              \* mutant: no lock
  /\ pc[c] = "limiter"
  /\ limiters[UrlOfCall(c)] = None
  /\ Goto(c, "install")
  /\ UNCHANGED <<lock, limiters, sem, permits, chatCache, chat, result>>

MissLimiter(c) ==
  /\ pc[c] = "limiter"
  /\ lock = None
  /\ limiters[UrlOfCall(c)] = None
  /\ lock' = c
  /\ Goto(c, "install")
  /\ UNCHANGED <<limiters, sem, permits, chatCache, chat, result>>

\* The new semaphore is stored under the URL and the lock released.
InstallLimiter(c) ==
  /\ pc[c] = "install"
  /\ limiters' = [limiters EXCEPT ![UrlOfCall(c)] = c]
  /\ permits' = [permits EXCEPT ![c] = Limit]
  /\ sem' = [sem EXCEPT ![c] = c]
  /\ lock' = None
  /\ Goto(c, "acquire")
  /\ UNCHANGED <<chatCache, chat, result>>

AcquireNoWait(c) ==                                    \* mutant: acquire(blocking=False)
  /\ pc[c] = "acquire"
  /\ permits' = [permits EXCEPT ![sem[c]] = @ - 1]
  /\ Goto(c, Service(c))
  /\ UNCHANGED <<lock, limiters, sem, chatCache, chat, result>>

\* limiter.acquire(): waits, without the lock, for a permit.
Acquire(c) ==
  /\ pc[c] = "acquire"
  /\ permits[sem[c]] > 0
  /\ permits' = [permits EXCEPT ![sem[c]] = @ - 1]
  /\ Goto(c, Service(c))
  /\ UNCHANGED <<lock, limiters, sem, chatCache, chat, result>>

\* _get_or_create_chat_id: the cached id is used if it is truthy.
LookupChat(c) ==
  /\ pc[c] = "lookup"
  /\ LET cached == chatCache[ToolOf[c]]
     IN  IF cached \in Call
         THEN chat' = [chat EXCEPT ![c] = cached] /\ Goto(c, "send")
         ELSE UNCHANGED chat /\ Goto(c, "create")
  /\ UNCHANGED <<lock, limiters, sem, permits, chatCache, result>>

\* create_chat, outside both locks: a new chat, or an answer without an id.
CreateChat(c) ==
  /\ pc[c] = "create"
  /\ \E id \in {c} \union IF IdAlways THEN {} ELSE {None} :
        chat' = [chat EXCEPT ![c] = id]
  /\ Goto(c, "store")
  /\ UNCHANGED <<lock, limiters, sem, permits, chatCache, result>>

\* _chat_cache.setdefault: the first id stored is the one every call uses.
StoreChatOverwrite(c) ==                               \* mutant: plain assignment
  /\ pc[c] = "store"
  /\ chatCache' = [chatCache EXCEPT ![ToolOf[c]] = chat[c]]
  /\ Goto(c, "send")
  /\ UNCHANGED <<lock, limiters, sem, permits, chat, result>>

StoreChat(c) ==
  /\ pc[c] = "store"
  /\ LET t    == ToolOf[c]
         kept == IF chatCache[t] = Absent THEN chat[c] ELSE chatCache[t]
     IN  /\ chatCache' = [chatCache EXCEPT ![t] = kept]
         /\ chat' = [chat EXCEPT ![c] = kept]
  /\ Goto(c, "send")
  /\ UNCHANGED <<lock, limiters, sem, permits, result>>

\* The tool answers: send_message of HybridRAG, query of an external tool.
Answered(c) ==
  /\ pc[c] \in {"send", "query"}
  /\ result' = [result EXCEPT ![c] = "ok"]
  /\ Goto(c, "release")
  /\ UNCHANGED <<lock, limiters, sem, permits, chatCache, chat>>

\* Any of the HTTP requests raises: status, timeout, malformed body.
Raises(c) ==
  /\ pc[c] \in {"create", "send", "query"}
  /\ result' = [result EXCEPT ![c] = "error"]
  /\ Goto(c, "release")
  /\ UNCHANGED <<lock, limiters, sem, permits, chatCache, chat>>

\* The context manager's finally, then the step record is returned.
ReleaseUnlessError(c) ==                               \* mutant: no finally
  /\ pc[c] = "release"
  /\ permits' = IF sem[c] = None \/ result[c] = "error" THEN permits
                ELSE [permits EXCEPT ![sem[c]] = @ + 1]
  /\ Goto(c, "done")
  /\ UNCHANGED <<lock, limiters, sem, chatCache, chat, result>>

Release(c) ==
  /\ pc[c] = "release"
  /\ permits' = IF sem[c] = None THEN permits
                ELSE [permits EXCEPT ![sem[c]] = @ + 1]
  /\ Goto(c, "done")
  /\ UNCHANGED <<lock, limiters, sem, chatCache, chat, result>>

-----------------------------------------------------------------------------
Step(c) ==
  \/ Start(c)
  \/ FindLimiter(c)
  \/ MissLimiter(c)
  \/ InstallLimiter(c)
  \/ Acquire(c)
  \/ LookupChat(c)
  \/ CreateChat(c)
  \/ StoreChat(c)
  \/ Answered(c)
  \/ Raises(c)
  \/ Release(c)

\* Every call has returned: nothing is left to do.
AllReturned ==
  /\ \A c \in Call : pc[c] = "done"
  /\ UNCHANGED vars

Next == (\E c \in Call : Step(c)) \/ AllReturned

\* A started thread keeps running, and every request ends: the HTTP clients
\* all have a timeout, so each one answers or raises.
Spec == Init /\ [][Next]_vars

FairSpec == Spec /\ \A c \in Call : WF_vars(Step(c))

-----------------------------------------------------------------------------
TypeOK ==
  /\ pc \in [Call -> PC]
  /\ lock \in Call \union {None}
  /\ limiters \in [Url -> Call \union {None}]
  /\ sem \in [Call -> Call \union {None}]
  /\ permits \in [Call -> Nat]
  /\ chatCache \in [Tool -> Call \union {None, Absent}]
  /\ chat \in [Call -> Call \union {None}]
  /\ result \in [Call -> {"pending", "ok", "error"}]

(* The README's "limits concurrent requests per tool base_url": never more   *)
(* than Limit calls talk to one base URL, whatever tools they are for and    *)
(* however the threads race to build the URL's semaphore (_rate_limit).      *)
RateLimited ==
  \A u \in Url :
    Limit > 0 =>
      Cardinality({c \in Call : UrlOfCall(c) = u /\ InFlight(c)}) <= Limit

(* No permit is lost or invented: when the last call on a URL has returned,  *)
(* its semaphore is back at its limit, failed requests included.             *)
PermitsReturned ==
  \A u \in Url :
    /\ limiters[u] # None
    /\ \A c \in Call : UrlOfCall(c) = u => pc[c] \in {"ready", "done"}
    => permits[limiters[u]] = Limit

(* Calls that raced to open the chat of a tool end up in the same one, the   *)
(* one the cache keeps, and never in the chat of another tool.               *)
OneChatPerTool ==
  \A c, d \in Call :
    /\ pc[c] = "send" /\ ToolOf[c] = ToolOf[d] 
    /\ \/ pc[d] = "send"
       \/ pc[d] \in {"release", "done"} /\ result[d] = "ok"
    => /\ chat[c] = chat[d]
       /\ chat[c] \in Call => ToolOf[chat[c]] = ToolOf[c]

(* Every call returns, failures and full semaphores notwithstanding: the ask *)
(* that waits for its futures is never left hanging.                         *)
EveryCallReturns == \A c \in Call : pc[c] = "ready" ~> pc[c] = "done"
=============================================================================
