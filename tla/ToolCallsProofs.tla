--------------------------- MODULE ToolCallsProofs ---------------------------
(***************************************************************************)
(* Proofs about ToolCalls: the rate limit, the return of every permit, the *)
(* agreement on one chat per tool and that no call waits in vain, for any  *)
(* number of calls, tools and URLs and any limit.                          *)
(***************************************************************************)
EXTENDS ToolCalls, FiniteSetTheorems, TLAPS

\* The calls a URL's semaphore has let through and not yet got back.
Holders(u) == {c \in Call : UrlOfCall(c) = u /\ InFlight(c)}

\* A call has left _rate_limit's critical section.
Past(c) == pc[c] \notin {"ready", "limiter", "install"}

\* The lock is held exactly while a URL without a semaphore gets one.
LockInv ==
  \A c \in Call : pc[c] = "install" =>
    /\ lock = c
    /\ limiters[UrlOfCall(c)] = None

\* One semaphore per URL, and every call of the URL waits on that one.
LimiterInv ==
  /\ \A u \in Url : limiters[u] # None =>
       /\ Limit > 0
       /\ UrlOfCall(limiters[u]) = u
       /\ Past(limiters[u])
  /\ \A c \in Call : Throttled(c) /\ Past(c) =>
       /\ limiters[UrlOfCall(c)] # None
       /\ sem[c] = limiters[UrlOfCall(c)]
  /\ \A c \in Call : ~Throttled(c) =>
       /\ sem[c] = None
       /\ pc[c] \notin {"limiter", "install", "acquire"}

\* Permits are conserved: the free ones and the ones taken make up the limit.
PermitInv ==
  \A u \in Url : limiters[u] # None =>
    permits[limiters[u]] + Cardinality(Holders(u)) = Limit

\* Where a call stands says which kind of tool it is for.
KindInv ==
  \A c \in Call :
    /\ pc[c] \in {"lookup", "create", "store", "send"} => ToolOf[c] \in Hybrid
    /\ pc[c] = "query" => ToolOf[c] \notin Hybrid
    /\ result[c] # "pending" => pc[c] \in {"release", "done"}

\* A chat that has been used is the one in the cache, and is the tool's own.
ChatInv ==
  /\ \A t \in Tool : chatCache[t] \in Call => ToolOf[chatCache[t]] = t
  /\ \A c \in Call : pc[c] = "store" => chat[c] \in {c, None}
  /\ \A c \in Call :
       pc[c] = "send" \/ (result[c] = "ok" /\ ToolOf[c] \in Hybrid)
         => chatCache[ToolOf[c]] # Absent /\ chat[c] = chatCache[ToolOf[c]]

\* If creates always return an id, only ids are ever stored.
IdInv ==
  IdAlways => /\ \A t \in Tool : chatCache[t] # None
              /\ \A c \in Call : pc[c] = "store" => chat[c] = c

IInv ==
  /\ TypeOK
  /\ LockInv
  /\ LimiterInv
  /\ PermitInv
  /\ KindInv
  /\ ChatInv
  /\ IdInv

-----------------------------------------------------------------------------
(* The initial state satisfies the invariant: nothing is held or cached.     *)
LEMMA InitIInv == Init => IInv
<1> SUFFICES ASSUME Init PROVE IInv
  OBVIOUS
<1> USE CallAssumption DEF Init
<1>1. TypeOK
  BY DEF TypeOK, PC
<1>2. LockInv /\ LimiterInv /\ PermitInv
  BY DEF LockInv, LimiterInv, PermitInv, Past, Throttled, UrlOfCall
<1>3. KindInv /\ ChatInv /\ IdInv
  BY DEF KindInv, ChatInv, IdInv
<1> QED
  BY <1>1, <1>2, <1>3 DEF IInv

(* Every step keeps the types; a permit is only taken when there is one.     *)
LEMMA TypeStep == IInv /\ [Next]_vars => TypeOK'
<1> SUFFICES ASSUME IInv, [Next]_vars PROVE TypeOK'
  OBVIOUS
<1> USE CallAssumption DEF IInv, TypeOK, PC, Goto, Service, Throttled, UrlOfCall
<1>1. ASSUME NEW c \in Call, Start(c) PROVE TypeOK'
  BY <1>1 DEF LimiterInv, Past, Start
<1>2. ASSUME NEW c \in Call, FindLimiter(c) PROVE TypeOK'
  BY <1>2 DEF LimiterInv, Past, FindLimiter
<1>3. ASSUME NEW c \in Call, MissLimiter(c) PROVE TypeOK'
  BY <1>3 DEF LimiterInv, Past, MissLimiter
<1>4. ASSUME NEW c \in Call, InstallLimiter(c) PROVE TypeOK'
  BY <1>4 DEF LimiterInv, Past, InstallLimiter
<1>5. ASSUME NEW c \in Call, Acquire(c) PROVE TypeOK'
  BY <1>5 DEF LimiterInv, Past, Acquire
<1>6. ASSUME NEW c \in Call, LookupChat(c) PROVE TypeOK'
  BY <1>6 DEF LimiterInv, Past, LookupChat
<1>7. ASSUME NEW c \in Call, CreateChat(c) PROVE TypeOK'
  BY <1>7 DEF LimiterInv, Past, CreateChat
<1>8. ASSUME NEW c \in Call, StoreChat(c) PROVE TypeOK'
  BY <1>8 DEF LimiterInv, Past, StoreChat
<1>9. ASSUME NEW c \in Call, Answered(c) PROVE TypeOK'
  BY <1>9 DEF LimiterInv, Past, Answered
<1>10. ASSUME NEW c \in Call, Raises(c) PROVE TypeOK'
  BY <1>10 DEF LimiterInv, Past, Raises
<1>11. ASSUME NEW c \in Call, Release(c) PROVE TypeOK'
  BY <1>11 DEF LimiterInv, Past, Release
<1>12. CASE UNCHANGED vars
  BY <1>12 DEF vars
<1> QED
  BY <1>1, <1>2, <1>3, <1>4, <1>5, <1>6, <1>7, <1>8, <1>9, <1>10, <1>11, <1>12 DEF Next, Step, AllReturned

(* The lock covers the look-up of a URL and the installation of its         *)
(* semaphore: no second call can be installing.                              *)
LEMMA LockStep == IInv /\ [Next]_vars => LockInv'
<1> SUFFICES ASSUME IInv, [Next]_vars PROVE LockInv'
  OBVIOUS
<1> USE CallAssumption DEF IInv, TypeOK, LockInv, PC, Goto, Service, Throttled, UrlOfCall
<1>1. ASSUME NEW c \in Call, Start(c) PROVE LockInv'
  BY <1>1 DEF Start
<1>2. ASSUME NEW c \in Call, FindLimiter(c) PROVE LockInv'
  BY <1>2 DEF FindLimiter
<1>3. ASSUME NEW c \in Call, MissLimiter(c) PROVE LockInv'
  BY <1>3 DEF MissLimiter
<1>4. ASSUME NEW c \in Call, InstallLimiter(c) PROVE LockInv'
  BY <1>4 DEF InstallLimiter
<1>5. ASSUME NEW c \in Call, Acquire(c) PROVE LockInv'
  BY <1>5 DEF Acquire
<1>6. ASSUME NEW c \in Call, LookupChat(c) PROVE LockInv'
  BY <1>6 DEF LookupChat
<1>7. ASSUME NEW c \in Call, CreateChat(c) PROVE LockInv'
  BY <1>7 DEF CreateChat
<1>8. ASSUME NEW c \in Call, StoreChat(c) PROVE LockInv'
  BY <1>8 DEF StoreChat
<1>9. ASSUME NEW c \in Call, Answered(c) PROVE LockInv'
  BY <1>9 DEF Answered
<1>10. ASSUME NEW c \in Call, Raises(c) PROVE LockInv'
  BY <1>10 DEF Raises
<1>11. ASSUME NEW c \in Call, Release(c) PROVE LockInv'
  BY <1>11 DEF Release
<1>12. CASE UNCHANGED vars
  BY <1>12 DEF vars
<1> QED
  BY <1>1, <1>2, <1>3, <1>4, <1>5, <1>6, <1>7, <1>8, <1>9, <1>10, <1>11, <1>12 DEF Next, Step, AllReturned

(* A URL never gets a second semaphore.                                      *)
LEMMA LimiterStep == IInv /\ [Next]_vars => LimiterInv'
<1> SUFFICES ASSUME IInv, [Next]_vars PROVE LimiterInv'
  OBVIOUS
<1> USE CallAssumption DEF IInv, TypeOK, LockInv, LimiterInv, Past, PC, Goto, Service, Throttled, UrlOfCall
<1>1. ASSUME NEW c \in Call, Start(c) PROVE LimiterInv'
  BY <1>1 DEF Start
<1>2. ASSUME NEW c \in Call, FindLimiter(c) PROVE LimiterInv'
  BY <1>2 DEF FindLimiter
<1>3. ASSUME NEW c \in Call, MissLimiter(c) PROVE LimiterInv'
  BY <1>3 DEF MissLimiter
<1>4. ASSUME NEW c \in Call, InstallLimiter(c) PROVE LimiterInv'
  BY <1>4 DEF InstallLimiter
<1>5. ASSUME NEW c \in Call, Acquire(c) PROVE LimiterInv'
  BY <1>5 DEF Acquire
<1>6. ASSUME NEW c \in Call, LookupChat(c) PROVE LimiterInv'
  BY <1>6 DEF LookupChat
<1>7. ASSUME NEW c \in Call, CreateChat(c) PROVE LimiterInv'
  BY <1>7 DEF CreateChat
<1>8. ASSUME NEW c \in Call, StoreChat(c) PROVE LimiterInv'
  BY <1>8 DEF StoreChat
<1>9. ASSUME NEW c \in Call, Answered(c) PROVE LimiterInv'
  BY <1>9 DEF Answered
<1>10. ASSUME NEW c \in Call, Raises(c) PROVE LimiterInv'
  BY <1>10 DEF Raises
<1>11. ASSUME NEW c \in Call, Release(c) PROVE LimiterInv'
  BY <1>11 DEF Release
<1>12. CASE UNCHANGED vars
  BY <1>12 DEF vars
<1> QED
  BY <1>1, <1>2, <1>3, <1>4, <1>5, <1>6, <1>7, <1>8, <1>9, <1>10, <1>11, <1>12 DEF Next, Step, AllReturned

(* HybridRAG calls walk the chat steps, external ones do not.                *)
LEMMA KindStep == IInv /\ [Next]_vars => KindInv'
<1> SUFFICES ASSUME IInv, [Next]_vars PROVE KindInv'
  OBVIOUS
<1> USE CallAssumption DEF IInv, TypeOK, KindInv, PC, Goto, Service
<1>1. ASSUME NEW c \in Call, Start(c) PROVE KindInv'
  BY <1>1 DEF Start
<1>2. ASSUME NEW c \in Call, FindLimiter(c) PROVE KindInv'
  BY <1>2 DEF FindLimiter
<1>3. ASSUME NEW c \in Call, MissLimiter(c) PROVE KindInv'
  BY <1>3 DEF MissLimiter
<1>4. ASSUME NEW c \in Call, InstallLimiter(c) PROVE KindInv'
  BY <1>4 DEF InstallLimiter
<1>5. ASSUME NEW c \in Call, Acquire(c) PROVE KindInv'
  BY <1>5 DEF Acquire
<1>6. ASSUME NEW c \in Call, LookupChat(c) PROVE KindInv'
  BY <1>6 DEF LookupChat
<1>7. ASSUME NEW c \in Call, CreateChat(c) PROVE KindInv'
  BY <1>7 DEF CreateChat
<1>8. ASSUME NEW c \in Call, StoreChat(c) PROVE KindInv'
  BY <1>8 DEF StoreChat
<1>9. ASSUME NEW c \in Call, Answered(c) PROVE KindInv'
  BY <1>9 DEF Answered
<1>10. ASSUME NEW c \in Call, Raises(c) PROVE KindInv'
  BY <1>10 DEF Raises
<1>11. ASSUME NEW c \in Call, Release(c) PROVE KindInv'
  BY <1>11 DEF Release
<1>12. CASE UNCHANGED vars
  BY <1>12 DEF vars
<1> QED
  BY <1>1, <1>2, <1>3, <1>4, <1>5, <1>6, <1>7, <1>8, <1>9, <1>10, <1>11, <1>12 DEF Next, Step, AllReturned

(* The cache keeps the first id stored for a tool.                           *)
LEMMA ChatStep == IInv /\ [Next]_vars => ChatInv'
<1> SUFFICES ASSUME IInv, [Next]_vars PROVE ChatInv'
  OBVIOUS
<1> USE CallAssumption DEF IInv, TypeOK, KindInv, ChatInv, PC, Goto, Service
<1>1. ASSUME NEW c \in Call, Start(c) PROVE ChatInv'
  BY <1>1 DEF Start
<1>2. ASSUME NEW c \in Call, FindLimiter(c) PROVE ChatInv'
  BY <1>2 DEF FindLimiter
<1>3. ASSUME NEW c \in Call, MissLimiter(c) PROVE ChatInv'
  BY <1>3 DEF MissLimiter
<1>4. ASSUME NEW c \in Call, InstallLimiter(c) PROVE ChatInv'
  BY <1>4 DEF InstallLimiter
<1>5. ASSUME NEW c \in Call, Acquire(c) PROVE ChatInv'
  BY <1>5 DEF Acquire
<1>6. ASSUME NEW c \in Call, LookupChat(c) PROVE ChatInv'
  BY <1>6 DEF LookupChat
<1>7. ASSUME NEW c \in Call, CreateChat(c) PROVE ChatInv'
  BY <1>7 DEF CreateChat
<1>8. ASSUME NEW c \in Call, StoreChat(c) PROVE ChatInv'
  BY <1>8 DEF StoreChat
<1>9. ASSUME NEW c \in Call, Answered(c) PROVE ChatInv'
  BY <1>9 DEF Answered
<1>10. ASSUME NEW c \in Call, Raises(c) PROVE ChatInv'
  BY <1>10 DEF Raises
<1>11. ASSUME NEW c \in Call, Release(c) PROVE ChatInv'
  BY <1>11 DEF Release
<1>12. CASE UNCHANGED vars
  BY <1>12 DEF vars
<1> QED
  BY <1>1, <1>2, <1>3, <1>4, <1>5, <1>6, <1>7, <1>8, <1>9, <1>10, <1>11, <1>12 DEF Next, Step, AllReturned

(* With ids in every answer no empty id reaches the cache.                   *)
LEMMA IdStep == IInv /\ [Next]_vars => IdInv'
<1> SUFFICES ASSUME IInv, [Next]_vars PROVE IdInv'
  OBVIOUS
<1> USE CallAssumption DEF IInv, TypeOK, IdInv, PC, Goto, Service
<1>1. ASSUME NEW c \in Call, Start(c) PROVE IdInv'
  BY <1>1 DEF Start
<1>2. ASSUME NEW c \in Call, FindLimiter(c) PROVE IdInv'
  BY <1>2 DEF FindLimiter
<1>3. ASSUME NEW c \in Call, MissLimiter(c) PROVE IdInv'
  BY <1>3 DEF MissLimiter
<1>4. ASSUME NEW c \in Call, InstallLimiter(c) PROVE IdInv'
  BY <1>4 DEF InstallLimiter
<1>5. ASSUME NEW c \in Call, Acquire(c) PROVE IdInv'
  BY <1>5 DEF Acquire
<1>6. ASSUME NEW c \in Call, LookupChat(c) PROVE IdInv'
  BY <1>6 DEF LookupChat
<1>7. ASSUME NEW c \in Call, CreateChat(c) PROVE IdInv'
  BY <1>7 DEF CreateChat
<1>8. ASSUME NEW c \in Call, StoreChat(c) PROVE IdInv'
  BY <1>8 DEF StoreChat
<1>9. ASSUME NEW c \in Call, Answered(c) PROVE IdInv'
  BY <1>9 DEF Answered
<1>10. ASSUME NEW c \in Call, Raises(c) PROVE IdInv'
  BY <1>10 DEF Raises
<1>11. ASSUME NEW c \in Call, Release(c) PROVE IdInv'
  BY <1>11 DEF Release
<1>12. CASE UNCHANGED vars
  BY <1>12 DEF vars
<1> QED
  BY <1>1, <1>2, <1>3, <1>4, <1>5, <1>6, <1>7, <1>8, <1>9, <1>10, <1>11, <1>12 DEF Next, Step, AllReturned

(* Holders is a set of calls, hence finite.                                  *)
LEMMA HoldersFinite ==
  \A u \in Url : IsFiniteSet(Holders(u)) /\ Cardinality(Holders(u)) \in Nat
BY CallAssumption, FS_Subset, FS_CardinalityType DEF Holders

(* A URL whose semaphore does not exist yet has let nobody through.          *)
LEMMA NobodyThrough ==
  ASSUME IInv, Limit > 0, NEW u \in Url, limiters[u] = None
  PROVE  Holders(u) = {}
BY CallAssumption DEF IInv, LimiterInv, Holders, InFlight, Past, Throttled

(* A step that neither enters nor leaves the region between acquire and      *)
(* release, and touches no semaphore, keeps the accounts.                    *)
LEMMA AccountsKept ==
  ASSUME PermitInv, UNCHANGED <<limiters, permits>>,
         \A c \in Call : InFlight(c)' <=> InFlight(c)
  PROVE  PermitInv'
<1>1. \A u \in Url : Holders(u)' = Holders(u)
  BY DEF Holders, UrlOfCall
<1> QED
  BY <1>1 DEF PermitInv

(* Every permit taken is one the accounts show: each action either leaves    *)
(* the semaphores alone, builds a full one, or moves one permit and one call.*)
LEMMA PermitStep == IInv /\ [Next]_vars => PermitInv'
<1> SUFFICES ASSUME IInv, [Next]_vars PROVE PermitInv'
  OBVIOUS
<1> USE CallAssumption DEF IInv, TypeOK, PC
<1>1. ASSUME NEW c \in Call, Start(c) PROVE PermitInv'
  <2>1. CASE Throttled(c)
    <3>1. \A d \in Call : InFlight(d)' <=> InFlight(d)
      BY <1>1, <2>1 DEF Start, Goto, InFlight
    <3> QED
      BY <1>1, <3>1, AccountsKept DEF Start
  <2>2. CASE ~Throttled(c)
    \* c is let through unthrottled: its URL, if it has one, has no semaphore
    <3>1. \A u \in Url : limiters[u] # None => UrlOfCall(c) # u
      BY <2>2 DEF LimiterInv, Throttled
    <3>2. \A u \in Url : limiters[u] # None => Holders(u)' = Holders(u)
      BY <1>1, <3>1 DEF Start, Goto, Holders, InFlight, UrlOfCall
    <3> QED
      BY <1>1, <3>2 DEF PermitInv, Start
  <2> QED
    BY <2>1, <2>2
<1>2. ASSUME NEW c \in Call, FindLimiter(c) PROVE PermitInv'
  <2>1. \A d \in Call : InFlight(d)' <=> InFlight(d)
    BY <1>2 DEF FindLimiter, Goto, InFlight
  <2> QED
    BY <1>2, <2>1, AccountsKept DEF FindLimiter
<1>3. ASSUME NEW c \in Call, MissLimiter(c) PROVE PermitInv'
  <2>1. \A d \in Call : InFlight(d)' <=> InFlight(d)
    BY <1>3 DEF MissLimiter, Goto, InFlight
  <2> QED
    BY <1>3, <2>1, AccountsKept DEF MissLimiter
<1>4. ASSUME NEW c \in Call, InstallLimiter(c) PROVE PermitInv'
  <2> DEFINE v == UrlOfCall(c)
  <2>1. v \in Url /\ Limit > 0 /\ limiters[v] = None /\ Throttled(c)
    BY <1>4 DEF LimiterInv, LockInv, InstallLimiter, Throttled, UrlOfCall
  <2>2. \A u \in Url : Holders(u)' = Holders(u)
    BY <1>4 DEF InstallLimiter, Goto, Holders, InFlight, UrlOfCall
  <2>3. Holders(v) = {}
    BY <2>1, NobodyThrough
  <2>4. permits'[limiters'[v]] + Cardinality(Holders(v)') = Limit
    <3>1. Holders(v)' = {}
      BY <2>1, <2>2, <2>3
    <3>2. permits'[limiters'[v]] = Limit
      BY <1>4, <2>1 DEF InstallLimiter
    <3> QED
      BY <3>1, <3>2, FS_EmptySet
  <2>5. ASSUME NEW u \in Url, u # v, limiters'[u] # None
        PROVE  permits'[limiters'[u]] + Cardinality(Holders(u)') = Limit
    <3>1. limiters'[u] = limiters[u] /\ limiters[u] # c /\ limiters[u] \in Call
      BY <1>4, <2>5 DEF InstallLimiter, LimiterInv, Past
    <3>2. permits'[limiters[u]] = permits[limiters[u]]
      BY <1>4, <3>1 DEF InstallLimiter
    <3> QED
      BY <2>2, <2>5, <3>1, <3>2 DEF PermitInv
  <2> QED
    BY <2>4, <2>5 DEF PermitInv
<1>5. ASSUME NEW c \in Call, Acquire(c) PROVE PermitInv'
  <2> DEFINE v == UrlOfCall(c)
  <2>1. v \in Url /\ limiters[v] # None /\ sem[c] = limiters[v] /\ sem[c] \in Call
    BY <1>5 DEF LimiterInv, Acquire, Throttled, Past, UrlOfCall
  <2>2. Holders(v)' = Holders(v) \union {c} /\ c \notin Holders(v)
    BY <1>5 DEF Acquire, Goto, Service, Holders, InFlight, UrlOfCall
  <2>3. Cardinality(Holders(v)') = Cardinality(Holders(v)) + 1
    BY <2>1, <2>2, HoldersFinite, FS_AddElement
  <2>4. permits'[limiters'[v]] = permits[limiters[v]] - 1
    BY <1>5, <2>1 DEF Acquire
  <2>5. permits'[limiters'[v]] + Cardinality(Holders(v)') = Limit
    BY <2>1, <2>3, <2>4, HoldersFinite DEF PermitInv
  <2>6. ASSUME NEW u \in Url, u # v, limiters'[u] # None
        PROVE  permits'[limiters'[u]] + Cardinality(Holders(u)') = Limit
    <3>1. Holders(u)' = Holders(u)
      BY <1>5, <2>6 DEF Acquire, Goto, Service, Holders, InFlight, UrlOfCall
    <3>2. limiters'[u] = limiters[u] /\ limiters[u] # sem[c]
      BY <1>5, <2>1, <2>6 DEF Acquire, LimiterInv
    <3>3. permits'[limiters[u]] = permits[limiters[u]]
      BY <1>5, <3>2 DEF Acquire
    <3> QED
      BY <2>6, <3>1, <3>2, <3>3 DEF PermitInv
  <2> QED
    BY <2>5, <2>6 DEF PermitInv
<1>6. ASSUME NEW c \in Call, LookupChat(c) PROVE PermitInv'
  <2>1. \A d \in Call : InFlight(d)' <=> InFlight(d)
    BY <1>6 DEF LookupChat, Goto, InFlight
  <2> QED
    BY <1>6, <2>1, AccountsKept DEF LookupChat
<1>7. ASSUME NEW c \in Call, CreateChat(c) PROVE PermitInv'
  <2>1. \A d \in Call : InFlight(d)' <=> InFlight(d)
    BY <1>7 DEF CreateChat, Goto, InFlight
  <2> QED
    BY <1>7, <2>1, AccountsKept DEF CreateChat
<1>8. ASSUME NEW c \in Call, StoreChat(c) PROVE PermitInv'
  <2>1. \A d \in Call : InFlight(d)' <=> InFlight(d)
    BY <1>8 DEF StoreChat, Goto, InFlight
  <2> QED
    BY <1>8, <2>1, AccountsKept DEF StoreChat
<1>9. ASSUME NEW c \in Call, Answered(c) PROVE PermitInv'
  <2>1. \A d \in Call : InFlight(d)' <=> InFlight(d)
    BY <1>9 DEF Answered, Goto, InFlight
  <2> QED
    BY <1>9, <2>1, AccountsKept DEF Answered
<1>10. ASSUME NEW c \in Call, Raises(c) PROVE PermitInv'
  <2>1. \A d \in Call : InFlight(d)' <=> InFlight(d)
    BY <1>10 DEF Raises, Goto, InFlight
  <2> QED
    BY <1>10, <2>1, AccountsKept DEF Raises
<1>11. ASSUME NEW c \in Call, Release(c) PROVE PermitInv'
  <2> DEFINE v == UrlOfCall(c)
  <2>1. \A u \in Url : u # v => Holders(u)' = Holders(u)
    BY <1>11 DEF Release, Goto, Holders, InFlight, UrlOfCall
  <2>2. CASE ~Throttled(c)
    <3>1. \A u \in Url : limiters[u] # None => u # v
      BY <2>2 DEF LimiterInv, Throttled
    <3>2. UNCHANGED <<permits, limiters>>
      BY <1>11, <2>2 DEF Release, LimiterInv
    <3> QED
      BY <2>1, <3>1, <3>2 DEF PermitInv
  <2>3. CASE Throttled(c)
    <3>1. v \in Url /\ limiters[v] # None /\ sem[c] = limiters[v] /\ sem[c] \in Call
      BY <1>11, <2>3 DEF LimiterInv, Release, Throttled, Past, UrlOfCall
    <3>2. Holders(v)' = Holders(v) \ {c} /\ c \in Holders(v)
      BY <1>11 DEF Release, Goto, Holders, InFlight, UrlOfCall
    <3>3. Cardinality(Holders(v)') = Cardinality(Holders(v)) - 1
      BY <3>1, <3>2, HoldersFinite, FS_RemoveElement
    <3>4. permits'[limiters'[v]] = permits[limiters[v]] + 1
      BY <1>11, <3>1 DEF Release
    <3>5. permits'[limiters'[v]] + Cardinality(Holders(v)') = Limit
      BY <3>1, <3>3, <3>4, HoldersFinite DEF PermitInv
    <3>6. ASSUME NEW u \in Url, u # v, limiters'[u] # None
          PROVE  permits'[limiters'[u]] + Cardinality(Holders(u)') = Limit
      <4>1. limiters'[u] = limiters[u] /\ limiters[u] # sem[c]
        BY <1>11, <3>1, <3>6 DEF Release, LimiterInv
      <4>2. permits'[limiters[u]] = permits[limiters[u]]
        BY <1>11, <3>1, <4>1 DEF Release
      <4> QED
        BY <2>1, <3>6, <4>1, <4>2 DEF PermitInv
    <3> QED
      BY <3>5, <3>6 DEF PermitInv
  <2> QED
    BY <2>2, <2>3
<1>12. CASE UNCHANGED vars
  <2>1. \A d \in Call : InFlight(d)' <=> InFlight(d)
    BY <1>12 DEF vars, InFlight
  <2> QED
    BY <1>12, <2>1, AccountsKept DEF vars
<1> QED
  BY <1>1, <1>2, <1>3, <1>4, <1>5, <1>6, <1>7, <1>8, <1>9, <1>10, <1>11, <1>12
  DEF Next, Step, AllReturned

-----------------------------------------------------------------------------
(* IInv is an inductive invariant of the calls.                              *)
THEOREM Invariance == Spec => []IInv
<1>1. IInv /\ [Next]_vars => IInv'
  <2> SUFFICES ASSUME IInv, [Next]_vars PROVE IInv'
    OBVIOUS
  <2> QED
    BY TypeStep, LockStep, LimiterStep, PermitStep, KindStep, ChatStep, IdStep
    DEF IInv
<1> QED
  BY InitIInv, <1>1, PTL DEF Spec

(* Every variable keeps its type; in particular no semaphore goes below 0.   *)
THEOREM TypeCorrect == Spec => []TypeOK
<1>1. IInv => TypeOK
  BY DEF IInv
<1> QED
  BY Invariance, <1>1, PTL

(* At most Limit requests are out to a base URL, for every number of calls.  *)
THEOREM RateLimit == Spec => []RateLimited
<1>1. IInv => RateLimited
  <2> SUFFICES ASSUME IInv, NEW u \in Url, Limit > 0
               PROVE  Cardinality(Holders(u)) <= Limit
    BY DEF RateLimited, Holders
  <2>1. CASE limiters[u] = None
    BY <2>1, NobodyThrough, FS_EmptySet, CallAssumption
  <2>2. CASE limiters[u] # None
    <3>1. permits[limiters[u]] \in Nat
      BY <2>2 DEF IInv, TypeOK
    <3>2. permits[limiters[u]] + Cardinality(Holders(u)) = Limit
      BY <2>2 DEF IInv, PermitInv
    <3> QED
      BY <3>1, <3>2, HoldersFinite, CallAssumption
  <2> QED
    BY <2>1, <2>2
<1> QED
  BY Invariance, <1>1, PTL

(* When a URL is idle its semaphore is full again, whatever failed before.   *)
THEOREM PermitsBack == Spec => []PermitsReturned
<1>1. IInv => PermitsReturned
  <2> SUFFICES ASSUME IInv, NEW u \in Url, limiters[u] # None,
                      \A c \in Call : UrlOfCall(c) = u => pc[c] \in {"ready", "done"}
               PROVE  permits[limiters[u]] = Limit
    BY DEF PermitsReturned
  <2>1. Holders(u) = {}
    BY DEF Holders, InFlight
  <2>2. permits[limiters[u]] \in Nat
    BY DEF IInv, TypeOK
  <2> QED
    BY <2>1, <2>2, FS_EmptySet, CallAssumption DEF IInv, PermitInv
<1> QED
  BY Invariance, <1>1, PTL

(* All the calls of a tool talk in one chat, and it is a chat of that tool.  *)
THEOREM ChatAgreement == Spec => []OneChatPerTool
<1>1. IInv => OneChatPerTool
  BY CallAssumption DEF IInv, TypeOK, KindInv, ChatInv, OneChatPerTool
<1> QED
  BY Invariance, <1>1, PTL

\* A call that looks for its tool's chat after one was stored does not open another.
ChatReused ==
  [][\A c \in Call :
       pc[c] = "lookup" /\ chatCache[ToolOf[c]] # Absent
         => pc'[c] # "create"]_vars

\* What is stored for a tool is its chat for good.
FirstChatStays ==
  [][\A t \in Tool : chatCache[t] # Absent => chatCache'[t] = chatCache[t]]_vars

(* Where the service always returns an id, the first chat stored for a tool  *)
(* is its chat for good, and no call that looks for one afterwards opens     *)
(* another (_get_or_create_chat_id).  Calls that look before it is stored    *)
(* may each open one, and all but the first are dropped.                     *)
THEOREM ChatReuse == ASSUME IdAlways PROVE Spec => ChatReused /\ FirstChatStays
<1> DEFINE Reused == \A c \in Call :
             pc[c] = "lookup" /\ chatCache[ToolOf[c]] # Absent
               => pc'[c] # "create"
<1>1. IInv /\ [Next]_vars => [Reused]_vars
  <2> SUFFICES ASSUME IInv, [Next]_vars, NEW c \in Call, pc[c] = "lookup",
                      chatCache[ToolOf[c]] # Absent
               PROVE  pc'[c] # "create"
    OBVIOUS
  <2>1. chatCache[ToolOf[c]] \in Call
    BY IdAlways, CallAssumption DEF IInv, TypeOK, IdInv
  <2>2. ASSUME NEW d \in Call, Step(d), d # c PROVE pc'[c] = pc[c]
    BY <2>2 DEF Step, Start, FindLimiter, MissLimiter, InstallLimiter, Acquire,
       LookupChat, CreateChat, StoreChat, Answered, Raises, Release, Goto,
       IInv, TypeOK
  <2>3. ASSUME Step(c) PROVE pc'[c] = "send"
    BY <2>1, <2>3 DEF Step, Start, FindLimiter, MissLimiter, InstallLimiter,
       Acquire, LookupChat, CreateChat, StoreChat, Answered, Raises, Release,
       Goto, IInv, TypeOK
  <2> QED
    BY <2>2, <2>3 DEF Next, AllReturned, vars
<1> DEFINE Stays == \A t \in Tool : chatCache[t] # Absent => chatCache'[t] = chatCache[t]
<1>2. IInv /\ [Next]_vars => [Stays]_vars
  <2> SUFFICES ASSUME IInv, [Next]_vars, NEW t \in Tool, chatCache[t] # Absent
               PROVE  chatCache'[t] = chatCache[t]
    OBVIOUS
  <2>1. ASSUME NEW c \in Call, StoreChat(c) PROVE chatCache'[t] = chatCache[t]
    BY <2>1 DEF StoreChat, IInv, TypeOK
  <2>2. ASSUME NEW c \in Call, Step(c), ~StoreChat(c) PROVE chatCache' = chatCache
    BY <2>2 DEF Step, Start, FindLimiter, MissLimiter, InstallLimiter, Acquire,
       LookupChat, CreateChat, Answered, Raises, Release
  <2> QED
    BY <2>1, <2>2 DEF Next, AllReturned, vars
<1> QED
  BY Invariance, <1>1, <1>2, PTL DEF Spec, ChatReused, FirstChatStays

-----------------------------------------------------------------------------
\* The lock is only ever kept by a call that is building a semaphore.
LockHeld == lock # None => pc[lock] = "install"

\* What waits does so on a call that waits for nothing: the lock on one that is
\* building a semaphore, a permit on one of its own URL that is talking.
NoVainWait ==
  /\ lock # None => pc[lock] = "install"
  /\ \A c \in Call : pc[c] = "acquire" /\ permits[sem[c]] = 0 =>
       \E d \in Call : UrlOfCall(d) = UrlOfCall(c) /\ InFlight(d)

(* Whoever gets on keeps or leaves the lock as it should be.                 *)
LEMMA LockHeldStep == IInv /\ LockHeld /\ [Next]_vars => LockHeld'
<1> SUFFICES ASSUME IInv, LockHeld, [Next]_vars PROVE LockHeld'
  OBVIOUS
<1> USE CallAssumption DEF IInv, TypeOK, LockHeld, Goto
<1>1. ASSUME NEW c \in Call, MissLimiter(c) PROVE LockHeld'
  BY <1>1 DEF MissLimiter
<1>2. ASSUME NEW c \in Call, InstallLimiter(c) PROVE LockHeld'
  BY <1>2 DEF InstallLimiter
<1>3. ASSUME NEW c \in Call, pc[c] # "install", UNCHANGED lock,
             \A d \in Call : d # c => pc'[d] = pc[d]
      PROVE  LockHeld'
  BY <1>3
<1>4. ASSUME NEW c \in Call, Start(c) \/ FindLimiter(c) \/ Acquire(c) PROVE LockHeld'
  BY <1>3, <1>4 DEF Start, FindLimiter, Acquire
<1>5. ASSUME NEW c \in Call, LookupChat(c) \/ CreateChat(c) \/ StoreChat(c) PROVE LockHeld'
  BY <1>3, <1>5 DEF LookupChat, CreateChat, StoreChat
<1>6. ASSUME NEW c \in Call, Answered(c) \/ Raises(c) \/ Release(c) PROVE LockHeld'
  BY <1>3, <1>6 DEF Answered, Raises, Release
<1>7. CASE UNCHANGED vars
  BY <1>7 DEF vars
<1> QED
  BY <1>1, <1>2, <1>4, <1>5, <1>6, <1>7 DEF Next, Step, AllReturned

(* No set of calls ever waits for one another, for any limit above 0 and any *)
(* number of threads: who waits for the lock waits for a call that needs     *)
(* nothing to leave it, and who waits for a permit for a call of its own URL *)
(* that has one and waits only for its service (_rate_limit).                *)
THEOREM NobodyWaitsInVain == Spec => []NoVainWait
<1>1. Init => LockHeld
  BY DEF Init, LockHeld
<1>2. Spec => []LockHeld
  BY <1>1, LockHeldStep, Invariance, PTL DEF Spec
<1>3. IInv /\ LockHeld => NoVainWait
  <2> SUFFICES ASSUME IInv, NEW c \in Call, pc[c] = "acquire", permits[sem[c]] = 0
               PROVE  Holders(UrlOfCall(c)) # {}
    BY DEF NoVainWait, LockHeld, Holders
  <2>1. Throttled(c) /\ UrlOfCall(c) \in Url
    BY CallAssumption DEF IInv, LimiterInv, Throttled, UrlOfCall
  <2>2. limiters[UrlOfCall(c)] # None /\ sem[c] = limiters[UrlOfCall(c)]
    BY <2>1 DEF IInv, LimiterInv, Past
  <2>3. 0 + Cardinality(Holders(UrlOfCall(c))) = Limit
    BY <2>1, <2>2 DEF IInv, PermitInv
  <2>4. Limit > 0 /\ Limit \in Int
    BY <2>1, CallAssumption DEF Throttled
  <2> QED
    BY <2>3, <2>4, FS_EmptySet
<1> QED
  BY <1>2, <1>3, Invariance, PTL
=============================================================================
