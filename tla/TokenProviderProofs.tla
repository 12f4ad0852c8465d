------------------------- MODULE TokenProviderProofs -------------------------
(***************************************************************************)
(* Proofs about TokenProvider, for any set of callers and any settings the *)
(* validators accept.  A token that is handed out is still valid when the  *)
(* reads of a response together take at most the safety window, which      *)
(* neither the validators nor the timeout of the request ensure: with the  *)
(* defaults (3 s, and a window of 5 s) two slow reads are already longer.  *)
(***************************************************************************)
EXTENDS TokenProvider, TLAPS

\* One fetch at a time: the request in flight is the lock holder's.
FetchIsLocked ==
    /\ request.since # Never <=> lock # Nobody
    /\ \A c \in Callers : pc[c] = "fetching" <=> lock = c

\* The operation in progress is within its timeout, and it began no later than the
\* earlier reads of the response allow.
RequestIsFresh ==
    /\ request.since # Never => /\ request.since <= now
                                /\ now <= request.since + RequestTimeout
    /\ request.issued # Never => /\ request.since # Never
                                 /\ request.issued <= now
                                 /\ request.reads < MaxReads
                                 /\ request.since <=
                                       request.issued + request.reads * RequestTimeout
    /\ request.issued = Never => request.reads = 0

\* The provider overestimates a token's lifetime by the time its response took.
CacheIsBounded ==
    cached.issued # Never =>
        cached.expiresAt <= cached.issued + MaxReads * RequestTimeout + TokenTtl

IInv == /\ TypeOK
        /\ FetchIsLocked
        /\ RequestIsFresh
        /\ CacheIsBounded
        /\ FetchOnlyWhenStale
-----------------------------------------------------------------------------
\* The empty cache satisfies the invariant.
LEMMA InitInvariant ==
  ASSUME Init
  PROVE  IInv
BY NobodyAssumption, SettingsAssumption, MaxReadsAssumption, MaxTimeAssumption
   DEF Init, IInv, TypeOK, FetchIsLocked, RequestIsFresh, CacheIsBounded,
       FetchOnlyWhenStale, NoRequest, Never

\* The operation that begins: since when it waits, the other fields but the count as before.
LEMMA ReadBegins ==
  ASSUME TypeOK, NextRead
  PROVE  /\ request' = [since |-> now, issued |-> request.issued, reads |-> request'.reads]
         /\ request.since # Never
         /\ request.issued = Never => request'.reads = request.reads
         /\ request.issued # Never => /\ request.reads + 1 < MaxReads
                                      /\ request'.reads = request.reads + 1
<1>1. request = [since |-> request.since, issued |-> request.issued, reads |-> request.reads]
  BY DEF TypeOK
<1>2. CASE request.issued = Never
  <2>1. request' = [request EXCEPT !.since = now] /\ request.since # Never
    BY <1>2 DEF NextRead
  <2>2. QED BY <1>1, <1>2, <2>1
<1>3. CASE request.issued # Never
  <2>1. /\ request' = [request EXCEPT !.since = now, !.reads = @ + 1]
        /\ request.since # Never /\ request.reads + 1 < MaxReads
    BY <1>3 DEF NextRead
  <2>2. QED BY <1>1, <1>3, <2>1
<1>4. QED BY <1>2, <1>3

\* Type correctness is preserved.
LEMMA TypeStep ==
  ASSUME TypeOK, [Next]_vars
  PROVE  TypeOK'
<1> USE SettingsAssumption, MaxReadsAssumption, MaxTimeAssumption DEF TypeOK, Never
<1>1. ASSUME NEW c \in Callers, UseCached(c) PROVE TypeOK'
  BY <1>1 DEF UseCached, Hand
<1>2. ASSUME NEW c \in Callers, WaitForLock(c) \/ CancelWait(c) PROVE TypeOK'
  BY <1>2 DEF WaitForLock, CancelWait
<1>3. ASSUME NEW c \in Callers, UseFetched(c) PROVE TypeOK'
  BY <1>3 DEF UseFetched, Hand
<1>4. ASSUME NEW c \in Callers, StartFetch(c) PROVE TypeOK'
  BY <1>4 DEF StartFetch, NoRequest
<1>5. ASSUME NEW c \in Callers, StoreToken(c) PROVE TypeOK'
  BY <1>5 DEF StoreToken, Hand, Leave, NoRequest
<1>6. ASSUME NEW c \in Callers, FetchFails(c) PROVE TypeOK'
  BY <1>6 DEF FetchFails, Leave, NoRequest
<1>7. CASE Issue
  BY <1>7 DEF Issue
<1>8. CASE NextRead
  <2>1. request'.reads \in 0 .. MaxReads
    BY <1>8, ReadBegins
  <2>2. request' \in [since : -1 .. MaxTime, issued : -1 .. MaxTime, reads : 0 .. MaxReads]
    BY <1>8, <2>1, ReadBegins
  <2>3. QED BY <1>8, <2>2 DEF NextRead
<1>9. CASE Tick
  BY <1>9 DEF Tick
<1>10. CASE UNCHANGED vars
  BY <1>10 DEF vars
<1>11. QED
  BY <1>1, <1>2, <1>3, <1>4, <1>5, <1>6, <1>7, <1>8, <1>9, <1>10 DEF Next, Take, Fetch

\* A fetch starts and ends together with the lock: there is one at a time.
LEMMA LockStep ==
  ASSUME TypeOK, FetchIsLocked, [Next]_vars
  PROVE  FetchIsLocked'
<1> USE NobodyAssumption, MaxReadsAssumption, MaxTimeAssumption DEF TypeOK, FetchIsLocked, Never
<1>1. ASSUME NEW c \in Callers, UseCached(c) \/ WaitForLock(c) \/ CancelWait(c)
      PROVE FetchIsLocked'
  BY <1>1 DEF UseCached, WaitForLock, CancelWait
<1>2. ASSUME NEW c \in Callers, UseFetched(c) PROVE FetchIsLocked'
  BY <1>2 DEF UseFetched
<1>3. ASSUME NEW c \in Callers, StartFetch(c) PROVE FetchIsLocked'
  BY <1>3 DEF StartFetch, NoRequest
<1>4. ASSUME NEW c \in Callers, StoreToken(c) \/ FetchFails(c) PROVE FetchIsLocked'
  BY <1>4 DEF StoreToken, FetchFails, Leave, NoRequest
<1>5. CASE Issue \/ NextRead \/ Tick \/ UNCHANGED vars
  <2>1. UNCHANGED <<lock, pc>>
    BY <1>5 DEF Issue, NextRead, Tick, vars
  <2>2. request.since # Never <=> request'.since # Never
    <3>1. CASE Issue BY <3>1 DEF Issue
    <3>2. CASE NextRead BY <3>2, ReadBegins
    <3>3. CASE Tick \/ UNCHANGED vars BY <3>3 DEF Tick, vars
    <3>4. QED BY <1>5, <3>1, <3>2, <3>3
  <2>3. QED BY <2>1, <2>2
<1>6. QED
  BY <1>1, <1>2, <1>3, <1>4, <1>5 DEF Next, Take, Fetch

\* As many reads, each as long as the timeout.
LEMMA OneMoreRead ==
  ASSUME NEW reads \in Nat, NEW limit \in Nat, reads < limit, NEW timeout \in Nat
  PROVE  /\ reads * timeout \in Nat
         /\ (reads + 1) * timeout = reads * timeout + timeout
         /\ reads * timeout + timeout <= limit * timeout
<1>1. (reads + 1) * timeout = reads * timeout + timeout
  OBVIOUS
<1>2. PICK more \in Nat : limit = (reads + 1) + more
  <2>1. limit - (reads + 1) \in Nat /\ limit = (reads + 1) + (limit - (reads + 1))
    OBVIOUS
  <2>2. QED BY <2>1
<1>3. limit * timeout = (reads + 1) * timeout + more * timeout /\ more * timeout \in Nat
  BY <1>2
<1>4. QED
  BY <1>1, <1>3

\* The times of the request and of the cache stay within their bounds.
LEMMA TimesStep ==
  ASSUME TypeOK, RequestIsFresh, CacheIsBounded, [Next]_vars
  PROVE  RequestIsFresh' /\ CacheIsBounded'
<1> USE SettingsAssumption, MaxReadsAssumption, MaxTimeAssumption
    DEF TypeOK, RequestIsFresh, CacheIsBounded, Never
<1>0. RequestTimeout \in Nat /\ MaxReads \in Nat /\ request.reads \in Nat
  OBVIOUS
<1>1. ASSUME NEW c \in Callers, UseCached(c) \/ WaitForLock(c) \/ CancelWait(c)
                                  \/ UseFetched(c)
      PROVE  RequestIsFresh' /\ CacheIsBounded'
  BY <1>1 DEF UseCached, WaitForLock, CancelWait, UseFetched
<1>2. ASSUME NEW c \in Callers, StartFetch(c)
      PROVE  RequestIsFresh' /\ CacheIsBounded'
  BY <1>2 DEF StartFetch, NoRequest
<1>3. ASSUME NEW c \in Callers, StoreToken(c)
      PROVE  RequestIsFresh' /\ CacheIsBounded'
  <2>1. cached' = [issued |-> request.issued, expiresAt |-> now + TokenTtl]
        /\ request' = NoRequest /\ request.issued # Never
    BY <1>3 DEF StoreToken, Leave
  <2>2. now <= request.issued + request.reads * RequestTimeout + RequestTimeout
    <3>1. request.reads * RequestTimeout \in Nat
      BY <2>1, OneMoreRead, <1>0
    <3>2. QED BY <2>1, <3>1
  <2>3. now <= request.issued + MaxReads * RequestTimeout
    <3>1. /\ request.reads * RequestTimeout \in Nat
          /\ request.reads * RequestTimeout + RequestTimeout <= MaxReads * RequestTimeout
      BY <2>1, OneMoreRead, <1>0
    <3>2. MaxReads * RequestTimeout \in Nat
      OBVIOUS
    <3>3. QED BY <2>1, <2>2, <3>1, <3>2
  <2>4. CacheIsBounded'
    <3>1. MaxReads * RequestTimeout \in Nat
      OBVIOUS
    <3>2. QED BY <2>1, <2>3, <3>1
  <2>5. RequestIsFresh'
    BY <2>1 DEF NoRequest
  <2>6. QED BY <2>4, <2>5
<1>4. ASSUME NEW c \in Callers, FetchFails(c)
      PROVE  RequestIsFresh' /\ CacheIsBounded'
  BY <1>4 DEF FetchFails, Leave, NoRequest
<1>5. CASE Issue
  <2>1. request.reads = 0 /\ 0 * RequestTimeout = 0
    BY <1>5 DEF Issue
  <2>2. QED BY <1>5, <2>1 DEF Issue
<1>6. CASE NextRead
  <2>1. CASE request.issued = Never
    BY <1>6, <2>1 DEF NextRead
  <2>2. CASE request.issued # Never
    <3>1. request' = [request EXCEPT !.since = now, !.reads = @ + 1]
          /\ request.reads + 1 < MaxReads /\ UNCHANGED <<now, cached>>
      BY <1>6, <2>2 DEF NextRead
    <3>2. /\ request.reads * RequestTimeout \in Nat
          /\ (request.reads + 1) * RequestTimeout
                = request.reads * RequestTimeout + RequestTimeout
      BY <2>2, OneMoreRead, <1>0
    <3>3. now <= request.issued + (request.reads + 1) * RequestTimeout
      BY <2>2, <3>2
    <3>4. QED BY <2>2, <3>1, <3>3
  <2>3. QED BY <2>1, <2>2
<1>7. CASE Tick
  BY <1>7 DEF Tick
<1>8. CASE UNCHANGED vars
  BY <1>8 DEF vars
<1>9. QED
  BY <1>1, <1>2, <1>3, <1>4, <1>5, <1>6, <1>7, <1>8 DEF Next, Take, Fetch

\* A stale token stays stale until a fetch ends.
LEMMA StaleStep ==
  ASSUME TypeOK, FetchIsLocked, FetchOnlyWhenStale, [Next]_vars
  PROVE  FetchOnlyWhenStale'
<1> USE SettingsAssumption, MaxReadsAssumption, MaxTimeAssumption DEF TypeOK, FetchOnlyWhenStale, Usable, Never
<1>1. ASSUME NEW c \in Callers, UseCached(c) \/ WaitForLock(c) \/ CancelWait(c)
                                  \/ UseFetched(c) \/ StartFetch(c)
      PROVE  FetchOnlyWhenStale'
  BY <1>1 DEF UseCached, WaitForLock, CancelWait, UseFetched, StartFetch, NoRequest
<1>2. ASSUME NEW c \in Callers, StoreToken(c) \/ FetchFails(c)
      PROVE  FetchOnlyWhenStale'
  BY <1>2 DEF StoreToken, FetchFails, Leave, NoRequest
<1>3. CASE Issue \/ NextRead \/ UNCHANGED vars
  BY <1>3 DEF Issue, NextRead, vars
<1>4. CASE Tick
  BY <1>4 DEF Tick
<1>5. QED
  BY <1>1, <1>2, <1>3, <1>4 DEF Next, Take, Fetch

\* A token is handed out from the cache within its window, or straight from the
\* response within the time its reads may take.
LEMMA HandedStep ==
  ASSUME IInv, HandedTokenIsValid, MaxReads * RequestTimeout <= RefreshBefore, [Next]_vars
  PROVE  HandedTokenIsValid'
<1> USE SettingsAssumption, MaxReadsAssumption, MaxTimeAssumption
    DEF IInv, TypeOK, HandedTokenIsValid, Never
<1>0. MaxReads * RequestTimeout \in Nat
  OBVIOUS
<1>1. ASSUME NEW c \in Callers, UseCached(c) \/ UseFetched(c)
      PROVE  HandedTokenIsValid'
  <2>1. now < cached.issued + TokenTtl
    BY <1>0, <1>1 DEF UseCached, UseFetched, Usable, CacheIsBounded
  <2>2. QED
    BY <1>1, <2>1 DEF UseCached, UseFetched, Hand
<1>2. ASSUME NEW c \in Callers, StoreToken(c)
      PROVE  HandedTokenIsValid'
  <2>1. CacheIsBounded'
    BY TimesStep
  <2>2. now < request.issued + TokenTtl
    BY <1>0, <1>2, <2>1 DEF StoreToken, CacheIsBounded
  <2>3. QED
    BY <1>2, <2>2 DEF StoreToken, Hand
<1>3. CASE UNCHANGED handed
  BY <1>3
<1>4. QED
  BY <1>1, <1>2, <1>3 DEF Next, Take, Fetch, WaitForLock, CancelWait, StartFetch,
     FetchFails, Issue, NextRead, Tick, vars

\* The inductive invariant holds in every reachable state, for every setting the
\* validators accept.
THEOREM Invariance == Spec => []IInv
<1>1. IInv /\ [Next]_vars => IInv'
  BY TypeStep, LockStep, TimesStep, StaleStep DEF IInv
<1>2. QED
  BY InitInvariant, <1>1, PTL DEF Spec

\* The cache, the clock and every caller keep their types.
THEOREM TypeCorrect == Spec => []TypeOK
<1>1. IInv => TypeOK
  BY DEF IInv
<1>2. QED
  BY <1>1, Invariance, PTL

\* While a fetch is in flight the cache holds nothing usable: callers share it.
THEOREM FetchesAreShared == Spec => []FetchOnlyWhenStale
<1>1. IInv => FetchOnlyWhenStale
  BY DEF IInv
<1>2. QED
  BY <1>1, Invariance, PTL

\* Every token handed out is still accepted by the translator, as long as the reads of
\* a response, each within the request timeout, take no longer than the safety window.
THEOREM TokensAreValid ==
  ASSUME MaxReads * RequestTimeout <= RefreshBefore
  PROVE  Spec => []HandedTokenIsValid
<1>1. Init => HandedTokenIsValid
  BY DEF Init, HandedTokenIsValid, Never
<1>2. IInv /\ HandedTokenIsValid /\ [Next]_vars => HandedTokenIsValid'
  BY HandedStep
<1>3. QED
  BY <1>1, <1>2, Invariance, PTL DEF Spec
=============================================================================
