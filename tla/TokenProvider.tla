---------------------------- MODULE TokenProvider ----------------------------
(***************************************************************************)
(* The translator token cache (src/src/agent/translator_token_provider.py) *)
(* that model requests and MCP calls share: a token is fetched when the    *)
(* cached one is missing or about to expire, and callers that find it so   *)
(* at the same time share one fetch (get_token checks, takes the lock and  *)
(* checks again).  The translator issues a token somewhere inside the HTTP *)
(* request and does not say until when it is valid; the provider counts    *)
(* TokenTtl from the moment it has read the response.  The timeout of the  *)
(* request is httpx's: it limits each network operation (a connect, one    *)
(* read of the response), not the request.                                 *)
(*                                                                         *)
(* Time is in ticks of the event loop's clock.  The translator and the     *)
(* network are external.                                                   *)
(***************************************************************************)
EXTENDS Integers

CONSTANTS
    Callers,         \* tasks that call get_token, again and again
    Nobody,          \* the lock is free
    TokenTtl,        \* token_ttl_seconds, also the lifetime the translator gives
    RefreshBefore,   \* refresh_before_expiry_seconds
    RequestTimeout,  \* request_timeout_seconds
    MaxReads,        \* in how many reads, at most, a response arrives after the issue
    MaxTime          \* bound: the clock stops there

ASSUME NobodyAssumption == Nobody \notin Callers
\* The validators of TokenAuthSettings.
ASSUME SettingsAssumption ==
    /\ TokenTtl \in Nat \ {0} /\ RefreshBefore \in Nat
    /\ RefreshBefore < TokenTtl
    /\ RequestTimeout \in Nat \ {0}
ASSUME MaxReadsAssumption == MaxReads \in Nat \ {0}
ASSUME MaxTimeAssumption == MaxTime \in Nat

VARIABLES
    now,      \* the clock
    cached,   \* _token, by the tick it was issued at, and _expires_at
    lock,     \* the caller inside `async with self._lock`
    request,  \* the fetch in flight: since when its network operation waits, when the
              \* token was issued (external), and the reads that ended since then
    pc,       \* where each caller stands
    handed    \* history: the last token each caller got, and when

vars == <<now, cached, lock, request, pc, handed>>

Never == -1      \* no token, no time

TypeOK ==
    /\ now \in 0 .. MaxTime
    /\ cached \in [issued : -1 .. MaxTime, expiresAt : 0 .. (MaxTime + TokenTtl)]
    /\ lock \in Callers \cup {Nobody}
    /\ request \in [since : -1 .. MaxTime, issued : -1 .. MaxTime, reads : 0 .. MaxReads]
    /\ pc \in [Callers -> {"idle", "waiting", "fetching"}]
    /\ handed \in [Callers -> [issued : -1 .. MaxTime, at : 0 .. MaxTime]]

NoRequest == [since |-> Never, issued |-> Never, reads |-> 0]

Init ==
    /\ now = 0
    /\ cached = [issued |-> Never, expiresAt |-> 0]
    /\ lock = Nobody
    /\ request = NoRequest
    /\ pc = [c \in Callers |-> "idle"]
    /\ handed = [c \in Callers |-> [issued |-> Never, at |-> 0]]
-----------------------------------------------------------------------------
(* Mutants: definitions below with a plausible bug in them, in no specification. *)

\* Usable without the safety window.
NotExpired == cached.issued # Never /\ now < cached.expiresAt

\* StartFetch without the check inside the lock.
FetchUnchecked(c) ==
    /\ pc[c] = "waiting"
    /\ lock = Nobody
    /\ lock' = c
    /\ request' = [NoRequest EXCEPT !.since = now]
    /\ pc' = [pc EXCEPT ![c] = "fetching"]
    /\ UNCHANGED <<now, cached, handed>>

\* StoreToken counting the lifetime in milliseconds.
StoreMillis(c) ==
    /\ pc[c] = "fetching"
    /\ request.issued # Never
    /\ cached' = [issued |-> request.issued, expiresAt |-> now + TokenTtl * 1000]
    /\ handed' = [handed EXCEPT ![c] = [issued |-> request.issued, at |-> now]]
    /\ lock' = Nobody
    /\ request' = NoRequest
    /\ pc' = [pc EXCEPT ![c] = "idle"]
    /\ UNCHANGED now

\* FetchFails with the lock still held.
FailLocked(c) ==
    /\ pc[c] = "fetching"
    /\ request' = NoRequest
    /\ pc' = [pc EXCEPT ![c] = "idle"]
    /\ UNCHANGED <<now, cached, lock, handed>>
-----------------------------------------------------------------------------
\* _is_usable
Usable == cached.issued # Never /\ now < cached.expiresAt - RefreshBefore

Hand(c, issued) == handed' = [handed EXCEPT ![c] = [issued |-> issued, at |-> now]]

\* The first check: the cached token is returned with no await.
UseCached(c) ==
    /\ pc[c] = "idle"
    /\ Usable
    /\ Hand(c, cached.issued)
    /\ UNCHANGED <<now, cached, lock, request, pc>>

WaitForLock(c) ==
    /\ pc[c] = "idle"
    /\ ~Usable
    /\ pc' = [pc EXCEPT ![c] = "waiting"]
    /\ UNCHANGED <<now, cached, lock, request, handed>>

\* The second check, inside the lock: another caller has fetched meanwhile.
UseFetched(c) ==
    /\ pc[c] = "waiting"
    /\ lock = Nobody
    /\ Usable
    /\ Hand(c, cached.issued)
    /\ pc' = [pc EXCEPT ![c] = "idle"]
    /\ UNCHANGED <<now, cached, lock, request>>

StartFetch(c) ==
    /\ pc[c] = "waiting"
    /\ lock = Nobody
    /\ ~Usable
    /\ lock' = c
    /\ request' = [NoRequest EXCEPT !.since = now]
    /\ pc' = [pc EXCEPT ![c] = "fetching"]
    /\ UNCHANGED <<now, cached, handed>>

Leave(c) ==
    /\ lock' = Nobody
    /\ request' = NoRequest
    /\ pc' = [pc EXCEPT ![c] = "idle"]

\* _refresh: _expires_at counts from now, not from the request.
StoreToken(c) ==
    /\ pc[c] = "fetching"
    /\ request.issued # Never
    /\ cached' = [issued |-> request.issued, expiresAt |-> now + TokenTtl]
    /\ Hand(c, request.issued)
    /\ Leave(c)
    /\ UNCHANGED now

\* A timeout of one operation, an HTTP error or an unusable body; or the caller is
\* cancelled.  The
\* cached token stays as it was.
FetchFails(c) ==
    /\ pc[c] = "fetching"
    /\ Leave(c)
    /\ UNCHANGED <<now, cached, handed>>

CancelWait(c) ==
    /\ pc[c] = "waiting"
    /\ pc' = [pc EXCEPT ![c] = "idle"]
    /\ UNCHANGED <<now, cached, lock, request, handed>>
-----------------------------------------------------------------------------
\* The translator issues the token of the request in flight.
Issue ==
    /\ request.since # Never
    /\ request.issued = Never
    /\ request' = [request EXCEPT !.issued = now]
    /\ UNCHANGED <<now, cached, lock, pc, handed>>

\* post_json: one network operation has ended in time, the next begins with a timeout of
\* its own.
NextRead ==
    /\ request.since # Never
    /\ \/ request.issued = Never /\ request' = [request EXCEPT !.since = now]
       \/ /\ request.issued # Never /\ request.reads + 1 < MaxReads
          /\ request' = [request EXCEPT !.since = now, !.reads = @ + 1]
    /\ UNCHANGED <<now, cached, lock, pc, handed>>

\* An operation that does not end within the timeout fails before time goes on.
Tick ==
    /\ now < MaxTime
    /\ request.since # Never => now < request.since + RequestTimeout
    /\ now' = now + 1
    /\ UNCHANGED <<cached, lock, request, pc, handed>>

Take(c) == UseFetched(c) \/ StartFetch(c)
Fetch(c) == StoreToken(c) \/ FetchFails(c)

Next ==
    \/ \E c \in Callers : \/ UseCached(c) \/ WaitForLock(c) \/ CancelWait(c)
                          \/ Take(c) \/ Fetch(c)
    \/ Issue \/ NextRead \/ Tick

\* A fetch ends: each operation by its timeout at the latest, and a response has an end.
\* asyncio.Lock wakes its waiters in order, so a waiter is not overtaken for ever.
Spec == Init /\ [][Next]_vars
             /\ \A c \in Callers : WF_vars(Fetch(c)) /\ SF_vars(Take(c))
-----------------------------------------------------------------------------
(* Properties. *)

\* get_token, "Return a valid token": when a caller gets a token, the translator
\* still accepts it, although the provider counts its lifetime from the response.  It
\* holds as long as the safety window is no shorter than the reads of a response may take
\* together; the request timeout alone does not see to that.
HandedTokenIsValid ==
    \A c \in Callers :
        handed[c].issued # Never => handed[c].at < handed[c].issued + TokenTtl

\* Callers that find the token stale at the same moment share one fetch: while a
\* fetch is in flight the cache holds nothing usable, so none is needless.
FetchOnlyWhenStale == request.since # Never => ~Usable

\* A caller that waits for another caller's fetch gets a token or an error, even
\* when that fetch fails or its caller is cancelled.
WaiterIsServed == \A c \in Callers : pc[c] # "idle" ~> pc[c] = "idle"
=============================================================================
