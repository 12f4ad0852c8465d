----------------------------- MODULE McpManager -----------------------------
(***************************************************************************)
(* The MCP connection manager (src/src/mcp_runtime/mcp_client_manager.py   *)
(* with the sessions of mcp_client.py): startup connects every server and  *)
(* freezes its Tool contract; afterwards concurrent Tool calls share one   *)
(* session per server, and a call that meets a transport failure replaces  *)
(* the session under the server's lock and is tried once more.             *)
(*                                                                         *)
(* asyncio is cooperative: the code between two awaits is one step.  The   *)
(* MCP servers and the network are external: a server may stop, restart    *)
(* (which ends every session) and come back with other Tools, or fall      *)
(* silent, so that it takes requests and does not answer them.             *)
(***************************************************************************)
EXTENDS Naturals, FiniteSets

CONSTANTS
    Servers,     \* enabled MCP servers
    Callers,     \* agent tasks that call Tools, one call at a time each
    Sessions,    \* bound: McpClient objects; one is reused when nothing holds it
    None,        \* "no client", "nobody"
    Offers,      \* the sets of Tool schemas a server may offer
    Incomplete,  \* the offer that lacks an allowlisted Tool
    MaxRestarts  \* bound: how often servers stop or fall silent

ASSUME NoneAssumption == None \notin Servers \cup Callers \cup Sessions \cup Offers
ASSUME IncompleteAssumption == Incomplete \in Offers
ASSUME MaxRestartsAssumption == MaxRestarts \in Nat

VARIABLES
    manager,    \* start() and close(): new, starting, ready, failed, closed
    clients,    \* _clients: the session stored for each server
    contract,   \* _tool_definitions: the Tool contract of each server
    lock,       \* _locks: the caller inside `async with lock`
    booting,    \* the session start() is connecting, or None
    session,    \* the state of each McpClient
    call,       \* each caller's local variables
    server,     \* external: is the server up, does it answer, and what does it offer?
    restarts    \* external: how often servers stopped or fell silent

state == <<manager, clients, contract, lock, booting, session, call>>
vars == <<manager, clients, contract, lock, booting, session, call, server, restarts>>
-----------------------------------------------------------------------------
\* gone: not created yet, or closed.  abandoned: its owner was cancelled before anyone
\* called close().  unclosed: close() raised or was cancelled, and may have left it open.
SessionStates == {"gone", "connecting", "open", "closing", "abandoned", "unclosed"}
Outcomes == {"none", "ok", "tool_failed", "unavailable", "token_error", "cancelled"}
Phases == {"idle", "refresh", "calling", "waiting", "closing", "creating",
           "connecting", "retrying"}
Locked == {"closing", "creating", "connecting"}

TypeOK ==
    /\ manager \in {"new", "starting", "ready", "failed", "closed"}
    /\ clients \in [Servers -> Sessions \cup {None}]
    /\ contract \in [Servers -> Offers \cup {None}]
    /\ lock \in [Servers -> Callers \cup {None}]
    /\ booting \in Sessions \cup {None}
    /\ session \in [Sessions -> [state : SessionStates,
                                 of : Servers \cup {None},
                                 alive : BOOLEAN]]
    /\ call \in [Callers -> [pc : Phases,
                             server : Servers \cup {None},
                             client : Sessions \cup {None},
                             fresh : Sessions \cup {None},
                             sent : 0 .. 2,
                             ran : 0 .. 2,
                             outcome : Outcomes]]
    /\ server \in [Servers -> [up : BOOLEAN, silent : BOOLEAN, offers : Offers]]
    /\ restarts \in 0 .. MaxRestarts

\* A session that was closed, or is not there yet.
Gone == [state |-> "gone", of |-> None, alive |-> FALSE]

Init ==
    /\ manager = "new"
    /\ clients = [s \in Servers |-> None]
    /\ contract = [s \in Servers |-> None]
    /\ lock = [s \in Servers |-> None]
    /\ booting = None
    /\ session = [c \in Sessions |-> Gone]
    /\ call = [r \in Callers |-> [pc |-> "idle", server |-> None, client |-> None,
                                  fresh |-> None, sent |-> 0, ran |-> 0,
                                  outcome |-> "none"]]
    /\ server \in [Servers -> [up : {TRUE}, silent : {FALSE}, offers : Offers]]
    /\ restarts = 0
-----------------------------------------------------------------------------
\* A session nothing refers to any more stands for the next McpClient object.
Unheld(c) ==
    /\ session[c].state = "gone"
    /\ \A r \in Callers : call[r].client # c /\ call[r].fresh # c
NextSession == CHOOSE c \in Sessions : Unheld(c)
SessionAvailable == \E c \in Sessions : Unheld(c)

WithState(c, st) == [session EXCEPT ![c].state = st]
End(c) == [session EXCEPT ![c] = Gone]
NewSession(c, s) == [session EXCEPT ![c] = [state |-> "connecting", of |-> s, alive |-> TRUE]]

Usable(c) == session[c].state = "open" /\ session[c].alive

\* connect() and list_tools() succeed and every allowlisted Tool is offered.
CanDiscover(s, c) ==
    /\ server[s].up /\ ~server[s].silent
    /\ session[c].alive
    /\ server[s].offers # Incomplete

(* Mutants: definitions below with a plausible bug in them, in no specification. *)

\* StoreSession following every schema change.
StoreNewest(s, c) ==
    /\ contract' = [contract EXCEPT ![s] = server[s].offers]
    /\ clients' = [clients EXCEPT ![s] = c]
    /\ session' = WithState(c, "open")

\* SkipReconnect retrying without the comparison of the sessions.
SkipAlways(r) ==
    /\ call[r].pc = "waiting"
    /\ lock[call[r].server] = None
    /\ clients[call[r].server] # None
    /\ call' = [call EXCEPT ![r].pc = "retrying", ![r].fresh = clients[call[r].server]]
    /\ UNCHANGED <<manager, clients, contract, lock, booting, session, server, restarts>>

\* Disconnect forgetting to close the failed client, and forgetting to pop it.
DisconnectUnclosed(r) ==
    LET s == call[r].server
    IN  /\ call[r].pc = "waiting"
        /\ lock[s] = None
        /\ clients[s] = call[r].client
        /\ lock' = [lock EXCEPT ![s] = r]
        /\ clients' = [clients EXCEPT ![s] = None]
        /\ call' = [call EXCEPT ![r].pc = "creating"]
        /\ UNCHANGED <<manager, contract, booting, session, server, restarts>>
DisconnectUnpopped(r) ==
    LET s == call[r].server
    IN  /\ call[r].pc = "waiting"
        /\ lock[s] = None
        /\ clients[s] = call[r].client
        /\ lock' = [lock EXCEPT ![s] = r]
        /\ session' = WithState(call[r].client, "closing")
        /\ call' = [call EXCEPT ![r].pc = "closing"]
        /\ UNCHANGED <<manager, clients, contract, booting, server, restarts>>

\* A call that ends with the lock still held: by a failed creation, by a cancel.
FailLocked(r) ==
    /\ call[r].pc = "creating"
    /\ call' = [call EXCEPT ![r].pc = "idle", ![r].server = None, ![r].client = None,
                            ![r].outcome = "unavailable"]
    /\ UNCHANGED <<manager, clients, contract, lock, booting, session, server, restarts>>
CancelLocked(r) ==
    /\ call[r].pc # "idle"
    /\ session' = CASE call[r].pc = "closing" -> WithState(call[r].client, "unclosed")
                    [] call[r].pc = "connecting" -> WithState(call[r].fresh, "abandoned")
                    [] OTHER -> session
    /\ call' = [call EXCEPT ![r].pc = "idle", ![r].server = None, ![r].client = None,
                            ![r].fresh = None, ![r].outcome = "cancelled"]
    /\ UNCHANGED <<manager, clients, contract, lock, booting, server, restarts>>

\* DiscoverFails leaving the new client open.
DiscoverUnclosed(r) ==
    /\ call[r].pc = "connecting"
    /\ lock' = [lock EXCEPT ![call[r].server] = None]
    /\ call' = [call EXCEPT ![r].pc = "idle", ![r].server = None, ![r].client = None,
                            ![r].fresh = None, ![r].outcome = "unavailable"]
    /\ UNCHANGED <<manager, clients, contract, booting, session, server, restarts>>

\* RetryTool reconnecting again for as long as the connection breaks.
RetryForever(r, ran, reply) ==
    /\ call[r].pc = "retrying"
    /\ reply = "broken"
    /\ ran = 0
    /\ call' = [call EXCEPT ![r].pc = "waiting", ![r].client = call[r].fresh,
                            ![r].fresh = None, ![r].sent = @ + 1]
    /\ UNCHANGED <<manager, clients, contract, lock, booting, session, server, restarts>>
-----------------------------------------------------------------------------
\* The end of _connect_and_discover: a changed schema keeps the old contract.
StoreSession(s, c) ==
    /\ contract' = IF contract[s] # None /\ contract[s] # server[s].offers
                   THEN contract
                   ELSE [contract EXCEPT ![s] = server[s].offers]
    /\ clients' = [clients EXCEPT ![s] = c]
    /\ session' = WithState(c, "open")

(* start() *)

StartManager ==
    /\ manager = "new"
    /\ manager' = "starting"
    /\ UNCHANGED <<clients, contract, lock, booting, session, call, server, restarts>>

BootConnect(s) ==
    /\ manager = "starting"
    /\ booting = None
    /\ clients[s] = None
    /\ SessionAvailable
    /\ booting' = NextSession
    /\ session' = NewSession(NextSession, s)
    /\ UNCHANGED <<manager, clients, contract, lock, call, server, restarts>>

BootDiscover ==
    /\ booting # None
    /\ CanDiscover(session[booting].of, booting)
    /\ StoreSession(session[booting].of, booting)
    /\ booting' = None
    /\ UNCHANGED <<manager, lock, call, server, restarts>>

\* close(): clear the dictionary, then close every client that was in it.  A close that
\* raises is logged.
CloseAll(open) ==
    /\ clients' = [s \in Servers |-> None]
    /\ \E unclosed \in SUBSET open :
          session' = [c \in Sessions |->
              CASE c \in unclosed        -> [session[c] EXCEPT !.state = "unclosed"]
                [] c \in open \ unclosed -> Gone
                [] OTHER                -> session[c]]

Stored == {c \in Sessions : \E s \in Servers : clients[s] = c}

\* A server that cannot be connected or discovered ends the start: its own
\* client, if there is one yet, is closed, then all others.
BootFail ==
    /\ manager = "starting"
    /\ \E s \in Servers : clients[s] = None
    /\ manager' = "failed"
    /\ booting' = None
    /\ CloseAll(Stored \cup {booting})
    /\ UNCHANGED <<contract, lock, call, server, restarts>>

BootReady ==
    /\ manager = "starting"
    /\ booting = None
    /\ \A s \in Servers : clients[s] # None
    /\ manager' = "ready"
    /\ UNCHANGED <<clients, contract, lock, booting, session, call, server, restarts>>

\* close() at shutdown; the HTTP server has drained its requests by then.
Shutdown ==
    /\ manager = "ready"
    /\ \A r \in Callers : call[r].pc = "idle"
    /\ manager' = "closed"
    /\ CloseAll(Stored)
    /\ UNCHANGED <<contract, lock, booting, call, server, restarts>>
-----------------------------------------------------------------------------
(* call_tool() *)

Goto(r, pc) == call' = [call EXCEPT ![r].pc = pc]

\* The call is over; of its local variables only the outcome is left.
Over(c, outcome) == [c EXCEPT !.pc = "idle", !.server = None, !.client = None,
                              !.fresh = None, !.outcome = outcome]
Finish(r, outcome) == call' = [call EXCEPT ![r] = Over(@, outcome)]

Unlock(r) == lock' = [lock EXCEPT ![call[r].server] = None]

\* _is_allowlisted_tool holds of every Tool the agent registered at startup.
BeginCall(r, s) ==
    /\ manager = "ready"
    /\ call[r].pc = "idle"
    /\ contract[s] # None
    /\ call' = [call EXCEPT ![r] =
           IF clients[s] = None
           THEN [@ EXCEPT !.sent = 0, !.ran = 0, !.outcome = "unavailable"]
           ELSE [pc |-> "refresh", server |-> s, client |-> clients[s], fresh |-> None,
                 sent |-> 0, ran |-> 0, outcome |-> "none"]]
    /\ UNCHANGED <<manager, clients, contract, lock, booting, session, server, restarts>>

\* _refresh_dsp_headers; it stands outside the try block.
RefreshHeaders(r) ==
    /\ call[r].pc = "refresh"
    /\ Goto(r, "calling")
    /\ UNCHANGED <<manager, clients, contract, lock, booting, session, server, restarts>>

RefreshFails(r) ==
    /\ call[r].pc = "refresh"
    /\ Finish(r, "token_error")
    /\ UNCHANGED <<manager, clients, contract, lock, booting, session, server, restarts>>

\* Did the request reach the Tool, and what came back?  An answer needs a live
\* session and a server that answers; a timeout or a broken connection may come after
\* the Tool ran.
Answers(r, c, ran, reply) ==
    /\ ran = 1 => Usable(c)
    /\ reply \in {"result", "tool_error"} => ran = 1 /\ ~server[call[r].server].silent
    /\ reply = "broken" \/ reply = "other_error" \/ Usable(c)

Attempt(r, ran) == [call EXCEPT ![r].sent = @ + 1, ![r].ran = @ + ran]

\* The first attempt.  reply: a result; an error the Tool or the SDK reported;
\* one of _RECONNECTABLE_ERRORS, the timeout included.
CallTool(r, ran, reply) ==
    /\ call[r].pc = "calling"
    /\ Answers(r, call[r].client, ran, reply)
    /\ call' = [Attempt(r, ran) EXCEPT ![r] =
           CASE reply = "broken" -> [@ EXCEPT !.pc = "waiting"]
             [] reply = "result" -> Over(@, "ok")
             [] OTHER -> Over(@, "tool_failed")]
    /\ UNCHANGED <<manager, clients, contract, lock, booting, session, server, restarts>>

\* The retry starts on a session; the code gets here without another await.
RetryOn(r, c) == call' = [call EXCEPT ![r].pc = "retrying", ![r].fresh = c]

\* _reconnect: take the lock; another caller changed the session meanwhile, so
\* the retry runs on whatever _client_for finds now, which may be nothing.
SkipReconnect(r) ==
    LET s == call[r].server
    IN  /\ call[r].pc = "waiting"
        /\ lock[s] = None
        /\ clients[s] # call[r].client
        /\ IF clients[s] = None THEN Finish(r, "unavailable") ELSE RetryOn(r, clients[s])
        /\ UNCHANGED <<manager, clients, contract, lock, booting, session, server, restarts>>

\* _disconnect: the client is popped before it is closed.
Disconnect(r) ==
    LET s == call[r].server
    IN  /\ call[r].pc = "waiting"
        /\ lock[s] = None
        /\ clients[s] = call[r].client
        /\ lock' = [lock EXCEPT ![s] = r]
        /\ clients' = [clients EXCEPT ![s] = None]
        /\ session' = WithState(call[r].client, "closing")
        /\ Goto(r, "closing")
        /\ UNCHANGED <<manager, contract, booting, server, restarts>>

CloseFailed(r) ==
    /\ call[r].pc = "closing"
    /\ session' = End(call[r].client)
    /\ Goto(r, "creating")
    /\ UNCHANGED <<manager, clients, contract, lock, booting, server, restarts>>

\* close() raises: the error ends the reconnect and the call.
CloseRaises(r) ==
    /\ call[r].pc = "closing"
    /\ session' = WithState(call[r].client, "unclosed")
    /\ Unlock(r)
    /\ Finish(r, "unavailable")
    /\ UNCHANGED <<manager, clients, contract, booting, server, restarts>>

\* _create_client; resolving its headers may fail before a client exists.
CreateClient(r) ==
    /\ call[r].pc = "creating"
    /\ SessionAvailable
    /\ session' = NewSession(NextSession, call[r].server)
    /\ call' = [call EXCEPT ![r].pc = "connecting", ![r].fresh = NextSession]
    /\ UNCHANGED <<manager, clients, contract, lock, booting, server, restarts>>

CreateFails(r) ==
    /\ call[r].pc = "creating"
    /\ Unlock(r)
    /\ Finish(r, "unavailable")
    /\ UNCHANGED <<manager, clients, contract, booting, session, server, restarts>>

Discover(r) ==
    LET s == call[r].server
    IN  /\ call[r].pc = "connecting"
        /\ CanDiscover(s, call[r].fresh)
        /\ StoreSession(s, call[r].fresh)
        /\ Unlock(r)
        /\ RetryOn(r, call[r].fresh)
        /\ UNCHANGED <<manager, booting, server, restarts>>

\* Connection or discovery fails: the new client is closed, nothing is stored.  A close
\* that raises is logged.
DiscoverFails(r) ==
    /\ call[r].pc = "connecting"
    /\ session' \in {End(call[r].fresh), WithState(call[r].fresh, "unclosed")}
    /\ Unlock(r)
    /\ Finish(r, "unavailable")
    /\ UNCHANGED <<manager, clients, contract, booting, server, restarts>>

\* The second attempt; whatever fails now is MCP_UNAVAILABLE.
RetryTool(r, ran, reply) ==
    /\ call[r].pc = "retrying"
    /\ Answers(r, call[r].fresh, ran, reply)
    /\ call' = [Attempt(r, ran) EXCEPT ![r] =
           Over(@, IF reply = "result" THEN "ok" ELSE "unavailable")]
    /\ UNCHANGED <<manager, clients, contract, lock, booting, session, server, restarts>>

\* The agent stream that made the call is cancelled: `async with` releases the
\* lock, but `except Exception` does not see the cancellation, so the session that was
\* being connected stays as it is and nothing refers to it.
Cancel(r) ==
    LET pc == call[r].pc
    IN  /\ pc # "idle"
        /\ session' = CASE pc = "closing" -> WithState(call[r].client, "unclosed")
                        [] pc = "connecting" -> WithState(call[r].fresh, "abandoned")
                        [] OTHER -> session
        /\ IF pc \in Locked THEN Unlock(r) ELSE UNCHANGED lock
        /\ Finish(r, "cancelled")
        /\ UNCHANGED <<manager, clients, contract, booting, server, restarts>>
-----------------------------------------------------------------------------
(* The servers. *)

Stop(s) ==
    /\ server[s].up
    /\ restarts < MaxRestarts
    /\ restarts' = restarts + 1
    /\ server' = [server EXCEPT ![s].up = FALSE, ![s].silent = FALSE]
    /\ session' = [c \in Sessions |-> IF session[c].of = s
                                      THEN [session[c] EXCEPT !.alive = FALSE]
                                      ELSE session[c]]
    /\ UNCHANGED <<manager, clients, contract, lock, booting, call>>

ComeBack(s, offers) ==
    /\ ~server[s].up
    /\ server' = [server EXCEPT ![s] = [up |-> TRUE, silent |-> FALSE, offers |-> offers]]
    /\ UNCHANGED <<state, restarts>>

\* The server keeps its connections and does not answer any more.
FallSilent(s) ==
    /\ server[s].up /\ ~server[s].silent
    /\ restarts < MaxRestarts
    /\ restarts' = restarts + 1
    /\ server' = [server EXCEPT ![s].silent = TRUE]
    /\ UNCHANGED state

AnswerAgain(s) ==
    /\ server[s].silent
    /\ server' = [server EXCEPT ![s].silent = FALSE]
    /\ UNCHANGED <<state, restarts>>
-----------------------------------------------------------------------------
Replies == {"result", "tool_error", "broken", "other_error"}

Reconnect(r) ==
    \/ SkipReconnect(r) \/ Disconnect(r) \/ CloseFailed(r) \/ CloseRaises(r)
    \/ CreateClient(r) \/ CreateFails(r) \/ Discover(r) \/ DiscoverFails(r)

Progress(r) ==
    \/ RefreshHeaders(r) \/ RefreshFails(r)
    \/ \E ran \in {0, 1}, reply \in Replies : CallTool(r, ran, reply) \/ RetryTool(r, ran, reply)
    \/ Reconnect(r)

Boot == StartManager \/ (\E s \in Servers : BootConnect(s)) \/ BootDiscover \/ BootFail \/ BootReady

Stopped == manager \in {"failed", "closed"} /\ UNCHANGED vars

Next ==
    \/ Boot \/ Shutdown \/ Stopped
    \/ \E r \in Callers : \/ \E s \in Servers : BeginCall(r, s)
                          \/ Progress(r) \/ Cancel(r)
    \/ \E s \in Servers : \/ Stop(s) \/ FallSilent(s) \/ AnswerAgain(s)
                          \/ \E offers \in Offers : ComeBack(s, offers)

\* initialize(), list_tools() and the DELETE of a close() read without a timeout
\* (read=None): while the server is silent they may wait for ever.
Stuck(r) == call[r].pc \in {"closing", "connecting"} /\ server[call[r].server].silent

\* Every other await of a call ends (tool calls are under asyncio.timeout), and
\* asyncio.Lock wakes its waiters in order.
Spec ==
    /\ Init /\ [][Next]_vars
    /\ \A r \in Callers : /\ WF_vars(Progress(r) /\ ~Stuck(r))
                          /\ SF_vars(SkipReconnect(r) \/ Disconnect(r))
-----------------------------------------------------------------------------
(* Properties. *)

\* Sessions that may hold a connection, and those of them that nobody will close.
Live(c) == session[c].state \in {"connecting", "open", "abandoned", "unclosed"}
Left(c) == session[c].state \in {"abandoned", "unclosed"}

\* The dictionary, start(), or the caller inside the lock.
Owned(c) ==
    /\ manager \in {"starting", "ready"}
    /\ \/ clients[session[c].of] = c
       \/ booting = c
       \/ \E r \in Callers : lock[session[c].of] = r /\ call[r].fresh = c

\* "only one new Session": however many calls see the same session fail, at most
\* one session per server is being connected or open, one left open by an
\* interrupted reconnect included.
OneSessionPerServer ==
    \A c, d \in Sessions :
        Live(c) /\ Live(d) /\ session[c].of = session[d].of => c = d

\* No call is handed a client that is being closed or was never initialised: the
\* stored client is an open session of that server.
StoredSessionIsOpen ==
    \A s \in Servers : clients[s] # None =>
        session[clients[s]].state = "open" /\ session[clients[s]].of = s

\* A session without an owner is the last one of its server: it is left only by a close
\* that raised or by a cancellation inside the reconnect, and then the server has no
\* stored client, nobody is inside its lock and no call connects it again, so that what
\* is left never piles up.  Every other session has an owner that will close it; a start
\* that fails leaves only what would not close.
LeftIsLast ==
    \A c \in Sessions : Live(c) =>
        IF Left(c)
        THEN /\ manager \notin {"new", "starting"}
             /\ clients[session[c].of] = None /\ lock[session[c].of] = None
        ELSE Owned(c)

\* The lock is held by a call that is replacing that server's session, and no
\* other call is doing so: cancellation and every error path release it.
LockHolderReplaces ==
    \A s \in Servers, r \in Callers :
        lock[s] = r <=> call[r].server = s /\ call[r].pc \in Locked

\* What the agent is told agrees with what was sent.  A result comes from a Tool
\* that ran; MCP_TOOL_FAILED is the outcome of a call that was not retried; the
\* retry runs on another session than the one that failed, also when another call
\* did the reconnecting.
OutcomeAgreesWithAttempts ==
    \A r \in Callers :
        /\ call[r].outcome = "ok" => call[r].ran >= 1
        /\ call[r].outcome = "tool_failed" => call[r].sent = 1
        /\ call[r].pc = "retrying" => call[r].sent = 1 /\ call[r].fresh # call[r].client

\* The Tool contract of a started manager never changes, whatever schemas a
\* restarted server offers.
ContractFrozen ==
    [][manager = "ready" => contract' = contract]_vars

\* A call is held by a server that does not answer: it replaces the session, or it waits
\* for the one that does.
Held(r) == \E h \in Callers :
    /\ Stuck(h)
    /\ h = r \/ (call[r].pc = "waiting" /\ lock[call[r].server] = h)

\* Every call ends, also when it waits for another call's reconnect, unless a reconnect
\* meets a server that stays silent: nothing else holds a call for ever.
EveryCallEnds ==
    \A r \in Callers : call[r].pc # "idle" ~> (call[r].pc = "idle" \/ []Held(r))

\* The docs say that the manager recovers when a server restarts or drops its
\* connections after startup: once a server stays up, calls that keep coming
\* find a session again.
RecoversAfterOutage ==
    \A s \in Servers :
        <>[](server[s].up /\ ~server[s].silent /\ server[s].offers # Incomplete)
            => []<>(manager = "ready" => clients[s] # None)

\* Calls keep coming.
RecoverySpec ==
    Spec /\ \A r \in Callers, s \in Servers : SF_vars(BeginCall(r, s))
=============================================================================
