-------------------------- MODULE McpManagerProofs ---------------------------
(***************************************************************************)
(* Proofs about the connection manager, for any servers, callers, sessions *)
(* and offers, and any number of outages.                                 *)
(***************************************************************************)
EXTENDS McpManager, TLAPS

InFlight == {"refresh", "calling"}     \* before the first attempt
Retrying == {"waiting", "closing", "creating", "connecting", "retrying"}

\* What the place of a call says about its local variables.
LocalsFollow ==
    \A r \in Callers :
        /\ call[r].pc = "idle" => call[r].server = None /\ call[r].client = None
        /\ call[r].pc # "idle" => call[r].server \in Servers /\ call[r].client \in Sessions
        /\ call[r].fresh # None <=> call[r].pc \in {"connecting", "retrying"}
        /\ call[r].fresh # None => call[r].fresh # call[r].client

\* How often a call was sent, and what it may report.
AttemptsFollow ==
    \A r \in Callers :
        /\ call[r].pc \in InFlight => call[r].sent = 0 /\ call[r].ran = 0
        /\ call[r].pc \in Retrying => call[r].sent = 1 /\ call[r].ran <= 1
        /\ call[r].pc # "idle" => call[r].outcome = "none"
        /\ call[r].outcome = "ok" => call[r].ran >= 1
        /\ call[r].outcome = "tool_failed" => call[r].sent = 1

\* Calls are made only of a manager that is ready, which needs a contract of every server.
ManagerFollows ==
    /\ manager # "ready" => \A r \in Callers : call[r].pc = "idle"
    /\ manager \notin {"starting", "ready"} => \A s \in Servers : clients[s] = None
    /\ \A s \in Servers : clients[s] # None => contract[s] # None
    /\ manager = "ready" => \A s \in Servers : contract[s] # None

\* A session that is being replaced is no longer stored, and its replacement not yet.
ReplacedIsClosing ==
    \A r \in Callers :
        /\ call[r].pc \in Locked => clients[call[r].server] = None
        /\ call[r].pc = "closing" => /\ session[call[r].client].state = "closing"
                                     /\ session[call[r].client].of = call[r].server
        /\ call[r].pc = "connecting" => /\ session[call[r].fresh].state = "connecting"
                                        /\ session[call[r].fresh].of = call[r].server

\* The session start() is connecting.
BootingConnects ==
    booting # None =>
        /\ manager = "starting"
        /\ session[booting].state = "connecting"
        /\ session[booting].of \in Servers
        /\ clients[session[booting].of] = None

\* Every live session belongs to a server.
LiveHasServer == \A c \in Sessions : Live(c) => session[c].of \in Servers

\* One server has at most one session that nobody will close.
LeftOnce ==
    \A c, d \in Sessions : Left(c) /\ Left(d) /\ session[c].of = session[d].of => c = d

IInv ==
    /\ TypeOK /\ LocalsFollow /\ AttemptsFollow /\ ManagerFollows /\ LockHolderReplaces
    /\ StoredSessionIsOpen /\ ReplacedIsClosing /\ BootingConnects /\ LiveHasServer
    /\ LeftIsLast /\ LeftOnce

\* The types of the variables, part by part.
CallRecord == [pc : Phases, server : Servers \cup {None}, client : Sessions \cup {None},
               fresh : Sessions \cup {None}, sent : 0 .. 2, ran : 0 .. 2, outcome : Outcomes]
SessionRecord == [state : SessionStates, of : Servers \cup {None}, alive : BOOLEAN]
CallsTyped == call \in [Callers -> CallRecord]
SessionsTyped == session \in [Sessions -> SessionRecord]
OthersTyped ==
    /\ manager \in {"new", "starting", "ready", "failed", "closed"}
    /\ clients \in [Servers -> Sessions \cup {None}]
    /\ contract \in [Servers -> Offers \cup {None}]
    /\ lock \in [Servers -> Callers \cup {None}]
    /\ booting \in Sessions \cup {None}
    /\ server \in [Servers -> [up : BOOLEAN, silent : BOOLEAN, offers : Offers]]
    /\ restarts \in 0 .. MaxRestarts
-----------------------------------------------------------------------------
\* A new McpClient is one that nothing holds.
LEMMA NextIsUnheld == SessionAvailable => NextSession \in Sessions /\ Unheld(NextSession)
  BY DEF SessionAvailable, NextSession

\* A call that is over is still the record of a call.
LEMMA OverIsCall ==
  ASSUME NEW x \in CallRecord, NEW o \in Outcomes
  PROVE  Over(x, o) \in CallRecord
  BY DEF Over, CallRecord, Phases

\* Ending a call keeps the type of the calls.
LEMMA FinishTyped ==
  ASSUME CallsTyped, NEW r \in Callers, NEW o \in Outcomes, Finish(r, o)
  PROVE  CallsTyped'
<1>1. Over(call[r], o) \in CallRecord
  BY OverIsCall DEF CallsTyped
<1>2. QED
  BY <1>1 DEF Finish, CallsTyped

\* Moving a call on keeps the type of the calls.
LEMMA GotoTyped ==
  ASSUME CallsTyped, NEW r \in Callers, NEW pc \in Phases, Goto(r, pc)
  PROVE  CallsTyped'
<1>1. [call[r] EXCEPT !.pc = pc] \in CallRecord
  BY DEF CallsTyped, CallRecord
<1>2. QED
  BY <1>1 DEF Goto, CallsTyped

\* Starting the retry keeps the type of the calls.
LEMMA RetryOnTyped ==
  ASSUME CallsTyped, NEW r \in Callers, NEW c \in Sessions, RetryOn(r, c)
  PROVE  CallsTyped'
<1>1. [call[r] EXCEPT !.pc = "retrying", !.fresh = c] \in CallRecord
  BY DEF CallsTyped, CallRecord, Phases
<1>2. QED
  BY <1>1 DEF RetryOn, CallsTyped

\* An attempt counts one send, and one run of the Tool if it reached it.
LEMMA AttemptTyped ==
  ASSUME TypeOK, AttemptsFollow, NEW r \in Callers, NEW ran \in {0, 1},
         call[r].pc \in {"calling", "retrying"}
  PROVE  /\ Attempt(r, ran) \in [Callers -> CallRecord]
         /\ Attempt(r, ran)[r] = [call[r] EXCEPT !.sent = @ + 1, !.ran = @ + ran]
<1>1. [call[r] EXCEPT !.sent = @ + 1, !.ran = @ + ran] \in CallRecord
  <2>1. call[r] \in CallRecord /\ call[r].sent + 1 \in 0 .. 2 /\ call[r].ran + ran \in 0 .. 2
    BY DEF TypeOK, AttemptsFollow, InFlight, Retrying, CallRecord
  <2>2. QED
    BY <2>1 DEF CallRecord
<1>2. QED
  BY <1>1 DEF Attempt, TypeOK, CallRecord

\* The sessions of a well-typed state are typed.
LEMMA Typed == TypeOK => SessionsTyped
  BY DEF TypeOK, SessionsTyped, SessionRecord

\* The sessions keep their type however one is made, stored, closed or left.
LEMMA SessionWritten ==
  ASSUME SessionsTyped, NEW c \in Sessions, NEW st \in SessionStates, NEW s \in Servers,
         session' \in {session, End(c), WithState(c, st), NewSession(c, s)}
  PROVE  SessionsTyped'
<1>1. Gone \in SessionRecord
  BY DEF Gone, SessionRecord, SessionStates
<1>2. [session[c] EXCEPT !.state = st] \in SessionRecord
  BY DEF SessionsTyped, SessionRecord
<1>3. [state |-> "connecting", of |-> s, alive |-> TRUE] \in SessionRecord
  BY DEF SessionRecord, SessionStates
<1>4. QED
  BY <1>1, <1>2, <1>3 DEF SessionsTyped, End, WithState, NewSession

\* close() closes every client it is given, or leaves it open, and touches no other.
LEMMA AllClosed ==
  ASSUME SessionsTyped, NEW open, CloseAll(open)
  PROVE  /\ clients' = [s \in Servers |-> None]
         /\ SessionsTyped'
         /\ \A c \in Sessions :
               \/ session'[c] = session[c] /\ c \notin open
               \/ session'[c].state = "gone" /\ c \in open
               \/ session'[c].state = "unclosed" /\ session'[c].of = session[c].of /\ c \in open
<1>1. PICK unclosed \in SUBSET open :
          session' = [c \in Sessions |->
              CASE c \in unclosed        -> [session[c] EXCEPT !.state = "unclosed"]
                [] c \in open \ unclosed -> Gone
                [] OTHER                -> session[c]]
  BY DEF CloseAll
<1>2. \A c \in Sessions :
          \/ session'[c] = session[c] /\ c \notin open
          \/ session'[c] = Gone /\ c \in open
          \/ session'[c] = [session[c] EXCEPT !.state = "unclosed"] /\ c \in open
  BY <1>1
<1>3. \A c \in Sessions : session'[c] \in SessionRecord
  <2>1. Gone \in SessionRecord
    BY DEF Gone, SessionRecord, SessionStates
  <2>2. \A c \in Sessions : [session[c] EXCEPT !.state = "unclosed"] \in SessionRecord
    BY DEF SessionsTyped, SessionRecord, SessionStates
  <2>3. QED
    BY <1>2, <2>1, <2>2 DEF SessionsTyped
<1>4. QED
  <2>1. DOMAIN session' = Sessions /\ session' = [c \in DOMAIN session' |-> session'[c]]
    BY <1>1
  <2>2. SessionsTyped'
    BY <1>3, <2>1 DEF SessionsTyped
  <2>3. \A c \in Sessions : LET x == [session[c] EXCEPT !.state = "unclosed"]
                            IN  x.state = "unclosed" /\ x.of = session[c].of
    BY DEF SessionsTyped, SessionRecord
  <2>4. QED
    BY <1>2, <2>2, <2>3 DEF CloseAll, Gone

\* A failed discovery closes its own client or leaves it open, and touches no other.
LEMMA DiscoveryFailed ==
  ASSUME SessionsTyped, NEW r \in Callers, DiscoverFails(r), call[r].fresh \in Sessions
  PROVE  LET f == call[r].fresh
         IN  /\ SessionsTyped'
             /\ \A c \in Sessions \ {f} : session'[c] = session[c]
             /\ \/ session'[f].state = "gone"
                \/ session'[f].state = "unclosed" /\ session'[f].of = session[f].of
<1>1. CASE session' = End(call[r].fresh)
  BY <1>1 DEF End, Gone, SessionsTyped, SessionRecord, SessionStates
<1>2. CASE session' = WithState(call[r].fresh, "unclosed")
  BY <1>2 DEF WithState, SessionsTyped, SessionRecord, SessionStates
<1>3. QED
  BY <1>1, <1>2 DEF DiscoverFails

\* A failed start empties the dictionary and closes or leaves what was stored or being connected.
LEMMA BootFailed ==
  ASSUME TypeOK, BootFail
  PROVE  /\ manager' = "failed" /\ booting' = None /\ call' = call /\ lock' = lock
         /\ contract' = contract
         /\ clients' = [s \in Servers |-> None]
         /\ \A c \in Sessions :
               \/ session'[c] = session[c] /\ booting # c /\ \A s \in Servers : clients[s] # c
               \/ session'[c].state = "gone"
               \/ /\ session'[c].state = "unclosed" /\ session'[c].of = session[c].of
                  /\ booting = c \/ \E s \in Servers : clients[s] = c
<1>1. CloseAll(Stored \cup {booting})
  BY DEF BootFail
<1>2. SessionsTyped
  BY Typed
<1>3. \A c \in Sessions : c \in Stored \cup {booting} <=> booting = c \/ \E s \in Servers : clients[s] = c
  BY DEF Stored
<1>4. QED
  BY <1>1, <1>2, <1>3, AllClosed DEF BootFail

\* The shutdown empties the dictionary and closes or leaves what was stored.
LEMMA ShutDown ==
  ASSUME TypeOK, Shutdown
  PROVE  /\ manager = "ready" /\ manager' = "closed" /\ booting' = booting /\ call' = call
         /\ lock' = lock /\ contract' = contract /\ \A r \in Callers : call[r].pc = "idle"
         /\ clients' = [s \in Servers |-> None]
         /\ \A c \in Sessions :
               \/ session'[c] = session[c] /\ \A s \in Servers : clients[s] # c
               \/ session'[c].state = "gone"
               \/ /\ session'[c].state = "unclosed" /\ session'[c].of = session[c].of
                  /\ \E s \in Servers : clients[s] = c
<1>1. CloseAll(Stored)
  BY DEF Shutdown
<1>2. SessionsTyped
  BY Typed
<1>3. \A c \in Sessions : c \in Stored <=> \E s \in Servers : clients[s] = c
  BY DEF Stored
<1>4. QED
  BY <1>1, <1>2, <1>3, AllClosed DEF Shutdown

\* A failed discovery ends the call, releases the lock and touches its own session alone.
LEMMA DiscoverFailed ==
  ASSUME TypeOK, LocalsFollow, NEW r \in Callers, DiscoverFails(r)
  PROVE  LET f == call[r].fresh
         IN  /\ f \in Sessions /\ call[r].server \in Servers /\ call[r].pc = "connecting"
             /\ UNCHANGED <<manager, clients, contract, booting>>
             /\ lock' = [lock EXCEPT ![call[r].server] = None]
             /\ call' = [call EXCEPT ![r] = Over(call[r], "unavailable")]
             /\ \A c \in Sessions : c # f => session'[c] = session[c]
             /\ \/ session'[f].state = "gone"
                \/ session'[f].state = "unclosed" /\ session'[f].of = session[f].of
<1>1. SessionsTyped
  BY Typed
<1>2. call[r].fresh \in Sessions /\ call[r].server \in Servers
  BY DEF TypeOK, LocalsFollow, DiscoverFails
<1>3. QED
  BY <1>1, <1>2, DiscoveryFailed DEF DiscoverFails, Unlock, Finish

\* Types are kept.
LEMMA TypeOKStep ==
  ASSUME IInv, [Next]_vars
  PROVE  TypeOK'
<1> USE NoneAssumption, MaxRestartsAssumption, NextIsUnheld DEF IInv
<1>0. OthersTyped /\ CallsTyped /\ SessionsTyped
  BY DEF TypeOK, OthersTyped, CallsTyped, CallRecord, SessionsTyped, SessionRecord
<1>a. OthersTyped' /\ CallsTyped' /\ SessionsTyped' => TypeOK'
  BY DEF TypeOK, OthersTyped, CallsTyped, CallRecord, SessionsTyped, SessionRecord
<1>1. ASSUME StartManager PROVE TypeOK'
  BY <1>1 DEF StartManager, TypeOK
<1>2. ASSUME NEW s \in Servers, BootConnect(s) PROVE TypeOK'
  <2>1. SessionsTyped'
    BY <1>0, <1>2, SessionWritten DEF BootConnect, SessionStates
  <2>2. QED
    BY <1>0, <1>a, <1>2, <2>1 DEF BootConnect, CallsTyped, OthersTyped
<1>3. ASSUME BootDiscover PROVE TypeOK'
  BY <1>3 DEF TypeOK, BootDiscover, StoreSession, WithState, CanDiscover, BootingConnects, SessionStates
<1>4. ASSUME BootFail PROVE TypeOK'
  BY <1>0, <1>a, <1>4, AllClosed DEF BootFail, CallsTyped, OthersTyped
<1>5. ASSUME BootReady PROVE TypeOK'
  BY <1>5 DEF BootReady, TypeOK
<1>6. ASSUME Shutdown PROVE TypeOK'
  BY <1>0, <1>a, <1>6, AllClosed DEF Shutdown, CallsTyped, OthersTyped
<1>7. ASSUME NEW r \in Callers, NEW s \in Servers, BeginCall(r, s) PROVE TypeOK'
  <2>1. CASE clients[s] = None
    <3>1. [call[r] EXCEPT !.sent = 0, !.ran = 0, !.outcome = "unavailable"] \in CallRecord
      <4>1. call[r] \in CallRecord /\ "unavailable" \in Outcomes /\ 0 \in 0 .. 2
        BY <1>0 DEF CallsTyped, Outcomes
      <4>2. QED
        BY <4>1 DEF CallRecord
    <3>2. CallsTyped'
      BY <1>0, <1>7, <2>1, <3>1 DEF BeginCall, CallsTyped
    <3>3. QED
      BY <1>0, <1>a, <1>7, <3>2 DEF BeginCall, SessionsTyped, OthersTyped
  <2>2. CASE clients[s] # None
    <3>1. [pc |-> "refresh", server |-> s, client |-> clients[s], fresh |-> None,
           sent |-> 0, ran |-> 0, outcome |-> "none"] \in CallRecord
      BY <2>2 DEF TypeOK, CallRecord, Phases, Outcomes
    <3>2. CallsTyped'
      BY <1>0, <1>7, <2>2, <3>1 DEF BeginCall, CallsTyped
    <3>3. QED
      BY <1>0, <1>a, <1>7, <3>2 DEF BeginCall, SessionsTyped, OthersTyped
  <2>3. QED
    BY <2>1, <2>2
<1>8. ASSUME NEW r \in Callers, RefreshHeaders(r) PROVE TypeOK'
  <2>1. CallsTyped'
    BY <1>0, <1>8, GotoTyped DEF RefreshHeaders, Phases
  <2>2. QED
    BY <1>0, <1>a, <1>8, <2>1 DEF RefreshHeaders, SessionsTyped, OthersTyped
<1>9. ASSUME NEW r \in Callers, RefreshFails(r) PROVE TypeOK'
  <2>1. CallsTyped'
    BY <1>0, <1>9, FinishTyped DEF RefreshFails, Outcomes
  <2>2. QED
    BY <1>0, <1>a, <1>9, <2>1 DEF RefreshFails, SessionsTyped, OthersTyped
<1>10. ASSUME NEW r \in Callers, NEW ran \in {0, 1}, NEW reply \in Replies, CallTool(r, ran, reply)
       PROVE  TypeOK'
  <2> DEFINE x == [call[r] EXCEPT !.sent = @ + 1, !.ran = @ + ran]
  <2>1. Attempt(r, ran) \in [Callers -> CallRecord] /\ Attempt(r, ran)[r] = x
    BY <1>10, AttemptTyped DEF CallTool
  <2>2. x \in CallRecord
    BY <2>1
  <2>3. [x EXCEPT !.pc = "waiting"] \in CallRecord
    BY <2>2 DEF CallRecord, Phases
  <2>4. Over(x, "ok") \in CallRecord /\ Over(x, "tool_failed") \in CallRecord
    BY <2>2, OverIsCall DEF Outcomes
  <2>5. PICK y \in CallRecord : call' = [Attempt(r, ran) EXCEPT ![r] = y]
    BY <1>10, <2>1, <2>3, <2>4 DEF CallTool
  <2>6. CallsTyped'
    BY <2>1, <2>5 DEF CallsTyped
  <2>7. QED
    BY <1>0, <1>a, <1>10, <2>6 DEF CallTool, SessionsTyped, OthersTyped
<1>11. ASSUME NEW r \in Callers, NEW ran \in {0, 1}, NEW reply \in Replies, RetryTool(r, ran, reply)
       PROVE  TypeOK'
  <2> DEFINE x == [call[r] EXCEPT !.sent = @ + 1, !.ran = @ + ran]
  <2>1. Attempt(r, ran) \in [Callers -> CallRecord] /\ Attempt(r, ran)[r] = x
    BY <1>11, AttemptTyped DEF RetryTool
  <2>2. x \in CallRecord
    BY <2>1
  <2>3. Over(x, "ok") \in CallRecord /\ Over(x, "unavailable") \in CallRecord
    BY <2>2, OverIsCall DEF Outcomes
  <2>4. PICK y \in CallRecord : call' = [Attempt(r, ran) EXCEPT ![r] = y]
    BY <1>11, <2>1, <2>3 DEF RetryTool
  <2>5. CallsTyped'
    BY <2>1, <2>4 DEF CallsTyped
  <2>6. QED
    BY <1>0, <1>a, <1>11, <2>5 DEF RetryTool, SessionsTyped, OthersTyped
<1>12. ASSUME NEW r \in Callers, SkipReconnect(r) PROVE TypeOK'
  <2>1. clients[call[r].server] \in Sessions \cup {None}
    BY <1>12 DEF SkipReconnect, TypeOK, LocalsFollow
  <2>2. CallsTyped'
    BY <1>0, <1>12, <2>1, FinishTyped, RetryOnTyped DEF SkipReconnect, Outcomes
  <2>3. QED
    BY <1>0, <1>a, <1>12, <2>2 DEF SkipReconnect, SessionsTyped, OthersTyped
<1>13. ASSUME NEW r \in Callers, Disconnect(r) PROVE TypeOK'
  <2>1. CallsTyped'
    BY <1>0, <1>13, GotoTyped DEF Disconnect, Phases
  <2>2. call[r].server \in Servers /\ call[r].client \in Sessions
    BY <1>13 DEF Disconnect, LocalsFollow
  <2>3. SessionsTyped'
    BY <1>0, <1>13, <2>2, SessionWritten DEF Disconnect, SessionStates
  <2>4. clients' \in [Servers -> Sessions \cup {None}] /\ lock' \in [Servers -> Callers \cup {None}]
    BY <1>0, <1>13 DEF Disconnect, OthersTyped
  <2>5. QED
    BY <1>0, <1>a, <1>13, <2>1, <2>3, <2>4 DEF Disconnect, OthersTyped
<1>14. ASSUME NEW r \in Callers, CloseFailed(r) PROVE TypeOK'
  <2>1. CallsTyped'
    BY <1>0, <1>14, GotoTyped DEF CloseFailed, Phases
  <2>2. SessionsTyped'
    BY <1>14 DEF CloseFailed, LocalsFollow, TypeOK, End, Gone, SessionsTyped, SessionRecord, SessionStates
  <2>3. QED
    BY <1>0, <1>a, <1>14, <2>1, <2>2 DEF CloseFailed, OthersTyped
<1>15. ASSUME NEW r \in Callers, CloseRaises(r) PROVE TypeOK'
  <2>1. CallsTyped'
    BY <1>0, <1>15, FinishTyped DEF CloseRaises, Outcomes
  <2>2. SessionsTyped' /\ lock' \in [Servers -> Callers \cup {None}]
    BY <1>15 DEF CloseRaises, LocalsFollow, TypeOK, WithState, Unlock, SessionsTyped, SessionRecord,
                 SessionStates
  <2>3. QED
    BY <1>0, <1>a, <1>15, <2>1, <2>2 DEF CloseRaises, OthersTyped
<1>16. ASSUME NEW r \in Callers, CreateClient(r) PROVE TypeOK'
  <2>1. [call[r] EXCEPT !.pc = "connecting", !.fresh = NextSession] \in CallRecord
    BY <1>0, <1>16 DEF CreateClient, CallsTyped, CallRecord, Phases
  <2>2. CallsTyped'
    BY <1>0, <1>16, <2>1 DEF CreateClient, CallsTyped
  <2>3. SessionsTyped'
    <3>1. call[r].server \in Servers
      BY <1>16 DEF CreateClient, LocalsFollow
    <3>2. QED
      BY <1>0, <1>16, <3>1, SessionWritten DEF CreateClient, SessionStates
  <2>4. QED
    BY <1>0, <1>a, <1>16, <2>2, <2>3 DEF CreateClient, OthersTyped
<1>17. ASSUME NEW r \in Callers, CreateFails(r) PROVE TypeOK'
  <2>1. CallsTyped'
    BY <1>0, <1>17, FinishTyped DEF CreateFails, Outcomes
  <2>2. lock' \in [Servers -> Callers \cup {None}]
    BY <1>17 DEF CreateFails, Unlock, TypeOK
  <2>3. QED
    BY <1>0, <1>a, <1>17, <2>1, <2>2 DEF CreateFails, SessionsTyped, OthersTyped
<1>18. ASSUME NEW r \in Callers, Discover(r) PROVE TypeOK'
  <2>1. call[r].server \in Servers /\ call[r].fresh \in Sessions
    BY <1>18 DEF Discover, LocalsFollow, TypeOK
  <2>2. CallsTyped'
    BY <1>0, <1>18, <2>1, RetryOnTyped DEF Discover
  <2>3. SessionsTyped' /\ clients' \in [Servers -> Sessions \cup {None}]
        /\ contract' \in [Servers -> Offers \cup {None}] /\ lock' \in [Servers -> Callers \cup {None}]
    BY <1>18, <2>1 DEF Discover, StoreSession, Unlock, TypeOK, WithState, SessionsTyped, SessionRecord,
                       SessionStates
  <2>4. QED
    BY <1>0, <1>a, <1>18, <2>2, <2>3 DEF Discover, OthersTyped
<1>19. ASSUME NEW r \in Callers, DiscoverFails(r) PROVE TypeOK'
  <2>1. CallsTyped'
    BY <1>0, <1>19, FinishTyped DEF DiscoverFails, Outcomes
  <2>2. SessionsTyped' /\ lock' \in [Servers -> Callers \cup {None}]
    <3>1. call[r].fresh \in Sessions /\ call[r].server \in Servers
      BY <1>19 DEF DiscoverFails, LocalsFollow, TypeOK
    <3>2. SessionsTyped'
      BY <1>0, <1>19, <3>1, DiscoveryFailed
    <3>3. QED
      BY <1>0, <1>19, <3>1, <3>2 DEF DiscoverFails, Unlock, OthersTyped
  <2>3. QED
    BY <1>0, <1>a, <1>19, <2>1, <2>2 DEF DiscoverFails, OthersTyped
<1>20. ASSUME NEW r \in Callers, Cancel(r) PROVE TypeOK'
  <2>1. CallsTyped'
    BY <1>0, <1>20, FinishTyped DEF Cancel, Outcomes
  <2>2. SessionsTyped' /\ lock' \in [Servers -> Callers \cup {None}]
    BY <1>20 DEF Cancel, LocalsFollow, TypeOK, WithState, Unlock, SessionsTyped, SessionRecord,
                 SessionStates
  <2>3. QED
    BY <1>0, <1>a, <1>20, <2>1, <2>2 DEF Cancel, OthersTyped
<1>21. ASSUME NEW s \in Servers, Stop(s) PROVE TypeOK'
  <2>1. \A c \in Sessions : [session[c] EXCEPT !.alive = FALSE] \in SessionRecord
    BY <1>0 DEF SessionsTyped, SessionRecord
  <2>2. SessionsTyped'
    BY <1>0, <1>21, <2>1 DEF Stop, SessionsTyped
  <2>3. [server[s] EXCEPT !.up = FALSE, !.silent = FALSE] \in [up : BOOLEAN, silent : BOOLEAN, offers : Offers]
    BY <1>0 DEF OthersTyped
  <2>4. server' \in [Servers -> [up : BOOLEAN, silent : BOOLEAN, offers : Offers]]
    BY <1>0, <1>21, <2>3 DEF Stop, OthersTyped
  <2>5. restarts' \in 0 .. MaxRestarts
    BY <1>0, <1>21 DEF Stop, OthersTyped
  <2>6. QED
    BY <1>0, <1>a, <1>21, <2>2, <2>4, <2>5 DEF Stop, OthersTyped, CallsTyped
<1>22. ASSUME NEW s \in Servers, NEW offers \in Offers, ComeBack(s, offers) PROVE TypeOK'
  BY <1>22 DEF ComeBack, state, TypeOK
<1>23. ASSUME NEW s \in Servers, FallSilent(s) PROVE TypeOK'
  <2>1. restarts' \in 0 .. MaxRestarts
    BY <1>0, <1>23 DEF FallSilent, OthersTyped
  <2>2. QED
    BY <1>23, <2>1 DEF FallSilent, state, TypeOK
<1>24. ASSUME NEW s \in Servers, AnswerAgain(s) PROVE TypeOK'
  BY <1>24 DEF AnswerAgain, state, TypeOK
<1>25. ASSUME UNCHANGED vars PROVE TypeOK'
  BY <1>25 DEF vars, TypeOK
<1>26. QED
  BY <1>1, <1>2, <1>3, <1>4, <1>5, <1>6, <1>7, <1>8, <1>9, <1>10, <1>11, <1>12, <1>13, <1>14, <1>15,
     <1>16, <1>17, <1>18, <1>19, <1>20, <1>21, <1>22, <1>23, <1>24, <1>25
     DEF Next, Boot, Progress, Reconnect, Stopped

\* A call's local variables follow its place: the retry never runs on the session that failed,
\* because either the comparison found another one or a new one was made.
LEMMA LocalsFollowStep ==
  ASSUME IInv, TypeOK', [Next]_vars
  PROVE  LocalsFollow'
<1> USE NoneAssumption DEF IInv, TypeOK, LocalsFollow
<1>1. ASSUME UNCHANGED call PROVE LocalsFollow'
  BY <1>1
<1>2. ASSUME NEW r \in Callers, NEW s \in Servers, BeginCall(r, s) PROVE LocalsFollow'
  BY <1>2 DEF BeginCall
<1>3. ASSUME NEW r \in Callers, RefreshHeaders(r) PROVE LocalsFollow'
  BY <1>3 DEF RefreshHeaders, Goto
<1>4. ASSUME NEW r \in Callers, RefreshFails(r) PROVE LocalsFollow'
  BY <1>4 DEF RefreshFails, Finish, Over
<1>5. ASSUME NEW r \in Callers, NEW ran \in {0, 1}, NEW reply \in Replies, CallTool(r, ran, reply)
      PROVE  LocalsFollow'
  BY <1>5 DEF CallTool, Attempt, Over
<1>6. ASSUME NEW r \in Callers, NEW ran \in {0, 1}, NEW reply \in Replies, RetryTool(r, ran, reply)
      PROVE  LocalsFollow'
  BY <1>6 DEF RetryTool, Attempt, Over
<1>7. ASSUME NEW r \in Callers, SkipReconnect(r) PROVE LocalsFollow'
  <2>1. CASE clients[call[r].server] = None
    <3>1. /\ call[r].pc = "waiting"
          /\ call' = [call EXCEPT ![r] = Over(call[r], "unavailable")]
          /\ UNCHANGED <<manager, clients, contract, lock, booting, session>>
      BY <1>7, <2>1 DEF SkipReconnect, Finish
    <3>2. QED
      BY <3>1 DEF Over
  <2>2. CASE clients[call[r].server] # None
    BY <1>7, <2>2 DEF SkipReconnect, RetryOn
  <2>3. QED
    BY <2>1, <2>2
<1>8. ASSUME NEW r \in Callers, Disconnect(r) PROVE LocalsFollow'
  BY <1>8 DEF Disconnect, Goto
<1>9. ASSUME NEW r \in Callers, CloseFailed(r) PROVE LocalsFollow'
  BY <1>9 DEF CloseFailed, Goto
<1>10. ASSUME NEW r \in Callers, CloseRaises(r) PROVE LocalsFollow'
  BY <1>10 DEF CloseRaises, Finish, Over
<1>11. ASSUME NEW r \in Callers, CreateClient(r) PROVE LocalsFollow'
  BY <1>11, NextIsUnheld DEF CreateClient, Unheld
<1>12. ASSUME NEW r \in Callers, CreateFails(r) PROVE LocalsFollow'
  BY <1>12 DEF CreateFails, Finish, Over
<1>13. ASSUME NEW r \in Callers, Discover(r) PROVE LocalsFollow'
  BY <1>13 DEF Discover, RetryOn
<1>14. ASSUME NEW r \in Callers, DiscoverFails(r) PROVE LocalsFollow'
  BY <1>14 DEF DiscoverFails, Finish, Over
<1>15. ASSUME NEW r \in Callers, Cancel(r) PROVE LocalsFollow'
  BY <1>15 DEF Cancel, Finish, Over
<1>16. ASSUME NEW s \in Servers, FallSilent(s) \/ AnswerAgain(s) \/ Stop(s) PROVE LocalsFollow'
  BY <1>1, <1>16 DEF FallSilent, AnswerAgain, Stop, state
<1>17. ASSUME Boot \/ Shutdown PROVE LocalsFollow'
  BY <1>1, <1>17 DEF Boot, StartManager, BootConnect, BootDiscover, BootFail, BootReady, Shutdown
<1>18. QED
  BY <1>1, <1>2, <1>3, <1>4, <1>5, <1>6, <1>7, <1>8, <1>9, <1>10, <1>11, <1>12, <1>13, <1>14,
     <1>15, <1>16, <1>17
     DEF Next, Progress, Reconnect, Stopped, ComeBack, vars, state

\* A call is sent at most twice, and reports only what its attempts allow.
LEMMA AttemptsFollowStep ==
  ASSUME IInv, TypeOK', [Next]_vars
  PROVE  AttemptsFollow'
<1> USE NoneAssumption DEF IInv, TypeOK, AttemptsFollow, InFlight, Retrying
<1>1. ASSUME UNCHANGED call PROVE AttemptsFollow'
  BY <1>1
<1>2. ASSUME NEW r \in Callers, NEW s \in Servers, BeginCall(r, s) PROVE AttemptsFollow'
  BY <1>2 DEF BeginCall
<1>3. ASSUME NEW r \in Callers, RefreshHeaders(r) PROVE AttemptsFollow'
  BY <1>3 DEF RefreshHeaders, Goto
<1>4. ASSUME NEW r \in Callers, RefreshFails(r) PROVE AttemptsFollow'
  BY <1>4 DEF RefreshFails, Finish, Over
<1>5. ASSUME NEW r \in Callers, NEW ran \in {0, 1}, NEW reply \in Replies, CallTool(r, ran, reply)
      PROVE  AttemptsFollow'
  BY <1>5 DEF CallTool, Attempt, Over, Answers, Replies
<1>6. ASSUME NEW r \in Callers, NEW ran \in {0, 1}, NEW reply \in Replies, RetryTool(r, ran, reply)
      PROVE  AttemptsFollow'
  BY <1>6 DEF RetryTool, Attempt, Over, Answers, Replies
<1>7. ASSUME NEW r \in Callers, SkipReconnect(r) PROVE AttemptsFollow'
  <2>1. CASE clients[call[r].server] = None
    <3>1. /\ call[r].pc = "waiting"
          /\ call' = [call EXCEPT ![r] = Over(call[r], "unavailable")]
          /\ UNCHANGED <<manager, clients, contract, lock, booting, session>>
      BY <1>7, <2>1 DEF SkipReconnect, Finish
    <3>2. QED
      BY <3>1 DEF Over
  <2>2. CASE clients[call[r].server] # None
    BY <1>7, <2>2 DEF SkipReconnect, RetryOn
  <2>3. QED
    BY <2>1, <2>2
<1>8. ASSUME NEW r \in Callers, Disconnect(r) PROVE AttemptsFollow'
  BY <1>8 DEF Disconnect, Goto
<1>9. ASSUME NEW r \in Callers, CloseFailed(r) PROVE AttemptsFollow'
  BY <1>9 DEF CloseFailed, Goto
<1>10. ASSUME NEW r \in Callers, CloseRaises(r) PROVE AttemptsFollow'
  BY <1>10 DEF CloseRaises, Finish, Over
<1>11. ASSUME NEW r \in Callers, CreateClient(r) PROVE AttemptsFollow'
  BY <1>11, NextIsUnheld DEF CreateClient, Unheld
<1>12. ASSUME NEW r \in Callers, CreateFails(r) PROVE AttemptsFollow'
  BY <1>12 DEF CreateFails, Finish, Over
<1>13. ASSUME NEW r \in Callers, Discover(r) PROVE AttemptsFollow'
  BY <1>13 DEF Discover, RetryOn
<1>14. ASSUME NEW r \in Callers, DiscoverFails(r) PROVE AttemptsFollow'
  BY <1>14 DEF DiscoverFails, Finish, Over
<1>15. ASSUME NEW r \in Callers, Cancel(r) PROVE AttemptsFollow'
  BY <1>15 DEF Cancel, Finish, Over
<1>16. ASSUME NEW s \in Servers, FallSilent(s) \/ AnswerAgain(s) \/ Stop(s) PROVE AttemptsFollow'
  BY <1>1, <1>16 DEF FallSilent, AnswerAgain, Stop, state
<1>17. ASSUME Boot \/ Shutdown PROVE AttemptsFollow'
  BY <1>1, <1>17 DEF Boot, StartManager, BootConnect, BootDiscover, BootFail, BootReady, Shutdown
<1>18. QED
  BY <1>1, <1>2, <1>3, <1>4, <1>5, <1>6, <1>7, <1>8, <1>9, <1>10, <1>11, <1>12, <1>13, <1>14,
     <1>15, <1>16, <1>17
     DEF Next, Progress, Reconnect, Stopped, ComeBack, vars, state

\* The manager is left, failed or closed, with no call in progress and no client stored.
LEMMA ManagerFollowsStep ==
  ASSUME IInv, TypeOK', [Next]_vars
  PROVE  ManagerFollows'
<1> USE NoneAssumption DEF IInv, TypeOK, ManagerFollows, BootingConnects, LocalsFollow
<1>1. ASSUME UNCHANGED <<manager, clients, contract, call>> PROVE ManagerFollows'
  BY <1>1
<1>2. ASSUME StartManager PROVE ManagerFollows'
  BY <1>2 DEF StartManager
<1>3. ASSUME BootDiscover PROVE ManagerFollows'
  BY <1>3 DEF BootDiscover, StoreSession
<1>4. ASSUME BootFail PROVE ManagerFollows'
  BY <1>4 DEF BootFail, CloseAll, Stored
<1>5. ASSUME BootReady PROVE ManagerFollows'
  BY <1>5 DEF BootReady
<1>6. ASSUME Shutdown PROVE ManagerFollows'
  BY <1>6 DEF Shutdown, CloseAll, Stored
<1>7. ASSUME NEW r \in Callers, NEW s \in Servers, BeginCall(r, s) PROVE ManagerFollows'
  BY <1>7 DEF BeginCall
<1>8. ASSUME NEW r \in Callers, RefreshHeaders(r) PROVE ManagerFollows'
  BY <1>8 DEF RefreshHeaders, Goto
<1>9. ASSUME NEW r \in Callers, RefreshFails(r) PROVE ManagerFollows'
  BY <1>9 DEF RefreshFails, Finish, Over
<1>10. ASSUME NEW r \in Callers, NEW ran \in {0, 1}, NEW reply \in Replies, CallTool(r, ran, reply)
       PROVE  ManagerFollows'
  BY <1>10 DEF CallTool, Attempt, Over
<1>11. ASSUME NEW r \in Callers, NEW ran \in {0, 1}, NEW reply \in Replies, RetryTool(r, ran, reply)
       PROVE  ManagerFollows'
  BY <1>11 DEF RetryTool, Attempt, Over
<1>12. ASSUME NEW r \in Callers, SkipReconnect(r) PROVE ManagerFollows'
  <2>1. CASE clients[call[r].server] = None
    <3>1. /\ call[r].pc = "waiting"
          /\ call' = [call EXCEPT ![r] = Over(call[r], "unavailable")]
          /\ UNCHANGED <<manager, clients, contract, lock, booting, session>>
      BY <1>12, <2>1 DEF SkipReconnect, Finish
    <3>2. QED
      BY <3>1 DEF Over
  <2>2. CASE clients[call[r].server] # None
    BY <1>12, <2>2 DEF SkipReconnect, RetryOn
  <2>3. QED
    BY <2>1, <2>2
<1>13. ASSUME NEW r \in Callers, Disconnect(r) PROVE ManagerFollows'
  BY <1>13 DEF Disconnect, Goto
<1>14. ASSUME NEW r \in Callers, CloseFailed(r) PROVE ManagerFollows'
  BY <1>14 DEF CloseFailed, Goto
<1>15. ASSUME NEW r \in Callers, CloseRaises(r) PROVE ManagerFollows'
  BY <1>15 DEF CloseRaises, Finish, Over
<1>16. ASSUME NEW r \in Callers, CreateClient(r) PROVE ManagerFollows'
  BY <1>16, NextIsUnheld DEF CreateClient, Unheld
<1>17. ASSUME NEW r \in Callers, CreateFails(r) PROVE ManagerFollows'
  BY <1>17 DEF CreateFails, Finish, Over
<1>18. ASSUME NEW r \in Callers, Discover(r) PROVE ManagerFollows'
  BY <1>18 DEF Discover, StoreSession, RetryOn
<1>19. ASSUME NEW r \in Callers, DiscoverFails(r) PROVE ManagerFollows'
  BY <1>19 DEF DiscoverFails, Finish, Over
<1>20. ASSUME NEW r \in Callers, Cancel(r) PROVE ManagerFollows'
  BY <1>20 DEF Cancel, Finish, Over
<1>21. QED
  BY <1>1, <1>2, <1>3, <1>4, <1>5, <1>6, <1>7, <1>8, <1>9, <1>10, <1>11, <1>12, <1>13, <1>14,
     <1>15, <1>16, <1>17, <1>18, <1>19, <1>20
     DEF Next, Boot, Progress, Reconnect, Stopped, BootConnect, Stop, ComeBack, FallSilent, AnswerAgain, vars, state

\* The lock is taken with the disconnect and released by every way out of the reconnect.
LEMMA LockHolderReplacesStep ==
  ASSUME IInv, TypeOK', [Next]_vars
  PROVE  LockHolderReplaces'
<1> USE NoneAssumption DEF IInv, TypeOK, LockHolderReplaces, Locked, LocalsFollow,
           ManagerFollows
<1>1. ASSUME UNCHANGED <<lock, call>> PROVE LockHolderReplaces'
  BY <1>1
<1>2. ASSUME NEW r \in Callers, NEW s \in Servers, BeginCall(r, s) PROVE LockHolderReplaces'
  BY <1>2 DEF BeginCall
<1>3. ASSUME NEW r \in Callers, RefreshHeaders(r) PROVE LockHolderReplaces'
  BY <1>3 DEF RefreshHeaders, Goto
<1>4. ASSUME NEW r \in Callers, RefreshFails(r) PROVE LockHolderReplaces'
  BY <1>4 DEF RefreshFails, Finish, Over
<1>5. ASSUME NEW r \in Callers, NEW ran \in {0, 1}, NEW reply \in Replies, CallTool(r, ran, reply)
      PROVE  LockHolderReplaces'
  BY <1>5, SMTT(60) DEF CallTool, Attempt, Over
<1>6. ASSUME NEW r \in Callers, NEW ran \in {0, 1}, NEW reply \in Replies, RetryTool(r, ran, reply)
      PROVE  LockHolderReplaces'
  BY <1>6 DEF RetryTool, Attempt, Over
<1>7. ASSUME NEW r \in Callers, SkipReconnect(r) PROVE LockHolderReplaces'
  <2>1. CASE clients[call[r].server] = None
    <3>1. /\ call[r].pc = "waiting"
          /\ call' = [call EXCEPT ![r] = Over(call[r], "unavailable")]
          /\ UNCHANGED <<manager, clients, contract, lock, booting, session>>
      BY <1>7, <2>1 DEF SkipReconnect, Finish
    <3>2. QED
      BY <3>1 DEF Over
  <2>2. CASE clients[call[r].server] # None
    BY <1>7, <2>2 DEF SkipReconnect, RetryOn
  <2>3. QED
    BY <2>1, <2>2
<1>8. ASSUME NEW r \in Callers, Disconnect(r) PROVE LockHolderReplaces'
  BY <1>8 DEF Disconnect, Goto
<1>9. ASSUME NEW r \in Callers, CloseFailed(r) PROVE LockHolderReplaces'
  BY <1>9 DEF CloseFailed, Goto
<1>10. ASSUME NEW r \in Callers, CloseRaises(r) PROVE LockHolderReplaces'
  BY <1>10 DEF CloseRaises, Unlock, Finish, Over
<1>11. ASSUME NEW r \in Callers, CreateClient(r) PROVE LockHolderReplaces'
  BY <1>11, NextIsUnheld DEF CreateClient, Unheld
<1>12. ASSUME NEW r \in Callers, CreateFails(r) PROVE LockHolderReplaces'
  BY <1>12 DEF CreateFails, Unlock, Finish, Over
<1>13. ASSUME NEW r \in Callers, Discover(r) PROVE LockHolderReplaces'
  BY <1>13 DEF Discover, Unlock, RetryOn
<1>14. ASSUME NEW r \in Callers, DiscoverFails(r) PROVE LockHolderReplaces'
  BY <1>14 DEF DiscoverFails, Unlock, Finish, Over
<1>15. ASSUME NEW r \in Callers, Cancel(r) PROVE LockHolderReplaces'
  BY <1>15 DEF Cancel, Unlock, Finish, Over
<1>16. ASSUME NEW s \in Servers, FallSilent(s) \/ AnswerAgain(s) \/ Stop(s) PROVE LockHolderReplaces'
  BY <1>1, <1>16 DEF FallSilent, AnswerAgain, Stop, state
<1>17. ASSUME Boot \/ Shutdown PROVE LockHolderReplaces'
  BY <1>1, <1>17 DEF Boot, StartManager, BootConnect, BootDiscover, BootFail, BootReady, Shutdown
<1>18. QED
  BY <1>1, <1>2, <1>3, <1>4, <1>5, <1>6, <1>7, <1>8, <1>9, <1>10, <1>11, <1>12, <1>13, <1>14,
     <1>15, <1>16, <1>17
     DEF Next, Progress, Reconnect, Stopped, ComeBack, vars, state

\* A client leaves the dictionary before it is closed and enters it after it is initialised.
LEMMA StoredSessionIsOpenStep ==
  ASSUME IInv, TypeOK', [Next]_vars
  PROVE  StoredSessionIsOpen'
<1> USE NoneAssumption DEF IInv, TypeOK, StoredSessionIsOpen, LocalsFollow, ReplacedIsClosing,
           BootingConnects, ManagerFollows
<1>1. ASSUME UNCHANGED <<clients, session>> PROVE StoredSessionIsOpen'
  BY <1>1
<1>2. ASSUME NEW s \in Servers, BootConnect(s) PROVE StoredSessionIsOpen'
  BY <1>2, NextIsUnheld DEF BootConnect, NewSession, Unheld
<1>3. ASSUME BootDiscover PROVE StoredSessionIsOpen'
  BY <1>3 DEF BootDiscover, StoreSession, WithState
<1>4. ASSUME BootFail PROVE StoredSessionIsOpen'
  BY <1>4, BootFailed
<1>5. ASSUME Shutdown PROVE StoredSessionIsOpen'
  BY <1>5, ShutDown
<1>6. ASSUME NEW r \in Callers, Disconnect(r) PROVE StoredSessionIsOpen'
  BY <1>6 DEF Disconnect, WithState
<1>7. ASSUME NEW r \in Callers, CloseFailed(r) PROVE StoredSessionIsOpen'
  BY <1>7 DEF CloseFailed, End, Gone
<1>8. ASSUME NEW r \in Callers, CloseRaises(r) PROVE StoredSessionIsOpen'
  BY <1>8 DEF CloseRaises, WithState
<1>9. ASSUME NEW r \in Callers, CreateClient(r) PROVE StoredSessionIsOpen'
  BY <1>9, NextIsUnheld DEF CreateClient, NewSession, Unheld
<1>10. ASSUME NEW r \in Callers, Discover(r) PROVE StoredSessionIsOpen'
  BY <1>10 DEF Discover, StoreSession, WithState
<1>11. ASSUME NEW r \in Callers, DiscoverFails(r) PROVE StoredSessionIsOpen'
  <2> DEFINE f == call[r].fresh
  <2>1. /\ f \in Sessions /\ call[r].server \in Servers /\ call[r].pc = "connecting"
        /\ UNCHANGED <<manager, clients, contract, booting>>
        /\ lock' = [lock EXCEPT ![call[r].server] = None]
        /\ call' = [call EXCEPT ![r] = Over(call[r], "unavailable")]
        /\ \A c \in Sessions : c # f => session'[c] = session[c]
        /\ \/ session'[f].state = "gone"
           \/ session'[f].state = "unclosed" /\ session'[f].of = session[f].of
    BY <1>11, DiscoverFailed
  <2>2. session[f].state = "connecting" /\ session[f].of = call[r].server
    BY <2>1
  <2>3. \A s \in Servers : clients[s] # None => clients[s] # f /\ clients[s] \in Sessions
    BY <2>2
  <2>4. \A s \in Servers : clients[s] # None => session'[clients[s]] = session[clients[s]]
    BY <2>1, <2>3
  <2>5. QED
    BY <2>1, <2>4
<1>12. ASSUME NEW r \in Callers, Cancel(r) PROVE StoredSessionIsOpen'
  BY <1>12 DEF Cancel, WithState
<1>13. ASSUME NEW s \in Servers, Stop(s) PROVE StoredSessionIsOpen'
  BY <1>13 DEF Stop
<1>14. QED
  BY <1>1, <1>2, <1>3, <1>4, <1>5, <1>6, <1>7, <1>8, <1>9, <1>10, <1>11, <1>12, <1>13
     DEF Next, Boot, Progress, Reconnect, Stopped, StartManager, BootReady, BeginCall,
         RefreshHeaders, RefreshFails, CallTool, RetryTool, SkipReconnect, CreateFails,
         ComeBack, FallSilent, AnswerAgain, vars, state

\* While the lock is held nothing is stored for the server, since only the holder would store it.
LEMMA ReplacedIsClosingStep ==
  ASSUME IInv, TypeOK', [Next]_vars
  PROVE  ReplacedIsClosing'
<1> USE NoneAssumption DEF IInv, TypeOK, ReplacedIsClosing, Locked, LocalsFollow,
           LockHolderReplaces, StoredSessionIsOpen, ManagerFollows, BootingConnects
<1>1. ASSUME UNCHANGED <<clients, session, call>> PROVE ReplacedIsClosing'
  BY <1>1
<1>2. ASSUME NEW s \in Servers, BootConnect(s) PROVE ReplacedIsClosing'
  BY <1>2, NextIsUnheld DEF BootConnect, NewSession, Unheld
<1>3. ASSUME BootDiscover PROVE ReplacedIsClosing'
  BY <1>3 DEF BootDiscover, StoreSession, WithState
<1>4. ASSUME BootFail PROVE ReplacedIsClosing'
  <2>1. UNCHANGED call /\ manager = "starting"
    BY <1>4, BootFailed DEF BootFail
  <2>2. \A q \in Callers : call'[q].pc = "idle"
    BY <2>1
  <2>3. QED
    BY <2>2
<1>5. ASSUME Shutdown PROVE ReplacedIsClosing'
  BY <1>5, ShutDown
<1>6. ASSUME NEW r \in Callers, NEW s \in Servers, BeginCall(r, s) PROVE ReplacedIsClosing'
  BY <1>6 DEF BeginCall
<1>7. ASSUME NEW r \in Callers, RefreshHeaders(r) PROVE ReplacedIsClosing'
  BY <1>7 DEF RefreshHeaders, Goto
<1>8. ASSUME NEW r \in Callers, RefreshFails(r) PROVE ReplacedIsClosing'
  BY <1>8 DEF RefreshFails, Finish, Over
<1>9. ASSUME NEW r \in Callers, NEW ran \in {0, 1}, NEW reply \in Replies, CallTool(r, ran, reply)
      PROVE  ReplacedIsClosing'
  BY <1>9 DEF CallTool, Attempt, Over
<1>10. ASSUME NEW r \in Callers, NEW ran \in {0, 1}, NEW reply \in Replies, RetryTool(r, ran, reply)
       PROVE  ReplacedIsClosing'
  BY <1>10 DEF RetryTool, Attempt, Over
<1>11. ASSUME NEW r \in Callers, SkipReconnect(r) PROVE ReplacedIsClosing'
  <2>1. CASE clients[call[r].server] = None
    <3>1. /\ call[r].pc = "waiting"
          /\ call' = [call EXCEPT ![r] = Over(call[r], "unavailable")]
          /\ UNCHANGED <<manager, clients, contract, lock, booting, session>>
      BY <1>11, <2>1 DEF SkipReconnect, Finish
    <3>2. QED
      BY <3>1 DEF Over
  <2>2. CASE clients[call[r].server] # None
    BY <1>11, <2>2 DEF SkipReconnect, RetryOn
  <2>3. QED
    BY <2>1, <2>2
<1>12. ASSUME NEW r \in Callers, Disconnect(r) PROVE ReplacedIsClosing'
  BY <1>12 DEF Disconnect, WithState, Goto
<1>13. ASSUME NEW r \in Callers, CloseFailed(r) PROVE ReplacedIsClosing'
  BY <1>13 DEF CloseFailed, End, Gone, Goto
<1>14. ASSUME NEW r \in Callers, CloseRaises(r) PROVE ReplacedIsClosing'
  BY <1>14 DEF CloseRaises, WithState, Finish, Over
<1>15. ASSUME NEW r \in Callers, CreateClient(r) PROVE ReplacedIsClosing'
  BY <1>15, NextIsUnheld DEF CreateClient, NewSession, Unheld
<1>16. ASSUME NEW r \in Callers, CreateFails(r) PROVE ReplacedIsClosing'
  BY <1>16 DEF CreateFails, Finish, Over
<1>17. ASSUME NEW r \in Callers, Discover(r) PROVE ReplacedIsClosing'
  BY <1>17 DEF Discover, StoreSession, WithState, RetryOn
<1>18. ASSUME NEW r \in Callers, DiscoverFails(r) PROVE ReplacedIsClosing'
  <2> DEFINE f == call[r].fresh
  <2>1. /\ f \in Sessions /\ call[r].server \in Servers /\ call[r].pc = "connecting"
        /\ UNCHANGED <<manager, clients, contract, booting>>
        /\ lock' = [lock EXCEPT ![call[r].server] = None]
        /\ call' = [call EXCEPT ![r] = Over(call[r], "unavailable")]
        /\ \A c \in Sessions : c # f => session'[c] = session[c]
        /\ \/ session'[f].state = "gone"
           \/ session'[f].state = "unclosed" /\ session'[f].of = session[f].of
    BY <1>18, DiscoverFailed
  <2>2. session[f].state = "connecting" /\ session[f].of = call[r].server
    BY <2>1
  <2>3. lock[call[r].server] = r
    BY <2>1
  <2>4. /\ call'[r].pc = "idle"
        /\ \A q \in Callers \ {r} : call'[q] = call[q]
    BY <2>1 DEF Over
  <2>5. \A q \in Callers \ {r} : call[q].pc \in Locked => call[q].server # call[r].server
    BY <2>1, <2>3
  <2>6. \A q \in Callers \ {r} : call[q].pc = "closing" => call[q].client # f
    BY <2>1, <2>2
  <2>7. \A q \in Callers \ {r} : call[q].pc = "connecting" => call[q].fresh # f
    BY <2>2, <2>5
  <2>8. ASSUME NEW q \in Callers
        PROVE  /\ call'[q].pc \in Locked => clients'[call'[q].server] = None
               /\ call'[q].pc = "closing" => /\ session'[call'[q].client].state = "closing"
                                             /\ session'[call'[q].client].of = call'[q].server
               /\ call'[q].pc = "connecting" => /\ session'[call'[q].fresh].state = "connecting"
                                                /\ session'[call'[q].fresh].of = call'[q].server
    <3>1. CASE q = r
      BY <2>4, <3>1
    <3>2. CASE q # r
      <4>1. call'[q] = call[q] /\ clients' = clients
        BY <2>1, <2>4, <3>2
      <4>2. call[q].pc = "closing" => session'[call[q].client] = session[call[q].client]
        BY <2>1, <2>6, <3>2
      <4>3. call[q].pc = "connecting" => session'[call[q].fresh] = session[call[q].fresh]
        BY <2>1, <2>7, <3>2
      <4>4. QED
        BY <4>1, <4>2, <4>3
    <3>3. QED
      BY <3>1, <3>2
  <2>9. QED
    BY <2>8
<1>19. ASSUME NEW r \in Callers, Cancel(r) PROVE ReplacedIsClosing'
  BY <1>19 DEF Cancel, WithState, Finish, Over
<1>20. ASSUME NEW s \in Servers, Stop(s) PROVE ReplacedIsClosing'
  BY <1>20 DEF Stop
<1>21. QED
  BY <1>1, <1>2, <1>3, <1>4, <1>5, <1>6, <1>7, <1>8, <1>9, <1>10, <1>11, <1>12, <1>13, <1>14,
     <1>15, <1>16, <1>17, <1>18, <1>19, <1>20
     DEF Next, Boot, Progress, Reconnect, Stopped, StartManager, BootReady, ComeBack, FallSilent, AnswerAgain, vars,
         state

\* start() connects one session at a time, for a server that has none.
LEMMA BootingConnectsStep ==
  ASSUME IInv, TypeOK', [Next]_vars
  PROVE  BootingConnects'
<1> USE NoneAssumption DEF IInv, TypeOK, BootingConnects, LocalsFollow, StoredSessionIsOpen,
           ManagerFollows, ReplacedIsClosing
<1>1. ASSUME UNCHANGED <<manager, clients, booting, session>> PROVE BootingConnects'
  BY <1>1
<1>2. ASSUME StartManager PROVE BootingConnects'
  BY <1>2 DEF StartManager
<1>3. ASSUME NEW s \in Servers, BootConnect(s) PROVE BootingConnects'
  BY <1>3, NextIsUnheld DEF BootConnect, NewSession, Unheld
<1>4. ASSUME BootDiscover PROVE BootingConnects'
  BY <1>4 DEF BootDiscover, StoreSession, WithState
<1>5. ASSUME BootFail PROVE BootingConnects'
  BY <1>5, BootFailed
<1>6. ASSUME BootReady PROVE BootingConnects'
  BY <1>6 DEF BootReady
<1>7. ASSUME Shutdown PROVE BootingConnects'
  BY <1>7, ShutDown
<1>8. ASSUME NEW r \in Callers, Disconnect(r) PROVE BootingConnects'
  BY <1>8 DEF Disconnect, WithState
<1>9. ASSUME NEW r \in Callers, CloseFailed(r) PROVE BootingConnects'
  BY <1>9 DEF CloseFailed, End, Gone
<1>10. ASSUME NEW r \in Callers, CloseRaises(r) PROVE BootingConnects'
  BY <1>10 DEF CloseRaises, WithState
<1>11. ASSUME NEW r \in Callers, CreateClient(r) PROVE BootingConnects'
  BY <1>11, NextIsUnheld DEF CreateClient, NewSession, Unheld
<1>12. ASSUME NEW r \in Callers, Discover(r) PROVE BootingConnects'
  BY <1>12 DEF Discover, StoreSession, WithState
<1>13. ASSUME NEW r \in Callers, DiscoverFails(r) PROVE BootingConnects'
  BY <1>13, DiscoverFailed
<1>14. ASSUME NEW r \in Callers, Cancel(r) PROVE BootingConnects'
  BY <1>14 DEF Cancel, WithState
<1>15. ASSUME NEW s \in Servers, Stop(s) PROVE BootingConnects'
  BY <1>15 DEF Stop
<1>16. QED
  BY <1>1, <1>2, <1>3, <1>4, <1>5, <1>6, <1>7, <1>8, <1>9, <1>10, <1>11, <1>12, <1>13, <1>14,
     <1>15
     DEF Next, Boot, Progress, Reconnect, Stopped, BeginCall, RefreshHeaders, RefreshFails,
         CallTool, RetryTool, SkipReconnect, CreateFails, ComeBack, FallSilent, AnswerAgain, vars, state

\* Sessions are made for a server.
LEMMA LiveHasServerStep ==
  ASSUME IInv, TypeOK', [Next]_vars
  PROVE  LiveHasServer'
<1> USE NoneAssumption DEF IInv, TypeOK, LiveHasServer, Live, LocalsFollow, BootingConnects,
           ReplacedIsClosing, StoredSessionIsOpen
<1>1. ASSUME UNCHANGED session PROVE LiveHasServer'
  BY <1>1
<1>2. ASSUME NEW s \in Servers, BootConnect(s) PROVE LiveHasServer'
  BY <1>2, NextIsUnheld DEF BootConnect, NewSession, Unheld
<1>3. ASSUME BootDiscover PROVE LiveHasServer'
  BY <1>3 DEF BootDiscover, StoreSession, WithState
<1>4. ASSUME BootFail PROVE LiveHasServer'
  BY <1>4, BootFailed
<1>5. ASSUME Shutdown PROVE LiveHasServer'
  BY <1>5, ShutDown
<1>6. ASSUME NEW r \in Callers, Disconnect(r) PROVE LiveHasServer'
  BY <1>6 DEF Disconnect, WithState
<1>7. ASSUME NEW r \in Callers, CloseFailed(r) PROVE LiveHasServer'
  BY <1>7 DEF CloseFailed, End, Gone
<1>8. ASSUME NEW r \in Callers, CloseRaises(r) PROVE LiveHasServer'
  BY <1>8 DEF CloseRaises, WithState
<1>9. ASSUME NEW r \in Callers, CreateClient(r) PROVE LiveHasServer'
  BY <1>9, NextIsUnheld DEF CreateClient, NewSession, Unheld
<1>10. ASSUME NEW r \in Callers, Discover(r) PROVE LiveHasServer'
  BY <1>10 DEF Discover, StoreSession, WithState
<1>11. ASSUME NEW r \in Callers, DiscoverFails(r) PROVE LiveHasServer'
  BY <1>11, DiscoverFailed
<1>12. ASSUME NEW r \in Callers, Cancel(r) PROVE LiveHasServer'
  BY <1>12 DEF Cancel, WithState
<1>13. ASSUME NEW s \in Servers, Stop(s) PROVE LiveHasServer'
  BY <1>13 DEF Stop
<1>14. QED
  BY <1>1, <1>2, <1>3, <1>4, <1>5, <1>6, <1>7, <1>8, <1>9, <1>10, <1>11, <1>12, <1>13
     DEF Next, Boot, Progress, Reconnect, Stopped, StartManager, BootReady, BeginCall,
         RefreshHeaders, RefreshFails, CallTool, RetryTool, SkipReconnect, CreateFails,
         ComeBack, FallSilent, AnswerAgain, vars, state

\* Whoever gives up a live session has stored it, closed it or left it as the last one of its
\* server: it was popped before, and the lock goes with the call.
LEMMA LeftIsLastStep ==
  ASSUME IInv, TypeOK', [Next]_vars
  PROVE  LeftIsLast'
<1> USE NoneAssumption DEF IInv, TypeOK, LeftIsLast, Left, Owned, Live, Locked, LocalsFollow,
           LockHolderReplaces, ManagerFollows, StoredSessionIsOpen, BootingConnects,
           ReplacedIsClosing, LiveHasServer
<1>1. ASSUME UNCHANGED <<manager, clients, lock, booting, session, call>> PROVE LeftIsLast'
  BY <1>1
<1>2. ASSUME StartManager PROVE LeftIsLast'
  BY <1>2 DEF StartManager
<1>3. ASSUME NEW s \in Servers, BootConnect(s) PROVE LeftIsLast'
  BY <1>3, NextIsUnheld DEF BootConnect, NewSession, Unheld
<1>4. ASSUME BootDiscover PROVE LeftIsLast'
  BY <1>4 DEF BootDiscover, StoreSession, WithState
<1>5. ASSUME BootFail PROVE LeftIsLast'
  <2>1. /\ manager = "starting" /\ manager' = "failed" /\ UNCHANGED lock
        /\ clients' = [s \in Servers |-> None]
    BY <1>5, BootFailed DEF BootFail
  <2>2. lock = [s \in Servers |-> None]
    BY <2>1
  <2>3. ASSUME NEW c \in Sessions, Live(c)'
        PROVE  Left(c)' /\ session'[c].of \in Servers
    <3>1. CASE session'[c] = session[c] /\ booting # c /\ \A s \in Servers : clients[s] # c
      <4>1. session[c].of \in Servers /\ ~Left(c)
        BY <2>1, <2>3, <3>1
      <4>2. Owned(c)
        BY <2>3, <3>1, <4>1
      <4>3. QED
        BY <2>2, <3>1, <4>1, <4>2
    <3>2. CASE session'[c].state = "gone"
      BY <2>3, <3>2
    <3>3. CASE /\ session'[c].state = "unclosed" /\ session'[c].of = session[c].of
               /\ booting = c \/ \E s \in Servers : clients[s] = c
      BY <3>3
    <3>4. QED
      BY <1>5, <3>1, <3>2, <3>3, BootFailed
  <2>4. QED
    BY <2>1, <2>2, <2>3
<1>6. ASSUME BootReady PROVE LeftIsLast'
  BY <1>6 DEF BootReady
<1>7. ASSUME Shutdown PROVE LeftIsLast'
  BY <1>7, ShutDown
<1>8. ASSUME NEW r \in Callers, NEW s \in Servers, BeginCall(r, s) PROVE LeftIsLast'
  BY <1>8 DEF BeginCall
<1>9. ASSUME NEW r \in Callers, RefreshHeaders(r) PROVE LeftIsLast'
  BY <1>9 DEF RefreshHeaders, Goto
<1>10. ASSUME NEW r \in Callers, RefreshFails(r) PROVE LeftIsLast'
  BY <1>10 DEF RefreshFails, Finish, Over
<1>11. ASSUME NEW r \in Callers, NEW ran \in {0, 1}, NEW reply \in Replies, CallTool(r, ran, reply)
       PROVE  LeftIsLast'
  BY <1>11 DEF CallTool, Attempt, Over
<1>12. ASSUME NEW r \in Callers, NEW ran \in {0, 1}, NEW reply \in Replies, RetryTool(r, ran, reply)
       PROVE  LeftIsLast'
  BY <1>12 DEF RetryTool, Attempt, Over
<1>13. ASSUME NEW r \in Callers, SkipReconnect(r) PROVE LeftIsLast'
  <2>1. CASE clients[call[r].server] = None
    <3>1. /\ call[r].pc = "waiting"
          /\ call' = [call EXCEPT ![r] = Over(call[r], "unavailable")]
          /\ UNCHANGED <<manager, clients, contract, lock, booting, session>>
      BY <1>13, <2>1 DEF SkipReconnect, Finish
    <3>2. QED
      BY <3>1 DEF Over
  <2>2. CASE clients[call[r].server] # None
    BY <1>13, <2>2 DEF SkipReconnect, RetryOn
  <2>3. QED
    BY <2>1, <2>2
<1>14. ASSUME NEW r \in Callers, Disconnect(r) PROVE LeftIsLast'
  BY <1>14 DEF Disconnect, WithState, Goto
<1>15. ASSUME NEW r \in Callers, CloseFailed(r) PROVE LeftIsLast'
  BY <1>15 DEF CloseFailed, End, Gone, Goto
<1>16. ASSUME NEW r \in Callers, CloseRaises(r) PROVE LeftIsLast'
  BY <1>16 DEF CloseRaises, WithState, Unlock, Finish, Over
<1>17. ASSUME NEW r \in Callers, CreateClient(r) PROVE LeftIsLast'
  BY <1>17, NextIsUnheld DEF CreateClient, NewSession, Unheld
<1>18. ASSUME NEW r \in Callers, CreateFails(r) PROVE LeftIsLast'
  BY <1>18 DEF CreateFails, Unlock, Finish, Over
<1>19. ASSUME NEW r \in Callers, Discover(r) PROVE LeftIsLast'
  BY <1>19 DEF Discover, StoreSession, WithState, Unlock, RetryOn
<1>20. ASSUME NEW r \in Callers, DiscoverFails(r) PROVE LeftIsLast'
  <2> DEFINE f == call[r].fresh
  <2>1. /\ f \in Sessions /\ call[r].server \in Servers /\ call[r].pc = "connecting"
        /\ UNCHANGED <<manager, clients, contract, booting>>
        /\ lock' = [lock EXCEPT ![call[r].server] = None]
        /\ call' = [call EXCEPT ![r] = Over(call[r], "unavailable")]
        /\ \A c \in Sessions : c # f => session'[c] = session[c]
        /\ \/ session'[f].state = "gone"
           \/ session'[f].state = "unclosed" /\ session'[f].of = session[f].of
    BY <1>20, DiscoverFailed
  <2>2. session[f].state = "connecting" /\ session[f].of = call[r].server
    BY <2>1
  <2>3. /\ clients[call[r].server] = None /\ lock[call[r].server] = r
        /\ manager = "ready"
    BY <2>1
  <2>4. /\ call'[r].fresh = None
        /\ \A q \in Callers \ {r} : call'[q] = call[q]
    BY <2>1 DEF Over
  <2>5. ASSUME NEW c \in Sessions, Live(c)', c # f
        PROVE  IF Left(c)'
               THEN /\ manager' \notin {"new", "starting"}
                    /\ clients'[session'[c].of] = None /\ lock'[session'[c].of] = None
               ELSE Owned(c)'
    <3>1. session'[c] = session[c] /\ Live(c) /\ session[c].of \in Servers
      BY <2>1, <2>5
    <3>2. CASE Left(c)
      BY <2>1, <3>1, <3>2
    <3>3. CASE ~Left(c)
      <4>1. Owned(c)
        BY <3>1, <3>3
      <4>2. session[c].of = call[r].server => FALSE
        BY <2>1, <2>3, <2>5, <4>1
      <4>3. lock'[session[c].of] = lock[session[c].of]
        BY <2>1, <3>1, <4>2
      <4>4. \A q \in Callers : lock[session[c].of] = q => q # r
        BY <3>1, <4>2 DEF LockHolderReplaces
      <4>5. Owned(c)'
        BY <2>1, <2>4, <3>1, <4>1, <4>3, <4>4
      <4>6. QED
        BY <3>1, <3>3, <4>5
    <3>4. QED
      BY <3>2, <3>3
  <2>6. ASSUME NEW c \in Sessions, Live(c)', c = f
        PROVE  IF Left(c)'
               THEN /\ manager' \notin {"new", "starting"}
                    /\ clients'[session'[c].of] = None /\ lock'[session'[c].of] = None
               ELSE Owned(c)'
    <3>1. session'[c].state = "unclosed" /\ session'[c].of = call[r].server
      BY <2>1, <2>2, <2>6
    <3>2. lock'[call[r].server] = None /\ clients'[call[r].server] = None /\ manager' = "ready"
      BY <2>1, <2>3
    <3>3. QED
      BY <3>1, <3>2
  <2>7. QED
    BY <2>5, <2>6
<1>21. ASSUME NEW r \in Callers, Cancel(r) PROVE LeftIsLast'
  BY <1>21 DEF Cancel, WithState, Unlock, Finish, Over
<1>22. ASSUME NEW s \in Servers, Stop(s) PROVE LeftIsLast'
  BY <1>22 DEF Stop
<1>23. QED
  BY <1>1, <1>2, <1>3, <1>4, <1>5, <1>6, <1>7, <1>8, <1>9, <1>10, <1>11, <1>12, <1>13, <1>14,
     <1>15, <1>16, <1>17, <1>18, <1>19, <1>20, <1>21, <1>22
     DEF Next, Boot, Progress, Reconnect, Stopped, ComeBack, FallSilent, AnswerAgain, vars, state

\* A session is left by the call inside the lock or out of the dictionary, and no server with
\* a session left has either.
LEMMA LeftOnceStep ==
  ASSUME IInv, TypeOK', [Next]_vars
  PROVE  LeftOnce'
<1> USE NoneAssumption DEF IInv, TypeOK, LeftOnce, LeftIsLast, Left, Live, LocalsFollow, Locked,
           LockHolderReplaces, StoredSessionIsOpen, BootingConnects, ReplacedIsClosing
<1>1. ASSUME UNCHANGED session PROVE LeftOnce'
  BY <1>1
<1>2. ASSUME NEW s \in Servers, BootConnect(s) PROVE LeftOnce'
  BY <1>2, NextIsUnheld DEF BootConnect, NewSession, Unheld
<1>3. ASSUME BootDiscover PROVE LeftOnce'
  BY <1>3 DEF BootDiscover, StoreSession, WithState
<1>4. ASSUME BootFail PROVE LeftOnce'
  BY <1>4, BootFailed
<1>5. ASSUME Shutdown PROVE LeftOnce'
  BY <1>5, ShutDown
<1>6. ASSUME NEW r \in Callers, Disconnect(r) PROVE LeftOnce'
  BY <1>6 DEF Disconnect, WithState
<1>7. ASSUME NEW r \in Callers, CloseFailed(r) PROVE LeftOnce'
  BY <1>7 DEF CloseFailed, End, Gone
<1>8. ASSUME NEW r \in Callers, CloseRaises(r) PROVE LeftOnce'
  BY <1>8 DEF CloseRaises, WithState
<1>9. ASSUME NEW r \in Callers, CreateClient(r) PROVE LeftOnce'
  BY <1>9, NextIsUnheld DEF CreateClient, NewSession, Unheld
<1>10. ASSUME NEW r \in Callers, Discover(r) PROVE LeftOnce'
  BY <1>10 DEF Discover, StoreSession, WithState
<1>11. ASSUME NEW r \in Callers, DiscoverFails(r) PROVE LeftOnce'
  BY <1>11, DiscoverFailed
<1>12. ASSUME NEW r \in Callers, Cancel(r) PROVE LeftOnce'
  BY <1>12 DEF Cancel, WithState
<1>13. ASSUME NEW s \in Servers, Stop(s) PROVE LeftOnce'
  BY <1>13 DEF Stop
<1>14. QED
  BY <1>1, <1>2, <1>3, <1>4, <1>5, <1>6, <1>7, <1>8, <1>9, <1>10, <1>11, <1>12, <1>13
     DEF Next, Boot, Progress, Reconnect, Stopped, StartManager, BootReady, BeginCall,
         RefreshHeaders, RefreshFails, CallTool, RetryTool, SkipReconnect, CreateFails,
         ComeBack, FallSilent, AnswerAgain, vars, state
-----------------------------------------------------------------------------
\* Before start() nothing is stored, connected or called.
LEMMA InitInvariant == Init => IInv
<1> SUFFICES ASSUME Init PROVE IInv
  OBVIOUS
<1> USE NoneAssumption DEF Init
<1>1. TypeOK
  <2>1. Gone \in [state : SessionStates, of : Servers \cup {None}, alive : BOOLEAN]
    BY DEF Gone, SessionStates
  <2>2. [pc |-> "idle", server |-> None, client |-> None, fresh |-> None, sent |-> 0, ran |-> 0,
         outcome |-> "none"] \in CallRecord
    BY DEF CallRecord, Phases, Outcomes
  <2>3. call \in [Callers -> CallRecord]
    BY <2>2
  <2>4. server \in [Servers -> [up : BOOLEAN, silent : BOOLEAN, offers : Offers]]
    OBVIOUS
  <2>5. QED
    BY <2>1, <2>3, <2>4, MaxRestartsAssumption DEF TypeOK, CallRecord
<1>2. LocalsFollow /\ AttemptsFollow /\ ManagerFollows
  BY DEF LocalsFollow, AttemptsFollow, ManagerFollows, InFlight, Retrying
<1>3. LockHolderReplaces /\ ReplacedIsClosing
  BY DEF LockHolderReplaces, ReplacedIsClosing, Locked
<1>4. StoredSessionIsOpen /\ BootingConnects /\ LiveHasServer /\ LeftIsLast /\ LeftOnce
  BY DEF StoredSessionIsOpen, BootingConnects, LiveHasServer, LeftIsLast, LeftOnce, Left, Live, Gone
<1>5. QED
  BY <1>1, <1>2, <1>3, <1>4 DEF IInv

\* The inductive invariant holds in every state the manager reaches.
THEOREM Invariance == Spec => []IInv
<1>1. IInv /\ [Next]_vars => IInv'
  <2> SUFFICES ASSUME IInv, [Next]_vars PROVE IInv'
    OBVIOUS
  <2>1. TypeOK'
    BY TypeOKStep
  <2>2. LocalsFollow' /\ AttemptsFollow' /\ ManagerFollows'
    BY <2>1, LocalsFollowStep, AttemptsFollowStep, ManagerFollowsStep
  <2>3. LockHolderReplaces' /\ StoredSessionIsOpen' /\ ReplacedIsClosing'
    BY <2>1, LockHolderReplacesStep, StoredSessionIsOpenStep, ReplacedIsClosingStep
  <2>4. BootingConnects' /\ LiveHasServer' /\ LeftIsLast' /\ LeftOnce'
    BY <2>1, BootingConnectsStep, LiveHasServerStep, LeftIsLastStep, LeftOnceStep
  <2>5. QED
    BY <2>1, <2>2, <2>3, <2>4 DEF IInv
<1>2. QED
  BY InitInvariant, <1>1, PTL DEF Spec

\* Every variable of the manager keeps its type.
THEOREM TypeCorrect == Spec => []TypeOK
<1>1. IInv => TypeOK
  BY DEF IInv
<1>2. QED
  BY <1>1, Invariance, PTL

\* However many calls meet a transport failure at once, at most one session per
\* server is being connected or open, one that was left open included: the owners of a
\* live session exclude each other, because the holder of the lock has popped the stored
\* client first, and a server with a session left has no owner of another.
THEOREM OneSession == Spec => []OneSessionPerServer
<1>1. IInv => OneSessionPerServer
  <2> SUFFICES ASSUME IInv, NEW c \in Sessions, NEW d \in Sessions, Live(c), Live(d),
                      session[c].of = session[d].of
               PROVE  c = d
    BY DEF OneSessionPerServer
  <2> DEFINE s == session[c].of
             Fresh(x) == \E r \in Callers : lock[s] = r /\ call[r].fresh = x
  <2>1. s \in Servers /\ c # None /\ d # None
    BY NoneAssumption DEF IInv, LiveHasServer
  <2>2. CASE Left(c) /\ Left(d)
    BY <2>2 DEF IInv, LeftOnce
  <2>3. ASSUME NEW x \in {c, d}, NEW y \in {c, d}, Left(x), ~Left(y) PROVE FALSE
    <3>1. manager # "starting" /\ clients[s] = None /\ lock[s] = None
      BY <2>3 DEF IInv, LeftIsLast
    <3>2. Owned(y)
      BY <2>3 DEF IInv, LeftIsLast
    <3>3. booting = None
      BY <3>1 DEF IInv, BootingConnects
    <3>4. QED
      BY <2>1, <3>1, <3>2, <3>3, NoneAssumption DEF Owned
  <2>4. CASE ~Left(c) /\ ~Left(d)
    <3>1. /\ clients[s] = c \/ booting = c \/ Fresh(c)
          /\ clients[s] = d \/ booting = d \/ Fresh(d)
      BY <2>4 DEF IInv, LeftIsLast, Owned
    <3>2. clients[s] # None => ~Fresh(c) /\ ~Fresh(d)
      BY <2>1 DEF IInv, LockHolderReplaces, ReplacedIsClosing
    <3>3. booting \in {c, d} => clients[s] = None /\ ~Fresh(c) /\ ~Fresh(d)
      BY <2>1, NoneAssumption DEF IInv, BootingConnects, LockHolderReplaces, ManagerFollows, Locked
    <3>4. Fresh(c) /\ Fresh(d) => c = d
      OBVIOUS
    <3>5. QED
      BY <2>1, <3>1, <3>2, <3>3, <3>4
  <2>5. QED
    BY <2>2, <2>3, <2>4
<1>2. QED
  BY <1>1, Invariance, PTL

\* No call is handed a client that is being closed or was never initialised.
THEOREM StoredIsOpen == Spec => []StoredSessionIsOpen
<1>1. IInv => StoredSessionIsOpen
  BY DEF IInv
<1>2. QED
  BY <1>1, Invariance, PTL

\* A session without an owner is one whose close raised or was cancelled, or one whose
\* connecting was cancelled; its server has no stored client and connects no other, so that
\* it stays the only one.  Every other session has an owner that will close it.
THEOREM SessionsLeft == Spec => []LeftIsLast
<1>1. IInv => LeftIsLast
  BY DEF IInv
<1>2. QED
  BY <1>1, Invariance, PTL

\* A server's lock is held exactly by the call that replaces its session.
THEOREM LockReplaces == Spec => []LockHolderReplaces
<1>1. IInv => LockHolderReplaces
  BY DEF IInv
<1>2. QED
  BY <1>1, Invariance, PTL

\* What the agent is told about a call agrees with what was sent to the server,
\* and a retry never runs on the session that failed.
THEOREM OutcomeAgrees == Spec => []OutcomeAgreesWithAttempts
<1>1. IInv => OutcomeAgreesWithAttempts
  BY NoneAssumption DEF IInv, LocalsFollow, AttemptsFollow, Retrying, OutcomeAgreesWithAttempts
<1>2. QED
  BY <1>1, Invariance, PTL

\* Once the manager is ready its Tool contract never changes: every server has
\* one by then, and a reconnect that finds other schemas keeps the old one.
THEOREM ContractStays == Spec => ContractFrozen
<1>1. IInv /\ [Next]_vars => (manager = "ready" => contract' = contract)
  <2> SUFFICES ASSUME IInv, [Next]_vars, manager = "ready"
               PROVE  contract' = contract
    OBVIOUS
  <2>1. ASSUME NEW s \in Servers, NEW c, StoreSession(s, c) PROVE contract' = contract
    BY <2>1 DEF StoreSession, IInv, ManagerFollows, TypeOK
  <2>2. ASSUME NEW r \in Callers, Discover(r) PROVE contract' = contract
    <3>1. call[r].server \in Servers
      BY <2>2 DEF Discover, IInv, LocalsFollow
    <3>2. QED
      BY <2>1, <2>2, <3>1 DEF Discover
  <2>3. booting = None
    BY DEF IInv, BootingConnects
  <2>4. QED
    BY <2>2, <2>3
       DEF Next, Boot, StartManager, BootConnect, BootDiscover, BootFail, BootReady, Shutdown, Stopped,
           BeginCall, Progress, RefreshHeaders, RefreshFails, CallTool, RetryTool, Reconnect,
           SkipReconnect, Disconnect, CloseFailed, CloseRaises, CreateClient, CreateFails,
           DiscoverFails, Cancel, Stop, ComeBack, FallSilent, AnswerAgain, state, vars
<1>2. IInv /\ [Next]_vars => [manager = "ready" => contract' = contract]_vars
  BY <1>1
<1>3. QED
  BY <1>2, Invariance, PTL DEF Spec, ContractFrozen
=============================================================================
