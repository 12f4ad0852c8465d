-------------------------- MODULE AppLifecycleProofs -------------------------
(***************************************************************************)
(* Proofs about the lifespan, for every set of MCP servers.                *)
(***************************************************************************)
EXTENDS AppLifecycle, TLAPS

Early == {"secret_manager", "secrets", "close_secrets", "http", "tokens", "langfuse", "engine"}

\* What has been entered before each step of a startup without errors.
OpenBefore ==
    [secret_manager |-> {}, secrets |-> {"secret_manager"},
     close_secrets |-> {"secret_manager"}, http |-> {}, tokens |-> {"http"},
     langfuse |-> {"http"}, engine |-> {"http", "langfuse"},
     mcp |-> {"http", "langfuse", "engine"}, checkpointer |-> {"http", "langfuse", "engine"},
     checkpointer_setup |-> {"http", "langfuse", "engine", "checkpointer"},
     store |-> {"http", "langfuse", "engine", "checkpointer"},
     store_setup |-> {"http", "langfuse", "engine", "checkpointer", "store"},
     agent |-> {"http", "langfuse", "engine", "checkpointer", "store"},
     serving |-> {"http", "langfuse", "engine", "checkpointer", "store"}]

\* While nothing was raised, exactly what the settings ask for is open.
OpenAsWanted ==
    raised = None /\ at \in DOMAIN OpenBefore =>
        open = {r \in OpenBefore[at] : Wanted(r)}

\* The sessions follow the step, and an exception stops the startup or the finally.
SessionsFollow ==
    /\ at \in Early => sessions = {} /\ "engine" \notin open
    /\ at \in AfterMcp \cup {"serving"} => sessions = Servers
    /\ at = "dispose" => sessions = {}
    /\ ready => at = "serving"
    /\ at = "serving" /\ "workspace" \in config => cleanup # "none"
    /\ raised # None => at \in {"close_secrets", "exiting", "over"}
    /\ at = "close_secrets" => raised \in {None, "secrets"}
    /\ raised = "secrets" => "secrets" \in config

\* What each exception, or none, leaves behind.
EndsAsRaised ==
    at \in {"exiting", "over"} =>
        /\ raised \in {None, "close_http", "mcp", "agent"} \cup Opening \cup AfterMcp
        /\ raised \notin AfterMcp \cup {"close_http"} => sessions = {}
        /\ raised \notin AfterMcp \cup {"close_http", "mcp"} => "engine" \notin open

\* The secret client is open only while secrets are read, the contexts end with the lifespan.
ContextsFollow ==
    /\ "secret_manager" \in open => /\ at \in {"secrets", "close_secrets"}
                                  /\ "secrets" \in config
    /\ at = "over" => open \cap Contexts = {}

IInv == TypeOK /\ OpenAsWanted /\ SessionsFollow /\ EndsAsRaised /\ ContextsFollow
-----------------------------------------------------------------------------
\* The invariant holds when the lifespan begins.
LEMMA InitInvariant == Init => IInv
  <1> SUFFICES ASSUME Init PROVE IInv
    OBVIOUS
  <1>1. TypeOK
    BY NoneAssumption DEF Init, TypeOK, Following
  <1>2. OpenAsWanted
    BY DEF Init, OpenAsWanted, OpenBefore
  <1>3. SessionsFollow
    <2>1. raised = None /\ None # "secrets"
      BY NoneAssumption DEF Init, Following
    <2>2. ready = FALSE /\ sessions = {} /\ open = {} /\ at = "secret_manager"
      BY DEF Init
    <2>3. QED BY <2>1, <2>2 DEF SessionsFollow, AfterMcp
  <1>4. EndsAsRaised /\ ContextsFollow
    BY DEF Init, EndsAsRaised, ContextsFollow
  <1>5. QED BY <1>1, <1>2, <1>3, <1>4 DEF IInv

\* The settings do not change, so neither does what they ask for.
LEMMA WantedUnchanged == config' = config => \A r : Wanted(r)' = Wanted(r)
  BY DEF Wanted

\* A step of the startup that is skipped.
LEMMA SkipInvariant ==
  ASSUME IInv, NEW step \in Opening \cup {"close_secrets"}, Skip(step)
  PROVE  IInv'
  <1>1. TypeOK'
    BY NoneAssumption DEF IInv, Skip, TypeOK, Following, Opening
  <1>2. OpenAsWanted'
    BY WantedUnchanged, NoneAssumption
    DEF IInv, Skip, OpenAsWanted, SessionsFollow, OpenBefore, Following, Opening, Wanted
  <1>3. SessionsFollow'
    BY NoneAssumption
    DEF IInv, Skip, SessionsFollow, Following, Opening, AfterMcp, Early, Wanted
  <1>4. EndsAsRaised'
    BY NoneAssumption DEF IInv, Skip, EndsAsRaised, Following, Opening
  <1>5. ContextsFollow'
    BY NoneAssumption
    DEF IInv, Skip, ContextsFollow, Following, Opening, Wanted
  <1>6. QED BY <1>1, <1>2, <1>3, <1>4, <1>5 DEF IInv

\* A step of the startup that succeeds.
LEMMA TakeInvariant ==
  ASSUME IInv, NEW step \in Opening, Take(step)
  PROVE  IInv'
  <1>1. TypeOK'
    BY NoneAssumption DEF IInv, Take, TypeOK, Following, Opening, Resources
  <1>2. OpenAsWanted'
    <2>1. /\ at = step /\ at' = Following[step] /\ raised' = raised /\ config' = config
          /\ open' = open \cup ({step} \cap Resources) /\ Wanted(step)
      BY DEF Take
    <2>2. raised = None => open = {r \in OpenBefore[step] : Wanted(r)}
      BY <2>1 DEF IInv, OpenAsWanted, OpenBefore, Opening
    <2>3. OpenBefore[Following[step]] = OpenBefore[step] \cup ({step} \cap Resources)
      <3>1. CASE step = "secret_manager" BY <3>1 DEF OpenBefore, Following, Resources
      <3>2. CASE step = "secrets" BY <3>2 DEF OpenBefore, Following, Resources
      <3>3. CASE step = "http" BY <3>3 DEF OpenBefore, Following, Resources
      <3>4. CASE step = "tokens" BY <3>4 DEF OpenBefore, Following, Resources
      <3>5. CASE step = "langfuse" BY <3>5 DEF OpenBefore, Following, Resources
      <3>6. CASE step = "engine" BY <3>6 DEF OpenBefore, Following, Resources
      <3>7. CASE step = "checkpointer" BY <3>7 DEF OpenBefore, Following, Resources
      <3>8. CASE step = "checkpointer_setup" BY <3>8 DEF OpenBefore, Following, Resources
      <3>9. CASE step = "store" BY <3>9 DEF OpenBefore, Following, Resources
      <3>10. CASE step = "store_setup" BY <3>10 DEF OpenBefore, Following, Resources
      <3>11. QED BY <3>1, <3>2, <3>3, <3>4, <3>5, <3>6, <3>7, <3>8, <3>9, <3>10 DEF Opening
    <2>4. QED
      BY <2>1, <2>2, <2>3, WantedUnchanged DEF OpenAsWanted
  <1>3. SessionsFollow'
    BY NoneAssumption
    DEF IInv, Take, SessionsFollow, Following, Opening, AfterMcp, Early
  <1>4. EndsAsRaised'
    BY NoneAssumption DEF IInv, Take, EndsAsRaised, Following, Opening
  <1>5. ContextsFollow'
    BY NoneAssumption
    DEF IInv, Take, ContextsFollow, Following, Opening, Wanted, Resources
  <1>6. QED BY <1>1, <1>2, <1>3, <1>4, <1>5 DEF IInv

\* A step of the startup that raises.
LEMMA RaiseInvariant ==
  ASSUME IInv, NEW step \in Raising, Raise(step)
  PROVE  IInv'
  <1>1. TypeOK'
    BY NoneAssumption DEF IInv, Raise, TypeOK, Following, Opening, Raising
  <1>2. OpenAsWanted'
    BY NoneAssumption DEF IInv, Raise, OpenAsWanted, OpenBefore
  <1>3. SessionsFollow'
    BY NoneAssumption
    DEF IInv, Raise, SessionsFollow, Opening, Raising, AfterMcp, Early
  <1>4. EndsAsRaised'
    BY NoneAssumption
    DEF IInv, Raise, EndsAsRaised, SessionsFollow, OpenAsWanted, OpenBefore, Opening, Raising,
        AfterMcp, Early, ContextsFollow
  <1>5. ContextsFollow'
    BY NoneAssumption DEF IInv, Raise, ContextsFollow, Opening, Raising
  <1>6. QED BY <1>1, <1>2, <1>3, <1>4, <1>5 DEF IInv

\* Reading a secret raises; the client is closed next.
LEMMA SecretsFailInvariant ==
  ASSUME IInv, SecretsFail
  PROVE  IInv'
  <1>1. TypeOK'
    BY NoneAssumption DEF IInv, SecretsFail, TypeOK, Following
  <1>2. OpenAsWanted'
    BY NoneAssumption, WantedUnchanged
    DEF IInv, SecretsFail, OpenAsWanted, OpenBefore, Following
  <1>3. SessionsFollow'
    BY NoneAssumption
    DEF IInv, SecretsFail, SessionsFollow, AfterMcp, Early, Following, Wanted
  <1>4. EndsAsRaised'
    BY NoneAssumption
    DEF IInv, SecretsFail, EndsAsRaised, SessionsFollow, Following
  <1>5. ContextsFollow'
    BY NoneAssumption DEF IInv, SecretsFail, ContextsFollow, Following
  <1>6. QED BY <1>1, <1>2, <1>3, <1>4, <1>5 DEF IInv

\* The secret client is closed, with or without an exception under way.
LEMMA CloseSecretsInvariant ==
  ASSUME IInv, CloseSecrets
  PROVE  IInv'
  <1>1. TypeOK'
    BY NoneAssumption DEF IInv, CloseSecrets, TypeOK, Following
  <1>2. OpenAsWanted'
    BY NoneAssumption, WantedUnchanged
    DEF IInv, CloseSecrets, OpenAsWanted, OpenBefore, Following, Wanted, Resources
  <1>3. SessionsFollow'
    BY NoneAssumption
    DEF IInv, CloseSecrets, SessionsFollow, AfterMcp, Early, Following
  <1>4. EndsAsRaised'
    BY NoneAssumption
    DEF IInv, CloseSecrets, EndsAsRaised, SessionsFollow, Following, Opening, AfterMcp, Early
  <1>5. ContextsFollow'
    BY NoneAssumption DEF IInv, CloseSecrets, ContextsFollow, Following
  <1>6. QED BY <1>1, <1>2, <1>3, <1>4, <1>5 DEF IInv

\* An MCP server is connected.
LEMMA ConnectInvariant ==
  ASSUME IInv, NEW s \in Servers, Connect(s)
  PROVE  IInv'
  <1>1. TypeOK'
    BY NoneAssumption DEF IInv, Connect, TypeOK, Following
  <1>2. OpenAsWanted'
    BY NoneAssumption, WantedUnchanged
    DEF IInv, Connect, OpenAsWanted, OpenBefore, Following
  <1>3. SessionsFollow'
    BY NoneAssumption
    DEF IInv, Connect, SessionsFollow, AfterMcp, Early, Following
  <1>4. EndsAsRaised'
    BY NoneAssumption
    DEF IInv, Connect, EndsAsRaised, SessionsFollow, Following
  <1>5. ContextsFollow'
    BY NoneAssumption DEF IInv, Connect, ContextsFollow, Following
  <1>6. QED BY <1>1, <1>2, <1>3, <1>4, <1>5 DEF IInv

\* An MCP server cannot be reached.
LEMMA ConnectFailsInvariant ==
  ASSUME IInv, NEW s \in Servers, ConnectFails(s)
  PROVE  IInv'
  <1>1. TypeOK'
    BY NoneAssumption DEF IInv, ConnectFails, TypeOK, Following
  <1>2. OpenAsWanted'
    BY NoneAssumption, WantedUnchanged
    DEF IInv, ConnectFails, OpenAsWanted, OpenBefore, Following
  <1>3. SessionsFollow'
    BY NoneAssumption
    DEF IInv, ConnectFails, SessionsFollow, AfterMcp, Early, Following
  <1>4. EndsAsRaised'
    BY NoneAssumption
    DEF IInv, ConnectFails, EndsAsRaised, SessionsFollow, Following, AfterMcp
  <1>5. ContextsFollow'
    BY NoneAssumption DEF IInv, ConnectFails, ContextsFollow, Following
  <1>6. QED BY <1>1, <1>2, <1>3, <1>4, <1>5 DEF IInv

\* Every server is connected.
LEMMA ConnectedInvariant ==
  ASSUME IInv, Connected
  PROVE  IInv'
  <1>1. TypeOK'
    BY NoneAssumption DEF IInv, Connected, TypeOK, Following
  <1>2. OpenAsWanted'
    BY NoneAssumption, WantedUnchanged
    DEF IInv, Connected, OpenAsWanted, OpenBefore, Following
  <1>3. SessionsFollow'
    BY NoneAssumption
    DEF IInv, Connected, SessionsFollow, AfterMcp, Early, Following
  <1>4. EndsAsRaised'
    BY NoneAssumption
    DEF IInv, Connected, EndsAsRaised, SessionsFollow, Following
  <1>5. ContextsFollow'
    BY NoneAssumption DEF IInv, Connected, ContextsFollow, Following
  <1>6. QED BY <1>1, <1>2, <1>3, <1>4, <1>5 DEF IInv

\* The agent service is built and the lifespan yields.
LEMMA BuildAgentInvariant ==
  ASSUME IInv, BuildAgent
  PROVE  IInv'
  <1>1. TypeOK'
    BY NoneAssumption DEF IInv, BuildAgent, TypeOK, Following
  <1>2. OpenAsWanted'
    BY NoneAssumption, WantedUnchanged
    DEF IInv, BuildAgent, OpenAsWanted, OpenBefore, Following
  <1>3. SessionsFollow'
    BY NoneAssumption
    DEF IInv, BuildAgent, SessionsFollow, AfterMcp, Early, Following
  <1>4. EndsAsRaised'
    BY NoneAssumption
    DEF IInv, BuildAgent, EndsAsRaised, SessionsFollow, Following
  <1>5. ContextsFollow'
    BY NoneAssumption DEF IInv, BuildAgent, ContextsFollow, Following
  <1>6. QED BY <1>1, <1>2, <1>3, <1>4, <1>5 DEF IInv

\* The cleanup task ends by itself.
LEMMA CleanupDiesInvariant ==
  ASSUME IInv, CleanupDies
  PROVE  IInv'
  <1>1. TypeOK'
    BY NoneAssumption DEF IInv, CleanupDies, TypeOK, Following
  <1>2. OpenAsWanted'
    BY NoneAssumption, WantedUnchanged
    DEF IInv, CleanupDies, OpenAsWanted, OpenBefore, Following
  <1>3. SessionsFollow'
    BY NoneAssumption
    DEF IInv, CleanupDies, SessionsFollow, AfterMcp, Early, Following
  <1>4. EndsAsRaised'
    BY NoneAssumption
    DEF IInv, CleanupDies, EndsAsRaised, SessionsFollow, Following
  <1>5. ContextsFollow'
    BY NoneAssumption DEF IInv, CleanupDies, ContextsFollow, Following
  <1>6. QED BY <1>1, <1>2, <1>3, <1>4, <1>5 DEF IInv

\* The finally begins.
LEMMA StopInvariant ==
  ASSUME IInv, Stop
  PROVE  IInv'
  <1>1. TypeOK'
    BY NoneAssumption DEF IInv, Stop, TypeOK, Following
  <1>2. OpenAsWanted'
    BY NoneAssumption, WantedUnchanged
    DEF IInv, Stop, OpenAsWanted, OpenBefore, Following
  <1>3. SessionsFollow'
    BY NoneAssumption
    DEF IInv, Stop, SessionsFollow, AfterMcp, Early, Following
  <1>4. EndsAsRaised'
    BY NoneAssumption
    DEF IInv, Stop, EndsAsRaised, SessionsFollow, Following
  <1>5. ContextsFollow'
    BY NoneAssumption DEF IInv, Stop, ContextsFollow, Following
  <1>6. QED BY <1>1, <1>2, <1>3, <1>4, <1>5 DEF IInv

\* The cancelled cleanup task has ended.
LEMMA CleanupEndsInvariant ==
  ASSUME IInv, CleanupEnds
  PROVE  IInv'
  <1>1. TypeOK'
    BY NoneAssumption DEF IInv, CleanupEnds, TypeOK, Following
  <1>2. OpenAsWanted'
    BY NoneAssumption, WantedUnchanged
    DEF IInv, CleanupEnds, OpenAsWanted, OpenBefore, Following
  <1>3. SessionsFollow'
    BY NoneAssumption
    DEF IInv, CleanupEnds, SessionsFollow, AfterMcp, Early, Following
  <1>4. EndsAsRaised'
    BY NoneAssumption
    DEF IInv, CleanupEnds, EndsAsRaised, SessionsFollow, Following
  <1>5. ContextsFollow'
    BY NoneAssumption DEF IInv, CleanupEnds, ContextsFollow, Following
  <1>6. QED BY <1>1, <1>2, <1>3, <1>4, <1>5 DEF IInv

\* The HTTP client is closed.
LEMMA CloseHttpInvariant ==
  ASSUME IInv, CloseHttp
  PROVE  IInv'
  <1>1. TypeOK'
    BY NoneAssumption DEF IInv, CloseHttp, Release, TypeOK, Following
  <1>2. OpenAsWanted'
    BY NoneAssumption, WantedUnchanged
    DEF IInv, CloseHttp, Release, OpenAsWanted, OpenBefore, Following
  <1>3. SessionsFollow'
    BY NoneAssumption
    DEF IInv, CloseHttp, Release, SessionsFollow, AfterMcp, Early, Following
  <1>4. EndsAsRaised'
    BY NoneAssumption
    DEF IInv, CloseHttp, Release, EndsAsRaised, SessionsFollow, Following
  <1>5. ContextsFollow'
    BY NoneAssumption DEF IInv, CloseHttp, Release, ContextsFollow, Following
  <1>6. QED BY <1>1, <1>2, <1>3, <1>4, <1>5 DEF IInv

\* Closing the HTTP client raises.
LEMMA CloseHttpFailsInvariant ==
  ASSUME IInv, CloseHttpFails
  PROVE  IInv'
  <1>1. TypeOK'
    BY NoneAssumption DEF IInv, CloseHttpFails, TypeOK, Following
  <1>2. OpenAsWanted'
    BY NoneAssumption, WantedUnchanged
    DEF IInv, CloseHttpFails, OpenAsWanted, OpenBefore, Following
  <1>3. SessionsFollow'
    BY NoneAssumption
    DEF IInv, CloseHttpFails, SessionsFollow, AfterMcp, Early, Following
  <1>4. EndsAsRaised'
    BY NoneAssumption
    DEF IInv, CloseHttpFails, EndsAsRaised, SessionsFollow, Following, AfterMcp
  <1>5. ContextsFollow'
    BY NoneAssumption DEF IInv, CloseHttpFails, ContextsFollow, Following
  <1>6. QED BY <1>1, <1>2, <1>3, <1>4, <1>5 DEF IInv

\* Langfuse has been flushed.
LEMMA CloseLangfuseInvariant ==
  ASSUME IInv, CloseLangfuse
  PROVE  IInv'
  <1>1. TypeOK'
    BY NoneAssumption DEF IInv, CloseLangfuse, Release, TypeOK, Following
  <1>2. OpenAsWanted'
    BY NoneAssumption, WantedUnchanged
    DEF IInv, CloseLangfuse, Release, OpenAsWanted, OpenBefore, Following
  <1>3. SessionsFollow'
    BY NoneAssumption
    DEF IInv, CloseLangfuse, Release, SessionsFollow, AfterMcp, Early, Following
  <1>4. EndsAsRaised'
    BY NoneAssumption
    DEF IInv, CloseLangfuse, Release, EndsAsRaised, SessionsFollow, Following
  <1>5. ContextsFollow'
    BY NoneAssumption DEF IInv, CloseLangfuse, Release, ContextsFollow, Following
  <1>6. QED BY <1>1, <1>2, <1>3, <1>4, <1>5 DEF IInv

\* Langfuse is given up.
LEMMA LangfuseGivenUpInvariant ==
  ASSUME IInv, LangfuseGivenUp
  PROVE  IInv'
  <1>1. TypeOK'
    BY NoneAssumption DEF IInv, LangfuseGivenUp, TypeOK, Following
  <1>2. OpenAsWanted'
    BY NoneAssumption, WantedUnchanged
    DEF IInv, LangfuseGivenUp, OpenAsWanted, OpenBefore, Following
  <1>3. SessionsFollow'
    BY NoneAssumption
    DEF IInv, LangfuseGivenUp, SessionsFollow, AfterMcp, Early, Following
  <1>4. EndsAsRaised'
    BY NoneAssumption
    DEF IInv, LangfuseGivenUp, EndsAsRaised, SessionsFollow, Following
  <1>5. ContextsFollow'
    BY NoneAssumption DEF IInv, LangfuseGivenUp, ContextsFollow, Following
  <1>6. QED BY <1>1, <1>2, <1>3, <1>4, <1>5 DEF IInv

\* The MCP manager is closed.
LEMMA CloseSessionsInvariant ==
  ASSUME IInv, CloseSessions
  PROVE  IInv'
  <1>1. TypeOK'
    BY NoneAssumption DEF IInv, CloseSessions, TypeOK, Following
  <1>2. OpenAsWanted'
    BY NoneAssumption, WantedUnchanged
    DEF IInv, CloseSessions, OpenAsWanted, OpenBefore, Following
  <1>3. SessionsFollow'
    BY NoneAssumption
    DEF IInv, CloseSessions, SessionsFollow, AfterMcp, Early, Following
  <1>4. EndsAsRaised'
    BY NoneAssumption
    DEF IInv, CloseSessions, EndsAsRaised, SessionsFollow, Following
  <1>5. ContextsFollow'
    BY NoneAssumption DEF IInv, CloseSessions, ContextsFollow, Following
  <1>6. QED BY <1>1, <1>2, <1>3, <1>4, <1>5 DEF IInv

\* The engine is disposed.
LEMMA DisposeInvariant ==
  ASSUME IInv, Dispose
  PROVE  IInv'
  <1>1. TypeOK'
    BY NoneAssumption DEF IInv, Dispose, Release, TypeOK, Following
  <1>2. OpenAsWanted'
    BY NoneAssumption, WantedUnchanged
    DEF IInv, Dispose, Release, OpenAsWanted, OpenBefore, Following
  <1>3. SessionsFollow'
    BY NoneAssumption
    DEF IInv, Dispose, Release, SessionsFollow, AfterMcp, Early, Following
  <1>4. EndsAsRaised'
    BY NoneAssumption
    DEF IInv, Dispose, Release, EndsAsRaised, SessionsFollow, Following
  <1>5. ContextsFollow'
    BY NoneAssumption DEF IInv, Dispose, Release, ContextsFollow, Following
  <1>6. QED BY <1>1, <1>2, <1>3, <1>4, <1>5 DEF IInv

\* A database context ends.
LEMMA ExitContextInvariant ==
  ASSUME IInv, NEW c \in Contexts, ExitContext(c)
  PROVE  IInv'
  <1>1. TypeOK'
    BY NoneAssumption DEF IInv, ExitContext, TypeOK, Following
  <1>2. OpenAsWanted'
    BY NoneAssumption, WantedUnchanged
    DEF IInv, ExitContext, OpenAsWanted, OpenBefore, Following
  <1>3. SessionsFollow'
    BY NoneAssumption
    DEF IInv, ExitContext, SessionsFollow, AfterMcp, Early, Following
  <1>4. EndsAsRaised'
    BY NoneAssumption
    DEF IInv, ExitContext, EndsAsRaised, SessionsFollow, Following
  <1>5. ContextsFollow'
    BY NoneAssumption DEF IInv, ExitContext, ContextsFollow, Following, Contexts
  <1>6. QED BY <1>1, <1>2, <1>3, <1>4, <1>5 DEF IInv

\* The lifespan is over.
LEMMA EndInvariant ==
  ASSUME IInv, End
  PROVE  IInv'
  <1>1. TypeOK'
    BY NoneAssumption DEF IInv, End, TypeOK, Following
  <1>2. OpenAsWanted'
    BY NoneAssumption, WantedUnchanged
    DEF IInv, End, OpenAsWanted, OpenBefore, Following
  <1>3. SessionsFollow'
    BY NoneAssumption
    DEF IInv, End, SessionsFollow, AfterMcp, Early, Following
  <1>4. EndsAsRaised'
    BY NoneAssumption
    DEF IInv, End, EndsAsRaised, SessionsFollow, Following
  <1>5. ContextsFollow'
    BY NoneAssumption DEF IInv, End, ContextsFollow, Following, Contexts
  <1>6. QED BY <1>1, <1>2, <1>3, <1>4, <1>5 DEF IInv
-----------------------------------------------------------------------------
\* Every step of the lifespan preserves the invariant.
LEMMA NextInvariant == IInv /\ [Next]_vars => IInv'
  <1> SUFFICES ASSUME IInv, [Next]_vars PROVE IInv'
    OBVIOUS
  <1>1. CASE Start
    BY <1>1, SkipInvariant, TakeInvariant, RaiseInvariant, SecretsFailInvariant,
       CloseSecretsInvariant, ConnectInvariant, ConnectFailsInvariant, ConnectedInvariant,
       BuildAgentInvariant
    DEF Start
  <1>2. CASE CleanupDies \/ CleanupEnds
    BY <1>2, CleanupDiesInvariant, CleanupEndsInvariant
  <1>3. CASE Stop BY <1>3, StopInvariant
  <1>4. CASE CloseLangfuse \/ CloseSessions
    BY <1>4, CloseLangfuseInvariant, CloseSessionsInvariant
  <1>5. CASE Finish
    BY <1>5, CloseHttpInvariant, CloseHttpFailsInvariant, CloseLangfuseInvariant,
       LangfuseGivenUpInvariant, DisposeInvariant,
       ExitContextInvariant, EndInvariant
    DEF Finish
  <1>6. CASE UNCHANGED vars
    BY <1>6, WantedUnchanged
    DEF vars, IInv, TypeOK, OpenAsWanted, SessionsFollow, EndsAsRaised, ContextsFollow
  <1>7. QED BY <1>1, <1>2, <1>3, <1>4, <1>5, <1>6 DEF Next

\* The invariant of the lifespan.
THEOREM Invariance == Spec => []IInv
  BY InitInvariant, NextInvariant, PTL DEF Spec

\* Whatever the settings and the servers, the values stay in their types, and the cleanup
\* task has been told to stop when the first resource is closed.
THEOREM TypeCorrect == Spec => []TypeOK
  <1>1. IInv => TypeOK BY DEF IInv
  <1>2. QED BY <1>1, Invariance, PTL

\* /health answers 200 only while everything the settings ask for is open.
THEOREM ReadyOnlyWhenComplete == Spec => []ReadyIsComplete
  <1>1. ASSUME IInv, ready PROVE open = {r \in Resources \ {"secret_manager"} : Wanted(r)}
    <2>1. at = "serving" /\ raised = None
      BY <1>1 DEF IInv, SessionsFollow
    <2>2. open = {r \in OpenBefore["serving"] : Wanted(r)}
      BY <1>1, <2>1 DEF IInv, OpenAsWanted, OpenBefore
    <2>3. OpenBefore["serving"] = Resources \ {"secret_manager"}
      BY DEF OpenBefore, Resources
    <2>4. QED BY <2>2, <2>3
  <1>2. ASSUME IInv, ready PROVE sessions = Servers /\ ("workspace" \in config => cleanup # "none")
    BY <1>2 DEF IInv, SessionsFollow
  <1>3. IInv => ReadyIsComplete
    BY <1>1, <1>2 DEF ReadyIsComplete
  <1>4. QED BY <1>3, Invariance, PTL

\* Whatever failed, the database contexts and the secret client are not left open.
THEOREM ContextsNeverLeft == Spec => []ContextsAreClosed
  <1>1. IInv => ContextsAreClosed
    BY DEF IInv, ContextsFollow, ContextsAreClosed
  <1>2. QED BY <1>1, Invariance, PTL

\* Sessions are left open only by a startup that failed after the MCP manager had started,
\* or by an HTTP client that could not be closed; the engine also by a manager that could
\* not start.
THEOREM SessionsLeftOnlyThen == Spec => []SessionsAreClosed
  <1>1. IInv => SessionsAreClosed
    BY DEF IInv, EndsAsRaised, SessionsAreClosed
  <1>2. QED BY <1>1, Invariance, PTL
=============================================================================
