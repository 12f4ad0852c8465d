---------------------------- MODULE AppLifecycle -----------------------------
(***************************************************************************)
(* The lifespan of the application (main.py): what it opens before it      *)
(* answers, in which order, what an error at each point leaves behind, and *)
(* what the end of the process releases.                                   *)
(*                                                                         *)
(* One step of the lifespan is one await or one constructor that may fail. *)
(* Steps run in the order of Following; "exiting" is the end of the        *)
(* async-with blocks, reached normally or by an exception.                 *)
(***************************************************************************)
CONSTANTS
    Servers,   \* the enabled MCP servers
    None       \* nothing was raised

VARIABLES
    config,    \* the settings: which optional parts are configured
    at,        \* the step the lifespan is at
    open,      \* the resources that are open
    sessions,  \* MCP servers with an open session
    cleanup,   \* app.state.workspace_cleanup_task
    ready,     \* app.state.ready, the answer of /health
    raised     \* the step whose exception is unwinding the lifespan

vars == <<config, at, open, sessions, cleanup, ready, raised>>
-----------------------------------------------------------------------------
Options == {"secrets", "schema_tool", "token_auth", "langfuse", "postgres", "workspace"}

\* The order of the lifespan.  create_checkpointer_context and the store are entered,
\* then set up; the finally around the yield is what follows "serving".
Following ==
    [secret_manager |-> "secrets", secrets |-> "close_secrets", close_secrets |-> "http",
     http |-> "tokens", tokens |-> "langfuse", langfuse |-> "engine", engine |-> "mcp",
     mcp |-> "checkpointer", checkpointer |-> "checkpointer_setup",
     checkpointer_setup |-> "store", store |-> "store_setup", store_setup |-> "agent",
     agent |-> "serving", serving |-> "close_http", close_http |-> "close_langfuse",
     close_langfuse |-> "close_mcp", close_mcp |-> "dispose", dispose |-> "exiting",
     exiting |-> "over"]
ASSUME NoneAssumption == None \notin DOMAIN Following

AfterMcp == {"checkpointer", "checkpointer_setup", "store", "store_setup", "agent"}

Resources == {"secret_manager", "http", "langfuse", "engine", "checkpointer", "store"}
Contexts == {"checkpointer", "store"}   \* entered by async with

\* The part of the settings that asks for a step; the others are always taken.
Wanted(step) ==
    CASE step \in {"secret_manager", "secrets", "close_secrets"} -> "secrets" \in config
      [] step = "http"     -> {"schema_tool", "token_auth"} \cap config # {}
      [] step = "tokens"   -> "token_auth" \in config
      [] step = "langfuse" -> "langfuse" \in config
      [] step \in {"checkpointer", "checkpointer_setup", "store", "store_setup"}
                           -> "postgres" \in config
      [] OTHER             -> TRUE

\* Types; the cleanup task is told to stop before the first resource is closed.  It may
\* end much later: nobody awaits it.
TypeOK ==
    /\ config \subseteq Options
    /\ at \in DOMAIN Following \cup {"over"}
    /\ open \subseteq Resources /\ sessions \subseteq Servers
    /\ cleanup \in {"none", "running", "cancelling", "ended"}
    /\ cleanup = "running" => at = "serving"
    /\ ready \in BOOLEAN
    /\ raised \in DOMAIN Following \cup {None}

Init ==
    /\ config \in SUBSET Options
    /\ at = "secret_manager"
    /\ open = {} /\ sessions = {}
    /\ cleanup = "none" /\ ready = FALSE /\ raised = None
-----------------------------------------------------------------------------
(* Mutants: definitions below with a plausible bug, in no specification. *)

\* start without its own close when a server cannot be reached.
ConnectFailsOnly(s) ==
    /\ at = "mcp" /\ s \in Servers \ sessions
    /\ at' = "exiting" /\ raised' = "mcp"
    /\ UNCHANGED <<config, open, sessions, cleanup, ready>>

\* resolve_runtime_secrets without its finally.
SecretsFailAtOnce ==
    /\ at = "secrets" /\ Wanted("secrets")
    /\ at' = "exiting" /\ raised' = "secrets"
    /\ UNCHANGED <<config, open, sessions, cleanup, ready>>

\* A shutdown that forgets the cleanup task.
StopOnly ==
    /\ at = "serving"
    /\ at' = Following[at]
    /\ ready' = FALSE
    /\ UNCHANGED <<config, open, sessions, cleanup, raised>>

\* ready set before the agent service is built.
ReadyEarly(step) ==
    /\ at = step /\ Wanted(step)
    /\ at' = Following[step]
    /\ open' = open \cup ({step} \cap Resources)
    /\ ready' = (step = "engine")
    /\ UNCHANGED <<config, sessions, cleanup, raised>>

\* The shutdown of Langfuse awaited without a limit.
WaitForLangfuse == FALSE /\ UNCHANGED vars
-----------------------------------------------------------------------------
(* Startup *)

Skip(step) ==
    /\ at = step /\ ~Wanted(step)
    /\ at' = Following[step]
    /\ UNCHANGED <<config, open, sessions, cleanup, ready, raised>>

\* A step that succeeds; a resource is open from then on.
Take(step) ==
    /\ at = step /\ Wanted(step)
    /\ at' = Following[step]
    /\ open' = open \cup ({step} \cap Resources)
    /\ UNCHANGED <<config, sessions, cleanup, ready, raised>>

\* A step that raises, with nothing but the async-with blocks around it.
Raise(step) ==
    /\ at = step /\ Wanted(step)
    /\ at' = "exiting" /\ raised' = step
    /\ UNCHANGED <<config, open, sessions, cleanup, ready>>

\* resolve_runtime_secrets closes its client in a finally.
SecretsFail ==
    /\ at = "secrets" /\ Wanted("secrets")
    /\ at' = "close_secrets" /\ raised' = "secrets"
    /\ UNCHANGED <<config, open, sessions, cleanup, ready>>

CloseSecrets ==
    /\ at = "close_secrets" /\ Wanted("close_secrets")
    /\ open' = open \ {"secret_manager"}
    /\ at' = IF raised = None THEN Following[at] ELSE "exiting"
    /\ UNCHANGED <<config, sessions, cleanup, ready, raised>>

\* McpClientManager.start: one server after the other.
Connect(s) ==
    /\ at = "mcp" /\ s \in Servers \ sessions
    /\ sessions' = sessions \cup {s}
    /\ UNCHANGED <<config, at, open, cleanup, ready, raised>>

\* start closes what it has opened and raises.
ConnectFails(s) ==
    /\ at = "mcp" /\ s \in Servers \ sessions
    /\ sessions' = {}
    /\ at' = "exiting" /\ raised' = "mcp"
    /\ UNCHANGED <<config, open, cleanup, ready>>

Connected ==
    /\ at = "mcp" /\ sessions = Servers
    /\ at' = Following[at]
    /\ UNCHANGED <<config, open, sessions, cleanup, ready, raised>>

\* create_agent_service, the cleanup task of the GKE workspaces, ready, yield.
BuildAgent ==
    /\ at = "agent"
    /\ at' = "serving"
    /\ cleanup' = IF "workspace" \in config THEN "running" ELSE "none"
    /\ ready' = TRUE
    /\ UNCHANGED <<config, open, sessions, raised>>

\* The loop ends by an exception of its own, at any time; nobody awaits the task.
CleanupDies ==
    /\ cleanup = "running"
    /\ cleanup' = "ended"
    /\ UNCHANGED <<config, at, open, sessions, ready, raised>>
-----------------------------------------------------------------------------
(* Shutdown: the finally around the yield *)

\* cancel() only asks the cleanup task to end.
Stop ==
    /\ at = "serving"
    /\ at' = Following[at]
    /\ ready' = FALSE
    /\ cleanup' = IF cleanup = "running" THEN "cancelling" ELSE cleanup
    /\ UNCHANGED <<config, open, sessions, raised>>

\* The cancellation has reached the task, while the resources are being closed or later.
CleanupEnds ==
    /\ cleanup = "cancelling"
    /\ cleanup' = "ended"
    /\ UNCHANGED <<config, at, open, sessions, ready, raised>>

Release(step, resource) ==
    /\ at = step
    /\ at' = Following[step]
    /\ open' = open \ {resource}
    /\ UNCHANGED <<config, sessions, cleanup, ready, raised>>

CloseHttp == Release("close_http", "http")

\* aclose raises out of the finally: what follows is not closed.
CloseHttpFails ==
    /\ at = "close_http" /\ "http" \in open
    /\ at' = "exiting" /\ raised' = "close_http"
    /\ UNCHANGED <<config, open, sessions, cleanup, ready>>

CloseLangfuse == Release("close_langfuse", "langfuse")

\* Five seconds, or an error that close swallows.
LangfuseGivenUp ==
    /\ at = "close_langfuse" /\ "langfuse" \in open
    /\ at' = Following[at]
    /\ UNCHANGED <<config, open, sessions, cleanup, ready, raised>>

\* McpClientManager.close: a session that fails to close is logged.  Closing one sends a
\* DELETE to its server through a client without a read timeout: it may never return.
CloseSessions ==
    /\ at = "close_mcp"
    /\ sessions' = {}
    /\ at' = Following[at]
    /\ UNCHANGED <<config, open, cleanup, ready, raised>>

Dispose == Release("dispose", "engine")

\* The innermost async with that was entered ends first.
ExitContext(c) ==
    /\ at = "exiting" /\ c \in open \cap Contexts
    /\ c = "checkpointer" => "store" \notin open
    /\ open' = open \ {c}
    /\ UNCHANGED <<config, at, sessions, cleanup, ready, raised>>

End ==
    /\ at = "exiting" /\ open \cap Contexts = {}
    /\ at' = "over"
    /\ UNCHANGED <<config, open, sessions, cleanup, ready, raised>>
-----------------------------------------------------------------------------
Opening == {"secret_manager", "secrets", "http", "tokens", "langfuse", "engine",
            "checkpointer", "checkpointer_setup", "store", "store_setup"}
Raising == (Opening \ {"secrets"}) \cup {"agent"}

Start ==
    \/ \E step \in Opening \cup {"close_secrets"} : Skip(step)
    \/ \E step \in Opening : Take(step)
    \/ \E step \in Raising : Raise(step)
    \/ SecretsFail \/ CloseSecrets
    \/ \E s \in Servers : Connect(s) \/ ConnectFails(s)
    \/ Connected \/ BuildAgent

\* The end of the lifespan, without what Langfuse and the MCP servers do on their own.
Finish ==
    \/ CloseHttp \/ CloseHttpFails \/ LangfuseGivenUp \/ Dispose
    \/ (CloseLangfuse /\ "langfuse" \notin open)
    \/ \E c \in Contexts : ExitContext(c)
    \/ End

Next ==
    \/ Start \/ Stop \/ Finish
    \/ CleanupDies \/ CleanupEnds
    \/ CloseSessions
    \/ (CloseLangfuse /\ "langfuse" \in open)

\* A shutdown that has begun goes on; Langfuse may never answer, nor may an MCP server.
\* Neither the steps of startup nor the signal to stop must happen.
Spec == Init /\ [][Next]_vars /\ WF_vars(Finish)
-----------------------------------------------------------------------------
\* /health answers 200 only while everything the settings ask for is open, the cleanup
\* was started when there are workspaces, and the secret client is closed again.
ReadyIsComplete ==
    ready => /\ open = {r \in Resources \ {"secret_manager"} : Wanted(r)}
             /\ sessions = Servers
             /\ "workspace" \in config => cleanup # "none"

\* Whatever failed, and wherever, the database contexts and the secret client are not
\* left open.
ContextsAreClosed ==
    at = "over" => open \cap (Contexts \cup {"secret_manager"}) = {}

\* MCP sessions are left open only when startup failed after the MCP manager had started,
\* or when closing the HTTP client raised: a server that cannot be reached leaves no
\* session behind.  The engine is left open in these cases and when the manager failed to
\* start, for nothing disposes it then.  Every other end releases both.
SessionsAreClosed ==
    at = "over" =>
        /\ sessions # {} => raised \in AfterMcp \cup {"close_http"}
        /\ "engine" \in open => raised \in AfterMcp \cup {"close_http", "mcp"}

\* A shutdown that has begun ends, also when Langfuse never answers and while the cleanup
\* task runs on; nothing but an MCP server that does not answer the close of its session
\* can hold it.
ShutdownEnds == (at = "close_http") ~> (at = "over" \/ [](at = "close_mcp"))
=============================================================================
