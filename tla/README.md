# Formal model of the DeepAgent assistant

This directory holds TLA+ modules that model the backend (and the one page of the
frontend that drives it), the TLC configurations that check them on small instances,
and TLAPS proofs of the properties that matter most for every size. All paths below
are relative to the repository's root; `conversation_service.py` stands for
`src/services/conversation_service.py`, and so on.

`PROJECT.json` is the machine-readable side: the components, the runs, the map from
definitions to source lines, the hazards and the findings.

## 1. Inventory of the system

| component | state it keeps | operations | who it interacts with |
|---|---|---|---|
| Conversation service (`conversation_service.py`) | none of its own; local variables of each request | `send`, `confirm_tool`, CRUD, artifact download | repositories, harness, workspace service, memory |
| Repositories and tables (`repositories/`, `database/models/`) | runs, cards (tool confirmations), messages, artifacts, conversations, workspaces | one commit per method | the service, the publish tool, the cleanup task |
| Agent harness (`harness_service.py`, `agent_factory.py`) | the LangGraph thread (checkpoint), external | `reply`, `resume`, event stream, interrupts | model, tools |
| Chat page (`frontend/src/App.vue`) | shown card, shown form, `loading`, answers awaited | send, decide, submit, select the conversation | HTTP API by SSE |
| HTTP API (`api/`) | none | maps requests to service generators, cancels them on disconnect | service |
| MCP manager (`mcp_runtime/`) | one client per server, locks, frozen tool contract | `start`, `call_tool`, reconnect, `close` | MCP servers, header resolver |
| Token provider (`translator_token_provider.py`) | token, expiry, lock | `get_token` | translator service, model client, header resolver |
| Sandbox workspaces (`sandbox/`) | directories in one shared pod, activity rows | execute, file access, TTL cleanup | agent tools, service, cleanup task |
| Tools (`tools/`) | none | publish artifact, forms, templates, memory | workspace, external services |
| Long-term memory (`services/memory_service.py`) | keyed store | put, get | service, tools |
| Lifecycle (`main.py`) | the application's resources | lifespan start and stop, `health` | everything |
| Secrets, checkpointer, Langfuse (`core/`, `agent/checkpointer.py`, `observability/`) | a client or a context each | opened, used and closed by the lifespan | lifecycle |
| Language, configuration, logging, migrations, tool registry, template catalogue | static, or none | pure functions, startup reads | everything |

What is hard about it:

* **Interleaving at every await.** Every request has its own database session, every
  repository method commits, and nothing locks a row: two requests on one conversation
  interleave between any two commits (section 3).
* **Three records of one fact.** Whether a tool call is waiting is stored in the run's
  status, in the card's decision and in the LangGraph checkpoint; no transaction spans them.
* **Disconnects.** A closed browser tab cancels the request at whatever await it stands
  at; the handlers then commit through the same session.
* **Shared sessions.** Concurrent tool calls share one MCP session per server and
  meet its failure at the same time. A server may restart, or take requests and never answer;
  a call may be cancelled while it replaces the session.
* **Time.** A token is valid by the translator's clock and cached by ours; workspaces
  expire by their last activity.
* **One pod for everybody.** All directories lie in one sandbox, told apart by their paths
  only. The cleanup works from a list it read before conversations were used again, a
  deletion meets a run, a command runs on in its thread after its request is gone, and the pod
  may be unreachable or replaced.
* **Thirteen steps of startup**, half of them optional, any of which may fail.
* **Events in an order nobody chose.** Parallel tool calls answer in any order, perhaps without
  an id; one interrupt may ask for several decisions; a stream breaks at any event.

What makes each component correct:

* service: a card is decided once; a protected tool is called only under an approval
  and at most once; outcomes are true and final; runs and cards come to an end; a
  completed run has its reply and its artifacts.
* page: what it shows can be decided; a pending card comes back when the conversation is selected.
* MCP manager: one session per server, every session owned, the lock always released, at most
  one retry, a frozen tool contract, every call ended, recovery after an outage. (Ownership, the
  end and the recovery hold only in part: section 4.)
* token provider: a token handed out is valid, fetches are shared, waiters are served.
* workspaces: a directory the cleanup cannot find is left behind in known cases only; an expired one is
  removed, outages included; what is downloaded lies below the output directory of its own
  conversation; removing one conversation leaves the others alone.
* lifecycle: `/health` is ready only while every configured resource is open; what was opened
  is closed, also when a later step fails; a shutdown ends (as far as the MCP servers let it).
* event stream: the page shows a call as completed only when it is, the reply it shows is the one
  that was stored, and an interrupt with several calls runs none the user was not asked about.

## 2. Modules

| module | models | lines of code it stands for |
|---|---|---|
| `ToolApproval` | one conversation in the service: `send`, `confirm_tool`, the repositories, the thread | `conversation_service.py` 179-390, the repositories, `harness_service.py` 35-169, `api/conversations.py` 115-265 |
| `ToolApprovalProofs` | theorems about it | |
| `ApprovalCards` | abstract: what a confirmation card promises | no code; it is the specification |
| `ChatPage` | `ToolApproval` driven by one page; refines `ApprovalCards` | `App.vue` 81-223 |
| `ChatPageProofs` | theorems about `ChatPage`, the refinement of `ApprovalCards` among them | |
| `McpManager` | the connection manager and its callers | `mcp_client_manager.py`, `mcp_client.py`, `mcp_header_resolver.py` |
| `TokenProvider` | the token cache and its callers | `translator_token_provider.py` |
| `TokenProviderProofs` | theorems about it | |
| `McpManagerProofs` | theorems about `McpManager` | |
| `RuntimePaths` | logical and physical paths in the sandbox, as pure operators | `gke_runtime_paths.py`, the path handling of `gke_backend.py` and `gke_workspace_service.py` |
| `Workspace` | directories, activity rows and artifacts of several conversations, runs, deletions and the cleanup; uses `RuntimePaths` | `workspace_cleanup.py`, `gke_backend.py`, `workspace_artifact.py`, `conversation_service.py` (create, delete, artifacts), their repositories |
| `WorkspaceActivity` | `Workspace` with a history of when each conversation was last touched | `conversation_workspace_repository.py` |
| `WorkspaceProofs` | theorems about `Workspace` and the paths | |
| `AppLifecycle` | the lifespan of the application | `main.py`, `startup_secrets.py`, `runtime_secrets.py`, `google_secret_manager.py`, `checkpointer.py`, `langfuse_observability.py` |
| `AppLifecycleProofs` | theorems about it | |
| `AgentStream` | the events of one turn, from the graph to the page | `harness_service.py`, `agent_factory.py`, `conversation_service.py`, `client.ts`, `App.vue` |
| `AgentStreamProofs` | theorems about it | |
| `Lemmas` | facts about numbers, sequences and finite sets that several proofs use | |
| `MCToolApproval`, `MCChatPage`, `MCMcpManager`, `MCTokenProvider`, `MCWorkspace`, `MCWorkspaceActivity`, `MCAgentStream` | the instances TLC checks (`AppLifecycle` needs none) | |

The modules also hold *mutants*: copies of an action with a plausible bug. No
specification uses them. Each property is checked to fail when its mutant takes the
place of the action, so no property holds for lack of attention.

### ToolApproval

State. `run`, `card`, `messages`, `artifact` are the tables; a row is named by the
request that inserted it, because a request inserts at most one row of each kind
(`send` creates one run; a stream stops at its first interrupt). `runOrder` and
`cardOrder` stand for `created_at`. `checkpoint` is what a resume finds in the LangGraph
thread and `executed` the history of protected tool calls, both external. `phase[r]` is
the await a request stands at, `req[r]` its local variables.

Steps. One action per repository call, named for it. Reading and writing are separate
steps wherever an await lies between them: `CheckCard` loads the row, `Decide` writes it
by primary key, `RefreshCard` reloads it. `Flush` models SQLAlchemy's unit of work, which
emits a column only when its value differs from the loaded one; a write of a stale
object may therefore leave another request's value in place. `StartResume` loads the
checkpoint and `ApplyDecision` delivers the decision, so two resumes can load the same
interrupt.

Faults. `agent_error`: the stream raises. `disconnect`: `CancelledError` reaches an await
inside the `try` block, and its handler runs. `abandon`: no handler runs: the process
died, a commit failed and the session refused the handler's commit, the generator was
closed at a `yield`, the cancellation hit an await outside the `try`, or a second
cancellation hit the handler. A request is served once; a restart of the process is the
abandonment of every request, and the code has no recovery step to model.

### ApprovalCards and ChatPage

`ApprovalCards` is what a user would write down about a card: issued once, decided once,
called at most once and only after an approval, with a true outcome that stays.
`ToolApproval` alone does not implement it (findings below). `ChatPage` adds the page:
one request at a time (`loading`), no message while a card or a form is shown, a card
disappears at the click.

Selecting the conversation, in a new page (`Reload`) or again in this one (`SelectAgain`), clears card and
form and asks the service; `AnswerRestore` is the moment at which the service reads the pending cards,
`ShowRestored` the one at which the page shows the oldest of them, and `RestoreFails` a GET that fails, after
which nothing is restored. In between the message box is enabled. Forms are not restored at all.
Two constants say what the user does: `ReloadWhileLoading`, whether the conversation is selected during a
request, and `SendUnrestored`, whether anything is sent before the last selection was answered. The code
prevents neither.

`CardsKeepTheirPromise` is the refinement
`INSTANCE ApprovalCards WITH decision <- card[c].decision, ...`: with a page on which neither happens,
and no fault but an error of the agent, the service implements the cards. A failed GET does not
break this: the user then selects the conversation again before sending.

### McpManager

State. `clients`, `contract` and `lock` are the manager's three dictionaries; `session`
are the `McpClient` objects; `call[r]` the locals of a caller inside `call_tool`;
`server` the external servers. asyncio is cooperative, so the code between two awaits is one
action: `Disconnect` pops the client and begins to close it, `SkipReconnect` takes the
lock, compares, releases it and finds the client for the retry. `Cancel` is the
cancellation of the agent stream at any await; it passes `except Exception` by, so a session that
was being connected stays open and nothing refers to it (`abandoned`). A close that raises or is
cancelled leaves its session `unclosed`: perhaps open, with nobody to try again. Both kinds stay
`Live`. That every session has an owner is therefore false of the code (section 4); what holds, and is
proved, is `LeftIsLast`: a session is left only as the last one of its server, which has no
stored client from then on, so no number of calls makes more of them.

A server stops (`Stop`, every session of it is dead), comes back, or falls silent: it keeps its
connections and answers nothing. Tool calls are under `asyncio.timeout` and then fail; connecting, discovery
and the close of a session read without a limit, and the fairness leaves them out while the server
is silent (`Stuck`).

`Answers` says which outcomes an attempt can have: a broken connection or a timeout may come
after the tool ran, so the retry can run it a second time. This is documented behaviour
("adopts the same retry strategy for all MCP tools", `docs/INITIALIZATION.md:268`), so it is
not excluded; what the properties require is one retry at most, on another session.

### TokenProvider

Time in ticks. The translator issues the token somewhere inside the HTTP request, and its
lifetime starts then; the provider counts from the response. The timeout is httpx's: it limits each
network operation and starts anew with the next (`NextRead`), so a response that arrives in up to
`MaxReads` reads may take `MaxReads` times the timeout after the issue. `HandedTokenIsValid` asks
whether the safety window absorbs the difference.

### RuntimePaths and Workspace

A path is the sequence of its segments. `Normalize` is `posixpath.normpath`, written as a recursive
function over the segments (`Resolved`) so that it can be proved about; `PhysicalPath` is the
alias table of a conversation, `Reached` what the file API of the sandbox touches in the end, and
`NormalizeOutput` the check of a published path, which normalises before it compares.

State. `conversation`, `activity` and `artifact` are the tables; an activity row is kept as the
time since `last_activity_at`, up to one tick past the retention, which is all the cleanup
compares. `pod` is the set of paths that exist in the sandbox, external. `request[r]` is an
HTTP request with the conversation it works on, `sweep` the cleanup task with the list it read.

Steps. A message or a decision is `Ask`, then the insert of the activity row or, when `touch` read
one, `KeepActivity`, which writes nothing: SQLAlchemy emits no `UPDATE` for a column that keeps its
value. The run then issues commands, which create the two directories and may write the files
`map_command` places for the paths in them (`CommandWrites`), reads a file for publishing and stores the row in a later step. A deletion releases the directory and
drops the rows in two steps, whatever came of the release. A pass of the cleanup is
`ListExpired`, and for each entry `SweepRemove` and `SweepForget`, or `SweepSkip`.
A request is used once. `Take` lets the next free one be named by a `CHOOSE`: requests are
interchangeable, so which one it is does not matter.

Faults, of the kinds in `FaultKinds` and at most `MaxFaults` of them: the sandbox is unreachable for a
while (`PodDown`), the pod is replaced by an empty one (`PodRebuilt`), the process restarts (`Restart`: its
requests, threads and list are gone, rows and pod stay), a statement of the cleanup fails
(`SweepFails`), `rm -rf` ends with an error and leaves any part of the directory (`RemoveWorkspace`; the
exit code is not looked at), a command works by itself on paths that are no alias, in the
directory of another conversation too (`CommandTrespasses`, `ShellPaths`: the directories are no boundary
for a shell). A client may disconnect at any time; a command it waited for runs to its end in
the thread (`abandoned`). The conversations in `refused`, any of `Unplaceable`, have a staff id that the API
accepts and `_STAFF_ID` refuses: every operation of the sandbox raises for them (`Reachable`).

`overtaken` is a history. It names the conversations whose removal met another user of the
directory, or whose deletion could not reach it. `Excused` adds those whose `rm` failed and those
into whose directory a stray command wrote. The code has no lock or check for any of them, so what it promises
is relative to it: `OrphanOnlyWhenOvertaken` says that these are the only ways to leave a
directory behind that no cleanup will find, and `ExpiredRowIsSwept` that a directory past the
retention is removed otherwise.

### AppLifecycle

`at` is the step of the lifespan, in the order of `Following`; each is one await or one
constructor that may fail, skipped when the settings do not ask for it. `config` is any subset of
the optional parts. `raised` is the step whose exception unwinds the lifespan; `exiting` is the end
of the async-with blocks, on which the checkpointer and the store leave in reverse
order. Only what follows the `yield` stands in a `finally`, so an error of startup after the MCP
manager has started leaves sessions and the engine to the process's end, and an error of the
manager's start the engine alone: `SessionsAreClosed` says exactly when. The `finally` only asks the cleanup
task to end (`Stop`) and awaits nothing of it; the task is `cancelling` until `CleanupEnds`, which may come
while the resources are being closed or after all of them. The manager's own start and stop appear as `Connect`, `ConnectFails` and
`CloseSessions`; `McpManager` has their details.

### AgentStream

`graph` is what the LangGraph graph does (external): text, a message with calls, its tools, an
interrupt, an end. `pending` and `answer` are the local variables of `_stream_graph` and of the
service, `network` the events on their way, `page` what `App.vue` shows. A turn may pause at an
interrupt; `Decide` opens the second stream, with new local variables. `identified` says whether
the provider gives its calls ids; without them a result ends the oldest pending call of its tool.
An interrupt asks for every gated call of one model message. The service stores a card for the
first, and `resume` passes one decision: with several actions the middleware raises, the turn
fails, and nothing runs undecided (`UndecidedNeverRuns`).

## 3. Runs, bounds and what they show

| run | instance | expects | properties |
|---|---|---|---|
| `ApprovalConcurrent` | 3 requests, 2 at once, every fault, symmetric | pass | `TypeOK`, `StatusFollowsDecision`, `ToolRunsOnlyAfterDecision`, `NoOrphanedWork`, `CompletedRunHasReply`, `AttachedArtifactHasReply` |
| `ChatPage` | 4 requests, 2 at once, agent errors, 1 selection under way at a time, none during a request, nothing sent before it is answered | pass | `PageTypeOK`, `ToolCalledAtMostOnce`, `CompletedRunLeavesNoLooseArtifact`, `ShownCardIsAwaited`, `CardsKeepTheirPromise`, `ApprovedCardSettles`, `RunStops` |
| `McpManager` | 1 server, 2 callers, 4 sessions, 3 offers, 1 restart or silence | pass | `TypeOK`, `OneSessionPerServer`, `StoredSessionIsOpen`, `LeftIsLast`, `LockHolderReplaces`, `OutcomeAgreesWithAttempts`, `ContractFrozen`, `EveryCallEnds` |
| `TokenProvider` | 2 callers, lifetime 4, window 2, timeout 1, responses of 2 reads, 9 ticks | pass | `TypeOK`, `HandedTokenIsValid`, `FetchOnlyWhenStale`, `WaiterIsServed` |
| `Workspace` | 2 conversations of one member of staff, 2 requests, 1 artifact, retention 1 tick, 1 fault of any kind, the staff id of one refused or not | pass | `TypeOK`, `OrphanOnlyWhenOvertaken`, `DownloadsAreOutput`, `RemovalIsLocal`, `SweepRespectsRow`, `ExpiredRowIsSwept` |
| `AppLifecycle` | 2 MCP servers, every configuration, an error at every step | pass | `TypeOK`, `ReadyIsComplete`, `ContextsAreClosed`, `SessionsAreClosed`, `ShutdownEnds` |
| `AgentStream` | 6 calls of 4 tools, at most 3 made, 2 in one message, 1 token per stream | pass | `TypeOK`, `ActivitiesFollowCalls`, `ShownReplyIsStored`, `UndecidedNeverRuns` |
| `SucceededUncalled` | 3 requests, one at a time, no fault | violation | `SucceededMeansCalled` |
| `SuccessOverwritten` | 2 requests, one at a time, disconnects | violation | `SuccessIsFinal` |
| `DecidedTwice` | page, 3 requests, 2 at once, selection during a request | violation | `DecisionIsFinal` |
| `McpRecovery` | 1 server, 1 caller, calls keep coming | violation | `RecoversAfterOutage` |
| `WorkspaceExpiry` | as `Workspace`, no fault | violation | `KeptSinceLastActivity` |

The largest passing runs have 1,053,845 distinct states (`Workspace`), 859,244
(`ApprovalConcurrent`), 617,367 (`AgentStream`), 194,000 (`McpManager`), 105,000 (`ChatPage`) and
62,419 (`TokenProvider`).

Why the bounds are enough:

* Three requests are a send that creates a card and two requests that compete for it, or two
  sends and a decision; two at once is every pairwise race. `ChatPage` has four, so that
  two approvals in a row (send, approve, approve the next card, one more) happen. The proofs
  of section 5 remove the bound for the properties of `ApprovalConcurrent` and the safety
  properties of `ChatPage`, `CardsKeepTheirPromise` included, and for the selections under way.
  While nothing is sent before a selection is answered and none is made during a request, two
  selections find the same card, so one at a time shows what there is.
* Two callers give every race for one lock: one replaces, one waits, either is
  cancelled. Locks, clients and contracts are per server and a call touches one
  server, so one server shows the calls; the order of several servers at startup
  shows only in `BootConnect`/`BootFail`, where a failure after a success is a failure
  of the one server before or after it is stored. Four sessions never delay a reconnect: with
  two callers at most three are held when one is to be created. The offers are the
  contract of startup, a changed schema and one without an allowlisted tool. One
  restart is enough for stale sessions, one silence for a call that is held and those that wait
  for it; other failures of a session (`broken`, `other_error`, `CloseRaises`, `DiscoverFails`) are
  unbounded.
* Two requests on a conversation are a run and a deletion, two runs, or two deletions, each
  with the cleanup, which is always there. Two conversations of one member of staff are
  neighbours in the pod: what a wrong path or a wrong `rm -rf` would hit. Retention 1 gives every
  age the code tells apart (new, at the limit, past it). One fault at any point is enough for
  the properties, which speak of one outage, one failed statement, removal or stray command; the
  proofs remove all these bounds for every invariant and action property. The paths published are one
  below the output directory and one that leaves it by `..`; the path a stray command reaches is a
  file of the other conversation. A conversation whose staff
  id is refused beside one whose is not shows that the pass goes on.
* Two MCP servers give a startup that fails after the first and before the second.
* Six calls are two of a tool without approval, two of a gated one, one that publishes, one that
  is hidden; of these every three can be made. Two in one message are every parallel pair, two gated
  ones in one interrupt included; the third is a call after a result. One token is
  enough to tell the text of one stream from that of the next. The proofs remove these bounds
  for all four invariants.
* Nine ticks are two lifetimes of a token and the refresh between them; two reads of one tick
  each equal the safety window, the largest value for which tokens stay valid. Two reads are the
  fewest for which the timeout of the request is not the duration of the response.

Fairness and why the code justifies it:

* `ToolApproval`, `ChatPage`: weak fairness of each request's own steps. A request is an
  asyncio task that the event loop runs to its end; the agent's stream ends because
  LangGraph bounds the steps of a graph. That takes for granted that each step ends; one that calls an
  MCP tool may not (section 4), and then its run says running for as long. There is no
  fairness of users, of restores or of faults.
* `McpManager`: weak fairness of a call's steps, strong fairness of taking the lock
  (`asyncio.Lock` wakes its waiters in order), but none of the awaits of a reconnect while the
  server is silent (`Stuck`): connecting and closing read without a limit (`mcp_client.py:63`). So
  `EveryCallEnds` says that a call ends unless it is `Held` by a server that stays silent.
  `RecoverySpec` adds that calls keep being made, or recovery would not be asked for.
* `TokenProvider`: each operation of a fetch ends by its timeout at the latest, and a response has an
  end (`MaxReads`); the lock is fair.
* `Workspace`: weak fairness of the cleanup, a task of the event loop, and of the end of an
  outage. The clock, users and faults are not fair. `ExpiredRowIsSwept` excepts a failed
  statement, after which the task may be gone for the life of the process, and what `Excused` names.
* `AppLifecycle`: weak fairness of the end of the lifespan. Not of startup, which may wait for a
  server, not of Langfuse, which may never answer: there the shutdown goes on by its timeout; and not
  of the close of the MCP sessions, whose DELETE has none: `ShutdownEnds` says that nothing else can
  hold the shutdown. Nor must the cleanup task, asked to end, ever do so.
* `AgentStream` claims no liveness.

`CHECK_DEADLOCK` is on in every run but two. `AllServed` and `Stopped` are the places where a
behaviour of `ToolApproval`, `ChatPage` and `McpManager` may stay for ever: the bounded set of requests is
used up, and the manager has failed or been closed; in `Workspace` the clock goes on. It is off in
`AppLifecycle` and `AgentStream`, where the lifespan and the turn end.

## 4. Findings

Each is the counterexample of a run that expects a violation.

1. `SucceededUncalled`: send, card; send again (the service does not look for a waiting
   run, the new message discards the interrupt), reply; approve the old card: the
   resume finds an idle thread and ends, and `mark_succeeded` records success of a call
   nobody made. On a chat page it needs a message sent before the card of a selected conversation
   is restored, or after that has failed (`PageRecordsCalls` in section 5), since its sender is disabled
   while a card is shown. Other clients of the API have no such sender.
2. `SuccessOverwritten`: an approved call succeeds and leads to the next interrupt; the
   client disconnects before the run is parked; the handler records the call as cancelled.
3. `DecidedTwice`: the decision is checked and written in separate transactions without a
   condition in the `UPDATE`; a page that selects the conversation meanwhile offers the card again, and
   both decisions are accepted. The docs promise an atomic transition from `pending`.
4. `McpRecovery`: a reconnect that fails leaves no client, and a call that finds no client
   does not reconnect. The docs require recovery after a server's restart.
5. `WorkspaceExpiry`: a conversation is asked something, the clock passes the retention, it is asked
   again, and the next pass of the cleanup lists its directory. `touch` assigns the staff id
   the row already has, so nothing is updated and `last_activity_at` stays at the first message.
   `src/README.md` promises two days after the last activity.

The modules hold five more limits of the code, which no run states as a violation. The properties name them as
exceptions, or a constant excludes them; with the other value of the constant TLC shows each.

* A call whose stream is cancelled while it reconnects leaves the new session open: the handler at
  `mcp_client_manager.py:234` is `except Exception`, and nothing refers to the client any more, although the
  comment at `mcp_client.py:37` says that a reconnect or the end of the application releases it.
  (`Cancel`, and `Left` in `LeftIsLast`.)
* A server that takes a reconnect and does not answer keeps the call, and the server's lock, for ever, and the
  close of its session the shutdown: only `call_tool` is under the timeout that the comment at
  `mcp_client.py:36` promises for a call. (`Held` in `EveryCallEnds`; `ShutdownEnds`.)
* With the defaults (lifetime 30 s, window 5 s, timeout 3 s) a response of two slow reads arrives up to six
  seconds after the token was issued; at the end of the cache's time a token is handed out that the
  translator refuses. (`HandedTokenIsValid` with `MaxReads * RequestTimeout > RefreshBefore`.)
* Send, card, reload; a message sent before the pending cards arrive, or after a GET has failed, goes over the
  waiting card. If its run waits in turn when the old card appears, the decision of that card is refused,
  though `src/README.md:91` says that one can go on confirming; if the run is done, the decision is
  accepted, nothing is called, and success is recorded. (`ShownCardIsAwaited` and `CardsKeepTheirPromise`
  with `SendUnrestored = TRUE`.)
* `rm -rf` fails, its exit code is dropped (`gke_backend.py:159`), the row goes, the directory stays for good.
  (`faults.unremoved` in `Excused`.)

## 5. Proofs

`ToolApprovalProofs` proves, for any set of requests, any `MaxActive` and any subset of the faults,
the six properties of `ApprovalConcurrent`. None of them is inductive. The invariant `IInv` adds:

* `DecisionsNameACard`, `SettlersApprove`: what the phases say about a request's kind; without them
  a `SetExecution` could write to a row that does not exist.
* `CardsAppearLate`: a card row exists only from its creator's `carded` phase on and starts pending,
  so a creation never erases a decision.
* `AcceptedCards`: what the checks found stays true while other requests write the same row; it
  makes `ToolRunsOnlyAfterDecision` inductive, and it holds because no repository method takes a
  decision back or moves a card to another run.
* `TracesOfStreams`: messages, calls and artifacts belong to requests whose kind, card and run no
  longer change.
* `ReplySaved`: between `SaveReply` and `CompleteRun` the reply is in the table.
* `RunningCardIsOwed`: stronger than the second half of `NoOrphanedWork`: the request that owes a
  card its outcome has loaded the value `running` (or will reload the row), so that its write is
  really emitted. Without it `Flush` could swallow the outcome.

The argument is one lemma per conjunct, each by cases on the actions of one request, over lemmas
that say what a step of one request can change at all. `StepInvariant` joins them, and `Invariance`
closes with the temporal rule. The assumptions are `NoneAssumption`, `MaxActiveAssumption` and
`FaultsAssumption`.

`ChatPageProofs` first shows that every step of the page is a step of the service or none
(`PageIsService`), so `IInv` holds of it too, and `PageTypeCorrect` follows with no assumption on
faults, selections or messages. Its other theorems assume `OnePage`: the conversation is not selected
during a request, nothing is sent before a selection is answered, no fault but `agent_error`. The findings
`SuccessOverwritten`, `DecidedTwice` and `SucceededUncalled` show that each of the three is needed. Then the page waits for every request in progress, so all others rest
(`WorkerIsAlone`), and what a request read before an await is still true after it. `OneInv` says
what that is:

* `PendingIsHeld`: an undecided card is what the thread waits for, its run is the newest that awaits
  a decision, and the card is shown, or being decided, or about to be shown, or the page is being
  restored. There is at most one such card.
* `RestoreIsQuiet`, `AnswerIsCurrent`: while a selection is not answered no request is under way and
  no form is shown, so the card the service has found is still the oldest pending one
  (`RestoredCard`, over `CardsListed`) when the page shows it.
* `HoldsInterrupt`, `HoldsChoice`: what a stream owes between the interrupt and `ParkRun`, and what
  a decision may rely on until it is delivered: the card undecided until `Decide`, the thread at
  that card's interrupt, no call yet.
* `RunsApproval`, `CalledIsDecided`: an approval finds its card running until it settles it, and
  called after the delivery; this makes `succeeded` true and the call the only one.
* `WorksOnNewest`, `WorksOnRunning`: the run a request works on is the newest that matters, says
  running, and its artifacts are attached before it completes.

`PageImplementsCards` maps each step: `CreateCard` to `Issue`, `Decide` to `Approve` or `Reject`,
the delivery of an approval to `CallTool`, the four writers of an outcome to `Settle`, every other
step to a stutter.

What `ApprovalCards` promises then holds of the service's tables: `PageDecidesOnce`,
`PageKeepsSuccess` and `PageRecordsCalls` prove `DecisionIsFinal`, `SuccessIsFinal` and
`SucceededMeansCalled`, the three properties the findings 1 to 3 violate, by one lemma about a step
of the abstract cards (`CardsStep`). So each of those findings needs what `OnePage` excludes: a
message sent over a waiting card (before it is restored), a disconnect, or a selection during a
request.

`TokenProviderProofs` proves `FetchOnlyWhenStale` and `HandedTokenIsValid` for any callers and any
settings the validators accept; its invariant says that the request in flight belongs to the lock's
holder, that the network operation it waits for is no older than the timeout, that its token is no older than
the reads since the issue times the timeout, and that the cache overestimates a lifetime by at most
`MaxReads * RequestTimeout`. `HandedTokenIsValid` needs `MaxReads * RequestTimeout <= RefreshBefore`: a
condition on the translator's answers as much as on the settings. The validators of
`TokenAuthSettings` do not require it, and the defaults (3 s and 5 s) satisfy it only for answers of one
read (section 4). It also identifies the lifetime the translator grants with
`token_ttl_seconds`, which is configuration.

Its `TypeCorrect` adds the types of the callers and the bounds of the clock.

`McpManagerProofs` proves the invariants of `McpManager` and `ContractFrozen`, for any servers,
callers, sessions, offers and restarts. The hard one is `OneSessionPerServer`: a live session is
stored in `clients`, or being connected by `start`, or is the `fresh` one of the call that holds the
server's lock, or is left, and these exclude each other: `LeftIsLast` and `LeftOnce` (a server has one left
session at most) are part of the invariant. `IInv` also adds `LocalsFollow` and
`AttemptsFollow` (what the place of a call says about its locals and its attempts), `ManagerFollows`
(calls only of a ready manager, clients only with a contract), `ReplacedIsClosing` (the lock's
holder has taken the old client out of the table and the new one is not in yet), `BootingConnects`
and `LiveHasServer`.

`AppLifecycleProofs` proves the four invariants for any set of servers. `IInv` says step by step
which resources are open without an error (`OpenAsWanted`), which sessions and which flags belong to
which step (`SessionsFollow`, with the cleanup task asked to end before the first release), what each
exception leaves behind (`EndsAsRaised`), and when the
secret client and the database contexts are open (`ContextsFollow`); one lemma per action.

`WorkspaceProofs` proves all five safety properties of `Workspace` (`TypeOK`, `DownloadsAreOutput`,
`OrphanOnlyWhenOvertaken`, `SweepRespectsRow`, `RemovalIsLocal`) for any conversations, owners,
requests, published paths, paths a shell reaches, refused staff ids, retention, kinds and number of
faults.

* Removals. The invariant carries the three intervals in which a removal and a use can miss each
  other: a request past `touch` has its row (`UsedHasRow`), a released or removed directory is gone
  until its row is (`ReleasedIsGone`, `RemovedIsGone`), unless the history has recorded a meeting,
  a failed `rm` or a stray command (`Excused`), and it misses no meeting (`MetIsRemembered`). `ListedHasExpired` is what the stale list of the
  cleanup still guarantees. The argument is by what a step can begin or end: `DirectoryAppears`,
  `RowDisappears`, `UseBegins`, `RemovedStays`, `ReleasedStays`; `RemovalEnds` and `CommandEnds` say what
  a removal and a command may do at most, their faults included.
* Paths. `RemovalIsLocal` rests on `OneWorkspace` (no path lies in two conversations' directories)
  and `PhysicalPathIsOwn`. `TypeOK` says where every file of the pod lies: strictly below some
  conversation's directory, among the shared skills, or among the paths a shell reaches by itself
  (`PodTyped`, by `PhysicalPathPlace`). `RemovalIsLocal` speaks of the steps that are no fault.
* Downloads. `Published` and `ArtifactsTyped` say that a row, or a request about to store one, has a
  path that `normalize_output_path` accepted, and that its conversation is still there. Such a path
  is its own normal form (`OutputFixed`, since normalising twice changes nothing: `NormalizeFixed`),
  only the alias of the output directory fits it (`OutputAlias`), and the file API's detour over a
  relative path gives the physical path back (`OutputReached`), which lies in that conversation's
  directory.
* Recursion. That `Normalize` gives a path without `.` and `..` is a statement about a recursive
  function. The library's induction theorems are out of the provers' reach, so the proof takes a
  least counterexample (`Least` in `Lemmas`); that the recursive function exists at all is shown in
  `ResolvedStep`, by the same means.

Assumptions: `NoneAssumption`, `RetentionAssumption`, `BoundsAssumption`, `FaultsAssumption`, and
`PathsAssumption`, which is no more than the type of the published paths.

`AgentStreamProofs` proves the four invariants of `AgentStream` for any calls and tools, any gated
tools and any bounds on calls and tokens. None is inductive as it stands; the invariant `IInv` adds
what holds between the graph, the events on their way and the page:

* `EventsFit`, `DoneIsLast`, `StreamFollows`: what an event on its way says of the graph is still
  true when the page takes it. They make `ShownReplyIsStored` follow from `TextFollows`: the text
  shown plus the tokens on their way is the answer of the stream.
* `BatchFollows`, `ApprovedFirst`: how far the calls of a message are when the graph is in the
  model, at an interrupt or in its tools. An interrupt with several actions is never decided (the
  harness fails the turn), so an approval is of the one call whose card was shown (`SoleAction`);
  with these `UndecidedNeverRuns` is inductive.
* `IdsFollow`: with ids from the provider, a result finds its own id in the list of its tool, or the
  lists are empty because the second stream began after the calls; so a result never ends another
  call (`OwnResult`).
* `SettledFollows`: without ids that is false, and what remains is a count: per tool, the calls
  shown as completed or with a `tool_end` on its way are at most the finished ones. The proof counts
  finite sets; lists of ids are sequences without repetitions that `Without` shortens by one
  (`Appended`, `Removed`, `OneMore` in `Lemmas`).
* `PageFollows`: offered files were published, and nothing is shown as running when the stream is
  over.

Assumptions: `ToolAssumption`, `NoneAssumption`, `BoundsAssumption`.

Only model-checked are the six liveness properties (`ApprovedCardSettles`, `RunStops`,
`EveryCallEnds`, `WaiterIsServed`, `ExpiredRowIsSwept`, `ShutdownEnds`): fairness and `ENABLED` are
out of the prover's reach. Every invariant, every action property and the refinement that a passing
run checks is proved.

## 6. Abstractions

* Contents of messages, tool arguments, forms, tokens and schemas are not modelled; names
  and model values stand for them. Logging and wording are left out.
* `ToolApproval` and `AgentStream` model a conversation alone: no row, thread or lock is shared
  between two. `Workspace` has several, because they share the pod.
* An interrupt has one action request in `ToolApproval`; interrupts with several are in `AgentStream`.
* A command of `Workspace` writes every published path or none, or strays to the paths of
  `ShellPaths`; other contents of a directory do not matter to the properties. Uploads through the file
  API and symbolic links are not modelled, nor is the await of a download between its row and its file:
  `DownloadsAreOutput` takes both at one moment.
* The page receives one event per step; `readSse` collects the chunks of the byte stream.
* A thread whose graph run was cut off is `Busy`: a resume continues it. What LangGraph
  re-executes then is external and not claimed.
* Two streams on one thread keep one checkpoint, last writer wins.
* The page is one browser tab with one conversation; several tabs are the free requests of
  `ToolApproval`. A switch to another conversation and back is a selection of this one.
* The three GETs of a selection are one read of the pending cards: the others restore no state the
  properties speak of.

Not modelled, and why:

* Response language: two regular expressions over text and a fold over the history. It reads no
  state another component writes.
* The content of diagnostic records and their redaction, titles, the replacement of paths inside the
  text of commands and outputs: string processing, no interleaving.
* Configuration, logging, request plumbing, migrations: static or formatting; what the models need of
  the settings is stated as assumptions on constants.
* Tool registry and template catalogue: built once at startup, or read only.
* Long-term memory: one keyed put or get of the external store; `ToolApproval` has the refusal
  of a form.
* Several conversations on one page: an event of a stream reaches the page after another conversation
  was selected, and of two histories loaded in quick succession the later answer is shown.
  It is listed as a hazard without a property.

## 7. Plan

Done, in this order: `ToolApproval`, `ApprovalCards` and `ChatPage` (composition and refinement),
`McpManager`, `TokenProvider`; then `RuntimePaths`, `Workspace` and `WorkspaceActivity`, `AppLifecycle`,
`AgentStream`; proofs of every safety property of all of them but `WorkspaceActivity`, whose one property
is a finding. What the cards promise is proved of the service through the refinement.

Next:

1. The page with several conversations and the history requests they race for.
2. The fold of the response language over a history, against a reference definition.
3. Proofs about these.
