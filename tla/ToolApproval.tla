---------------------------- MODULE ToolApproval ----------------------------
(***************************************************************************)
(* One conversation of the assistant, as ConversationService keeps it: the *)
(* user messages, the agent runs they start, the confirmation cards that   *)
(* pause a run, and the HTTP requests that advance them                    *)
(* (src/src/services/conversation_service.py, send and confirm_tool, over  *)
(* AgentRunRepository, ToolConfirmationRepository and                      *)
(* SandboxArtifactRepository).                                             *)
(*                                                                         *)
(* Every request has a database session of its own and every repository    *)
(* method commits, so the unit of atomicity is one repository call: the    *)
(* steps of two requests interleave between any two awaits.  Requests      *)
(* never share objects, only rows; a request keeps the column values it    *)
(* loaded ("seen") and SQLAlchemy writes only the columns it changed.      *)
(*                                                                         *)
(* The LangGraph thread of the conversation (thread_id = conversation_id)  *)
(* is external: `checkpoint` is what a resume finds there.                 *)
(*                                                                         *)
(* Names: a row is named by the request that inserted it.  run[r] is the   *)
(* ai_agent_run row that request r (a send) created, card[r] the           *)
(* ai_agent_tool_confirmation row that request r created when its stream   *)
(* was interrupted; a stream stops at its first interrupt, so there is at  *)
(* most one of each.                                                       *)
(***************************************************************************)
EXTENDS Naturals, Sequences, FiniteSets

CONSTANTS
    Requests,    \* the HTTP requests made on this conversation, each used once
    None,        \* "no row"
    MaxActive,   \* bound: how many requests are in progress at the same time
    Faults       \* which of the faults below may happen

ASSUME NoneAssumption == None \notin Requests
ASSUME MaxActiveAssumption == MaxActive \in Nat \ {0}

\* agent_error: the agent stream raises.  disconnect: CancelledError reaches an
\* await inside the try block.  abandon: the request ends with no handler run,
\* because the process died, a commit failed (the session then refuses the
\* handler's own commit), the generator was closed at a yield, the cancellation
\* hit an await before the try block, or it was delivered again to the handler's
\* own commit.
FaultKinds == {"agent_error", "disconnect", "abandon"}
ASSUME FaultsAssumption == Faults \subseteq FaultKinds

VARIABLES
    run,         \* ai_agent_run.status of the run created by a request
    runOrder,    \* the runs in created_at order
    card,        \* ai_agent_tool_confirmation rows
    cardOrder,   \* the cards in created_at order
    messages,    \* message rows: <<role, request that saved it>>
    artifact,    \* the workspace artifact a request's stream published
    checkpoint,  \* external: the pending work of the LangGraph thread
    executed,    \* history: <<request, interrupt>> protected tool calls made
    phase,       \* the await each request stands at
    req          \* what each request holds in its local variables

database == <<run, runOrder, card, cardOrder, messages, artifact>>
graph == <<checkpoint, executed>>
vars == <<run, runOrder, card, cardOrder, messages, artifact, checkpoint,
          executed, phase, req>>
-----------------------------------------------------------------------------
RunStatuses == {"absent", "running", "awaiting_confirmation", "completed",
                "failed", "cancelled"}
Decisions == {"absent", "pending", "approve", "reject"}
Executions == {"not_started", "running", "succeeded", "failed", "cancelled"}
Kinds == {"send", "approve", "reject", "respond"}

\* Where send and confirm_tool can stand.  The phases of TryPhases are inside
\* their try blocks.
TryPhases == {"answering", "streaming", "interrupted", "settled", "carded",
              "finished", "replied", "attached", "completed"}
Phases == {"idle", "received", "asked", "opened", "found", "checked", "decided",
           "ready", "resumed", "failing", "cancelling", "done", "lost"}
              \cup TryPhases

\* idle: the thread has nothing to do.  busy: a graph run is under way or was
\* cut off.  approval, form: the thread waits for a decision on the interrupt
\* raised in the stream of request `of`.
Idle == [kind |-> "idle", of |-> None]
Busy == [kind |-> "busy", of |-> None]
Checkpoints == {Idle, Busy} \cup [kind : {"approval", "form"}, of : Requests]

Cards == [run : Requests \cup {None}, decision : Decisions, execution : Executions]

\* The local variables of a request: its action and card id, the run it works
\* on, the execution_status it loaded with the card, the checkpoint its resume
\* loaded, and the kind of the interrupt its own stream met.
Locals == [kind : Kinds,
           card : Requests \cup {None},
           run : Requests \cup {None},
           seen : Executions,
           view : Checkpoints,
           asks : {"none", "approval", "form"}]

TypeOK ==
    /\ run \in [Requests -> RunStatuses]
    /\ runOrder \in Seq(Requests)
    /\ card \in [Requests -> Cards]
    /\ cardOrder \in Seq(Requests)
    /\ messages \subseteq {"user", "assistant"} \X Requests
    /\ artifact \in [Requests -> {"none", "loose", "attached"}]
    /\ checkpoint \in Checkpoints
    /\ executed \subseteq Requests \X Requests
    /\ phase \in [Requests -> Phases]
    /\ req \in [Requests -> Locals]
-----------------------------------------------------------------------------
Active == {r \in Requests : phase[r] \notin {"idle", "done", "lost"}}

\* "if action == 'approve' and confirmation is not None"
Approving(r) == req[r].kind = "approve"

\* The request moves from one await to a later one.
Go(r, from, to) ==
    /\ phase[r] = from
    /\ phase' = [phase EXCEPT ![r] = to]

\* A flush emits only the columns whose value differs from the loaded one.
Flush(stored, loaded, new) == IF new = loaded THEN stored ELSE new

SetRun(r, status) == run' = [run EXCEPT ![req[r].run] = status]

\* mark_succeeded, mark_failed, mark_cancelled of the card this request decided.
SetExecution(r, status) ==
    /\ card' = [card EXCEPT ![req[r].card].execution =
                                Flush(@, req[r].seen, status)]
    /\ req' = [req EXCEPT ![r].seen = status]

Init ==
    /\ run = [r \in Requests |-> "absent"]
    /\ runOrder = <<>>
    /\ card = [r \in Requests |-> [run |-> None, decision |-> "absent",
                                   execution |-> "not_started"]]
    /\ cardOrder = <<>>
    /\ messages = {}
    /\ artifact = [r \in Requests |-> "none"]
    /\ checkpoint = Idle
    /\ executed = {}
    /\ phase = [r \in Requests |-> "idle"]
    /\ req = [r \in Requests |-> [kind |-> "send", card |-> None, run |-> None,
                                  seen |-> "not_started", view |-> Idle,
                                  asks |-> "none"]]
-----------------------------------------------------------------------------
(* Mutants: each is one of the actions below with a plausible bug in it.  They *)
(* are in no specification; put in the place of the action, each must break a  *)
(* property, which shows that the property watches that code.                  *)

\* ParkRun writing a status no reader knows.
ParkMisspelt(r) ==
    /\ Go(r, IF req[r].asks = "approval" THEN "carded" ELSE "settled", "done")
    /\ SetRun(r, "awaiting")
    /\ UNCHANGED <<runOrder, card, cardOrder, messages, artifact, graph, req>>

\* Decide recording the execution status and forgetting the decision.
DecideStatusOnly(r) ==
    /\ Go(r, "checked", "decided")
    /\ card' = [card EXCEPT ![req[r].card].execution =
                    IF Approving(r) THEN "running" ELSE "not_started"]
    /\ UNCHANGED <<run, runOrder, cardOrder, messages, artifact, graph, req>>

\* CardAccepted without the comparison of the card's run with the run found.
CardPending(r) == card[req[r].card].decision = "pending"

\* EndStream completing the run before the reply is saved.
EndAndComplete(r) ==
    /\ Go(r, "streaming", "finished")
    /\ checkpoint' = Idle
    /\ SetRun(r, "completed")
    /\ UNCHANGED <<runOrder, card, cardOrder, messages, artifact, executed, req>>

\* AttachArtifacts without its run_id condition, and with one that is too narrow.
AttachEverything(r) ==
    /\ Go(r, "replied", "attached")
    /\ artifact' = [a \in Requests |-> IF artifact[a] = "loose" THEN "attached"
                                       ELSE artifact[a]]
    /\ UNCHANGED <<run, runOrder, card, cardOrder, messages, graph, req>>
AttachOwn(r) ==
    /\ Go(r, "replied", "attached")
    /\ artifact' = [artifact EXCEPT ![r] = IF @ = "loose" THEN "attached" ELSE @]
    /\ UNCHANGED <<run, runOrder, card, cardOrder, messages, graph, req>>

\* FailRun forgetting the card, and FailRun forgetting the run.
FailRunOnly(r) ==
    /\ phase' = [phase EXCEPT ![r] = "done"]
    /\ SetRun(r, "failed")
    /\ UNCHANGED <<runOrder, card, cardOrder, messages, artifact, graph, req>>
FailCardOnly(r) ==
    /\ phase' = [phase EXCEPT ![r] = IF Approving(r) THEN "failing" ELSE "done"]
    /\ UNCHANGED <<database, graph, req>>

\* Disconnect forgetting the card.
DisconnectRunOnly(r) ==
    /\ "disconnect" \in Faults
    /\ phase[r] \in TryPhases
    /\ phase' = [phase EXCEPT ![r] = "done"]
    /\ SetRun(r, "cancelled")
    /\ UNCHANGED <<runOrder, card, cardOrder, messages, artifact, graph, req>>
-----------------------------------------------------------------------------
(* The API receives a request.  A decision names any card id; a form answer *)
(* names none (POST /tool-confirmations).                                   *)

Receive(r, kind, c) ==
    /\ Cardinality(Active) < MaxActive
    /\ Go(r, "idle", "received")
    /\ req' = [req EXCEPT ![r].kind = kind, ![r].card = c]
    /\ UNCHANGED <<database, graph>>

(* send: the user message, the run, then the agent stream. *)

SaveUserMessage(r) ==
    /\ req[r].kind = "send"
    /\ Go(r, "received", "asked")
    /\ messages' = messages \cup {<<"user", r>>}
    /\ UNCHANGED <<run, runOrder, card, cardOrder, artifact, graph, req>>

CreateRun(r) ==
    /\ Go(r, "asked", "opened")
    /\ run' = [run EXCEPT ![r] = "running"]
    /\ runOrder' = Append(runOrder, r)
    /\ req' = [req EXCEPT ![r].run = r]
    /\ UNCHANGED <<card, cardOrder, messages, artifact, graph>>

\* A new message on the thread discards whatever the thread was waiting for.
StartReply(r) ==
    /\ Go(r, "opened", "streaming")
    /\ checkpoint' = Busy
    /\ UNCHANGED <<database, executed, req>>

(* confirm_tool: the checks, the decision, the run, then the agent stream. *)

\* get_awaiting_confirmation: the newest run that awaits confirmation.
LatestAwaitingRun(q) ==
    \E i \in DOMAIN runOrder :
        /\ runOrder[i] = q
        /\ run[q] = "awaiting_confirmation"
        /\ \A j \in DOMAIN runOrder :
               j > i => run[runOrder[j]] # "awaiting_confirmation"

FindAwaitingRun(r) ==
    /\ req[r].kind # "send"
    /\ \E q \in Requests :
           /\ LatestAwaitingRun(q)
           /\ req' = [req EXCEPT ![r].run = q]
    /\ Go(r, "received", "found")
    /\ UNCHANGED <<database, graph>>

\* 409: nothing awaits confirmation.
NothingAwaiting(r) ==
    /\ req[r].kind # "send"
    /\ \A q \in Requests : run[q] # "awaiting_confirmation"
    /\ Go(r, "received", "done")
    /\ UNCHANGED <<database, graph, req>>

\* 404, 409 already decided, 409 not the card of the run that was found.
CardAccepted(r) ==
    LET c == req[r].card
    IN  card[c].decision = "pending" /\ card[c].run = req[r].run

CheckCard(r) ==
    /\ req[r].kind \in {"approve", "reject"}
    /\ CardAccepted(r)
    /\ Go(r, "found", "checked")
    /\ req' = [req EXCEPT ![r].seen = card[req[r].card].execution]
    /\ UNCHANGED <<database, graph>>

RefuseCard(r) ==
    /\ req[r].kind \in {"approve", "reject"}
    /\ ~CardAccepted(r)
    /\ Go(r, "found", "done")
    /\ UNCHANGED <<database, graph, req>>

\* A form answer has no card; save_danaan_base_context_from_form may refuse it.
AcceptForm(r) ==
    /\ req[r].kind = "respond"
    /\ Go(r, "found", "ready")
    /\ UNCHANGED <<database, graph, req>>

RefuseForm(r) ==
    /\ req[r].kind = "respond"
    /\ Go(r, "found", "done")
    /\ UNCHANGED <<database, graph, req>>

\* decide writes by primary key: nothing re-checks that the row is pending.
Decide(r) ==
    LET c == req[r].card
        e == IF Approving(r) THEN "running" ELSE "not_started"
    IN  /\ Go(r, "checked", "decided")
        /\ card' = [card EXCEPT ![c].decision = req[r].kind,
                                ![c].execution = Flush(@, req[r].seen, e)]
        /\ UNCHANGED <<run, runOrder, cardOrder, messages, artifact, graph, req>>

\* The refresh that follows decide's commit.
RefreshCard(r) ==
    /\ Go(r, "decided", "ready")
    /\ req' = [req EXCEPT ![r].seen = card[req[r].card].execution]
    /\ UNCHANGED <<database, graph>>

ResumeRun(r) ==
    /\ Go(r, "ready", "resumed")
    /\ SetRun(r, "running")
    /\ UNCHANGED <<runOrder, card, cardOrder, messages, artifact, graph, req>>

\* The resume command loads the thread's checkpoint.  With nothing pending the
\* stream ends at once; after a cut-off graph run it continues that run.
StartResume(r) ==
    /\ Go(r, "resumed",
          CASE checkpoint.kind = "idle" -> "finished"
            [] checkpoint.kind = "busy" -> "streaming"
            [] OTHER -> "answering")
    /\ req' = [req EXCEPT ![r].view = checkpoint]
    /\ UNCHANGED <<database, graph>>
-----------------------------------------------------------------------------
(* The agent stream, common to both. *)

\* allowed_decisions: approve and reject for a tool, respond for the form.
Fits(kind, interrupt) ==
    IF interrupt = "form" THEN kind = "respond" ELSE kind \in {"approve", "reject"}

\* The decision reaches the interrupt the request loaded; an approval makes the
\* tool call.  Two requests that loaded the same checkpoint both get here.
ApplyDecision(r) ==
    /\ Fits(req[r].kind, req[r].view.kind)
    /\ Go(r, "answering", "streaming")
    /\ checkpoint' = Busy
    /\ executed' = IF Approving(r) THEN executed \cup {<<r, req[r].view.of>>}
                   ELSE executed
    /\ UNCHANGED <<database, req>>

\* publish_artifact: a row with the run's id and no message yet.
PublishArtifact(r) ==
    /\ phase[r] = "streaming"
    /\ artifact[r] = "none"
    /\ artifact' = [artifact EXCEPT ![r] = "loose"]
    /\ UNCHANGED <<run, runOrder, card, cardOrder, messages, graph, phase, req>>

\* The graph stops at a protected tool call; the service handles the first
\* event of the interrupt and returns.
Interrupt(r, asks) ==
    /\ Go(r, "streaming", IF Approving(r) THEN "interrupted" ELSE "settled")
    /\ checkpoint' = [kind |-> asks, of |-> r]
    /\ req' = [req EXCEPT ![r].asks = asks]
    /\ UNCHANGED <<database, executed>>

\* An approved call that leads to the next interrupt is recorded first.
SettleBeforeNext(r) ==
    /\ Go(r, "interrupted", "settled")
    /\ SetExecution(r, "succeeded")
    /\ UNCHANGED <<run, runOrder, cardOrder, messages, artifact, graph>>

CreateCard(r) ==
    /\ req[r].asks = "approval"
    /\ Go(r, "settled", "carded")
    /\ card' = [card EXCEPT ![r] = [run |-> req[r].run, decision |-> "pending",
                                    execution |-> "not_started"]]
    /\ cardOrder' = Append(cardOrder, r)
    /\ UNCHANGED <<run, runOrder, messages, artifact, graph, req>>

\* await_confirmation, then the event is yielded and the request returns.
ParkRun(r) ==
    /\ Go(r, IF req[r].asks = "approval" THEN "carded" ELSE "settled", "done")
    /\ SetRun(r, "awaiting_confirmation")
    /\ UNCHANGED <<runOrder, card, cardOrder, messages, artifact, graph, req>>

EndStream(r) ==
    /\ Go(r, "streaming", "finished")
    /\ checkpoint' = Idle
    /\ UNCHANGED <<database, executed, req>>

SaveReply(r) ==
    /\ Go(r, "finished", "replied")
    /\ messages' = messages \cup {<<"assistant", r>>}
    /\ UNCHANGED <<run, runOrder, card, cardOrder, artifact, graph, req>>

\* One UPDATE over every artifact of the run that has no message.
AttachArtifacts(r) ==
    /\ Go(r, "replied", "attached")
    /\ artifact' = [a \in Requests |->
                        IF artifact[a] = "loose" /\ req[a].run = req[r].run
                        THEN "attached" ELSE artifact[a]]
    /\ UNCHANGED <<run, runOrder, card, cardOrder, messages, graph, req>>

CompleteRun(r) ==
    /\ Go(r, "attached", IF Approving(r) THEN "completed" ELSE "done")
    /\ SetRun(r, "completed")
    /\ UNCHANGED <<runOrder, card, cardOrder, messages, artifact, graph, req>>

SettleAtEnd(r) ==
    /\ Go(r, "completed", "done")
    /\ SetExecution(r, "succeeded")
    /\ UNCHANGED <<run, runOrder, cardOrder, messages, artifact, graph>>
-----------------------------------------------------------------------------
(* The except blocks. *)

\* _mark_run_failed, then mark_failed when the request approved a card.
FailRun(r) ==
    /\ phase' = [phase EXCEPT ![r] = IF Approving(r) THEN "failing" ELSE "done"]
    /\ SetRun(r, "failed")
    /\ UNCHANGED <<runOrder, card, cardOrder, messages, artifact, graph, req>>

\* The graph rejects a decision the interrupt does not allow.
DecisionNotAllowed(r) ==
    /\ phase[r] = "answering"
    /\ ~Fits(req[r].kind, req[r].view.kind)
    /\ FailRun(r)

SettleFailed(r) ==
    /\ Go(r, "failing", "done")
    /\ SetExecution(r, "failed")
    /\ UNCHANGED <<run, runOrder, cardOrder, messages, artifact, graph>>

SettleCancelled(r) ==
    /\ Go(r, "cancelling", "done")
    /\ SetExecution(r, "cancelled")
    /\ UNCHANGED <<run, runOrder, cardOrder, messages, artifact, graph>>

AgentError(r) ==
    /\ "agent_error" \in Faults
    /\ phase[r] = "streaming"
    /\ FailRun(r)

\* CancelledError at any await of the try block: _mark_run_cancelled, then
\* mark_cancelled when the request approved a card.
Disconnect(r) ==
    /\ "disconnect" \in Faults
    /\ phase[r] \in TryPhases
    /\ phase' = [phase EXCEPT ![r] = IF Approving(r) THEN "cancelling" ELSE "done"]
    /\ SetRun(r, "cancelled")
    /\ UNCHANGED <<runOrder, card, cardOrder, messages, artifact, graph, req>>

Abandon(r) ==
    /\ "abandon" \in Faults
    /\ r \in Active
    /\ phase' = [phase EXCEPT ![r] = "lost"]
    /\ UNCHANGED <<database, graph, req>>
-----------------------------------------------------------------------------
Serve(r) ==
    \/ SaveUserMessage(r) \/ CreateRun(r) \/ StartReply(r)
    \/ FindAwaitingRun(r) \/ NothingAwaiting(r)
    \/ CheckCard(r) \/ RefuseCard(r) \/ AcceptForm(r) \/ RefuseForm(r)
    \/ Decide(r) \/ RefreshCard(r) \/ ResumeRun(r) \/ StartResume(r)
    \/ ApplyDecision(r) \/ DecisionNotAllowed(r)
    \/ PublishArtifact(r) \/ EndStream(r)
    \/ \E asks \in {"approval", "form"} : Interrupt(r, asks)
    \/ SettleBeforeNext(r) \/ CreateCard(r) \/ ParkRun(r)
    \/ SaveReply(r) \/ AttachArtifacts(r) \/ CompleteRun(r) \/ SettleAtEnd(r)
    \/ SettleFailed(r) \/ SettleCancelled(r)

Fault(r) == AgentError(r) \/ Disconnect(r) \/ Abandon(r)

Arrive(r) ==
    \/ Receive(r, "send", None)
    \/ Receive(r, "respond", None)
    \/ \E kind \in {"approve", "reject"}, c \in Requests : Receive(r, kind, c)

\* Every request has been served: the bounded set of requests is used up.
AllServed ==
    /\ \A r \in Requests : phase[r] \in {"done", "lost"}
    /\ UNCHANGED vars

Next == (\E r \in Requests : Arrive(r) \/ Serve(r) \/ Fault(r)) \/ AllServed

\* A request in progress is driven to its end by the event loop; the agent
\* stream itself ends because the graph's steps are bounded.
Spec == Init /\ [][Next]_vars /\ \A r \in Requests : WF_vars(Serve(r))
-----------------------------------------------------------------------------
(* Properties of every interleaving, under every fault. *)

Decided(c) == card[c].decision \in {"approve", "reject"}

\* An execution status is recorded only for a card the user decided: a card that
\* a reloaded page still offers as pending has never been run, whatever other
\* requests did to the same row (decide, mark_succeeded, mark_failed and
\* mark_cancelled all write it by primary key).
StatusFollowsDecision ==
    \A c \in Requests : card[c].execution # "not_started" => Decided(c)

\* A protected tool call is made only by a request that approved a card of the
\* run it resumed, after that card's decision was committed.
ToolRunsOnlyAfterDecision ==
    \A x \in executed :
        LET r == x[1]
        IN  /\ Approving(r)
            /\ Decided(req[r].card)
            /\ card[req[r].card].run = req[r].run

\* The phases in which a request owes the run it works on a final status.
OwesRun == {"opened", "resumed", "answering", "streaming", "interrupted",
            "settled", "carded", "finished", "replied", "attached"}

\* The phases in which an approving request owes the card an outcome.
OwesCard == {"decided", "ready", "resumed", "answering", "streaming",
             "interrupted", "finished", "replied", "attached", "completed",
             "failing", "cancelling"}

\* A run that says running, and a card that says its tool is running, has a
\* request at work on it, or one that was abandoned: no sequence of commits by
\* several requests, with handlers interleaved, leaves the rows behind.
NoOrphanedWork ==
    /\ \A q \in Requests : run[q] = "running" =>
           \E r \in Requests : req[r].run = q /\ phase[r] \in OwesRun \cup {"lost"}
    /\ \A c \in Requests : card[c].execution = "running" =>
           \E r \in Requests : /\ req[r].card = c
                               /\ Approving(r)
                               /\ phase[r] \in OwesCard \cup {"lost"}

\* A completed run has an assistant message, saved by a request of that run.
CompletedRunHasReply ==
    \A q \in Requests : run[q] = "completed" =>
        \E m \in messages : m[1] = "assistant" /\ req[m[2]].run = q

\* An artifact leaves its unattached state only towards a reply of its own run.
AttachedArtifactHasReply ==
    \A a \in Requests : artifact[a] = "attached" =>
        \E m \in messages : m[1] = "assistant" /\ req[m[2]].run = req[a].run

\* What the repository's docs and docstrings say and the code does not do (the
\* runs that check these two expect a violation).

\* mark_succeeded: "Record completion after an approved Tool call returns
\* successfully" -- so a success is recorded only of a call that was made.
SucceededMeansCalled ==
    \A c \in Requests : card[c].execution = "succeeded" =>
        \E r \in Requests : <<r, c>> \in executed

\* mark_cancelled: "Record an interrupted approved Tool call" -- so a call that
\* was recorded as successful is not recorded as cancelled later.
SuccessIsFinal ==
    [][\A c \in Requests :
          card[c].execution = "succeeded" => card'[c].execution = "succeeded"]_vars
=============================================================================
