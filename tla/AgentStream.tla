---------------------------- MODULE AgentStream -----------------------------
(***************************************************************************)
(* One turn of a conversation as events: what the graph reports,           *)
(* _stream_graph makes of it (harness_service.py), the service passes on   *)
(* and stores, and the page shows of it (client.ts, App.vue).  The turn    *)
(* may pause for a confirmation and go on in a second stream.              *)
(*                                                                         *)
(* A call stands for its tool_call_id; when the provider gives none the    *)
(* harness makes one up, which is as unique, and only the result arrives   *)
(* without it.  Tokens are counted.  The graph, its tools and the HITL     *)
(* middleware are external.                                                *)
(***************************************************************************)
EXTENDS Naturals, Sequences, FiniteSets, SequencesExt

CONSTANTS
    Calls,       \* the tool calls the model may make, each once
    ToolOf,      \* the tool of each call
    Gated,       \* tools in interrupt_on
    None,        \* no call id, no card, nothing stored
    MaxCalls,    \* bound: calls made in the turn
    MaxBatch,    \* bound: calls in one model message
    MaxTokens    \* bound: tokens of one stream

Hidden == "get_skill_memory"
Publishing == "publish_artifact"

ASSUME ToolAssumption == Gated \cap {Hidden, Publishing} = {}
ASSUME NoneAssumption == None \notin Calls
ASSUME BoundsAssumption == MaxCalls \in Nat /\ MaxBatch \in Nat /\ MaxTokens \in Nat

VARIABLES
    identified,  \* external: the provider gives its calls ids
    graph,       \* external: what the graph does, the calls of the last message
    call,        \* what became of each call
    pending,     \* pending_tool_call_ids of the stream
    answer,      \* answer_parts, the number of tokens in it
    stored,      \* the tokens of the reply that was saved
    network,     \* events on their way to the page; the stream is still open
    page,        \* what App.vue shows of the stream
    approved     \* history: the calls whose card was approved

vars == <<identified, graph, call, pending, answer, stored, network, page, approved>>
-----------------------------------------------------------------------------
Tools == {ToolOf[k] : k \in Calls}
Used == {k \in Calls : call[k] # "unused"}
NewPage == [loading |-> TRUE, activity |-> [k \in Calls |-> "none"], agent |-> "running",
            latest |-> <<>>, artifacts |-> {}, text |-> 0, card |-> None, over |-> FALSE]

EventTypes == {"token", "tool_start", "tool_end", "artifact_created",
               "confirmation_required", "done", "error"}
Events == [type : EventTypes, id : Calls \cup {None}]
Statuses == {"none", "running", "completed", "error"}
Pages == [loading : BOOLEAN, activity : [Calls -> Statuses], agent : Statuses,
          latest : Seq(Calls), artifacts : SUBSET Calls, text : 0 .. MaxTokens,
          card : Calls \cup {None}, over : BOOLEAN]

TypeOK ==
    /\ identified \in BOOLEAN
    /\ graph \in [at : {"model", "tools", "interrupted", "ended", "failed"}, batch : Seq(Calls)]
    /\ call \in [Calls -> {"unused", "requested", "approved", "rejected", "ran", "refused"}]
    /\ pending \in [Tools -> Seq(Calls)]
    \* An id waits in its own tool's list, at most once, until the call's end.
    /\ \A t \in Tools : /\ IsInjective(pending[t])
                        /\ \A k \in ToSet(pending[t]) : ToolOf[k] = t /\ call[k] # "unused"
    /\ answer \in 0 .. MaxTokens
    /\ stored \in 0 .. MaxTokens \cup {None}
    /\ network \in [events : Seq(Events), open : BOOLEAN]
    /\ page \in Pages
    /\ approved \subseteq Calls

Init ==
    /\ identified \in BOOLEAN
    /\ graph = [at |-> "model", batch |-> <<>>]
    /\ call = [k \in Calls |-> "unused"]
    /\ pending = [t \in Tools |-> <<>>]
    /\ answer = 0 /\ stored = None
    /\ network = [events |-> <<>>, open |-> TRUE]
    /\ page = NewPage
    /\ approved = {}

Event(type, k) == [type |-> type, id |-> k]
Send(events) == network' = [network EXCEPT !.events = @ \o events]
SendLast(event) == network' = [events |-> Append(network.events, event), open |-> FALSE]
Visible(t) == t # Hidden

\* The action requests of an interrupt: the gated calls of the message, in its order.
\* As positions in it.
Actions == {i \in DOMAIN graph.batch : ToolOf[graph.batch[i]] \in Gated}
FirstAction == graph.batch[CHOOSE i \in Actions : \A j \in Actions : i <= j]
-----------------------------------------------------------------------------
(* Mutants: definitions below with a plausible bug, in no specification. *)

\* Results taken in the order of the calls, whatever id they carry.
CompletedInOrder(k) ==
    LET ids == pending[ToolOf[k]] IN IF ids = <<>> THEN k ELSE Head(ids)

\* One decision for every action of the interrupt.
DecisionForAll(decision) == [i \in 1 .. Cardinality(Actions) |-> decision]

\* answer_parts kept from the stream before.
KeepAnswer == answer

\* A retried start that adds its id again.
AddedTwice(k) == Append(Append(pending[ToolOf[k]], k), k)
-----------------------------------------------------------------------------
(* The graph and _stream_graph. *)

\* A piece of text.
Token ==
    /\ network.open /\ graph.at = "model" /\ answer < MaxTokens
    /\ answer' = answer + 1
    /\ Send(<<Event("token", None)>>)
    /\ UNCHANGED <<identified, graph, call, pending, stored, page, approved>>

Added(k) == Append(pending[ToolOf[k]], k)

\* A call in the model's message, which names the tool in its first chunk only.
RequestCall(k) ==
    /\ network.open /\ graph.at = "model" /\ call[k] = "unused"
    /\ Cardinality(Used) < MaxCalls /\ Len(graph.batch) < MaxBatch
    /\ graph' = [graph EXCEPT !.batch = Append(@, k)]
    /\ call' = [call EXCEPT ![k] = "requested"]
    /\ pending' = [pending EXCEPT ![ToolOf[k]] = Added(k)]
    /\ IF Visible(ToolOf[k]) THEN Send(<<Event("tool_start", k)>>) ELSE UNCHANGED network
    /\ UNCHANGED <<identified, answer, stored, page, approved>>

\* The message is complete: its tools run, unless one of them needs the user.
RunTools ==
    /\ network.open /\ graph.at = "model" /\ graph.batch # <<>>
    /\ Actions = {}
    /\ graph' = [graph EXCEPT !.at = "tools"]
    /\ UNCHANGED <<identified, call, pending, answer, stored, network, page, approved>>

\* One interrupt asks for all of them; the service stores a card for the first and
\* returns, which ends the stream.
Interrupt ==
    /\ network.open /\ graph.at = "model" /\ Actions # {}
    /\ graph' = [graph EXCEPT !.at = "interrupted"]
    /\ SendLast(Event("confirmation_required", FirstAction))
    /\ UNCHANGED <<identified, call, pending, answer, stored, page, approved>>

\* _completed_tool_call_id: the result's own id, or the oldest call of the tool.
Completed(k) ==
    LET ids == pending[ToolOf[k]]
    IN  IF identified /\ k \in ToSet(ids) THEN k
        ELSE IF ids # <<>> THEN Head(ids)
        ELSE IF identified THEN k ELSE None

\* list.remove and pop(0): the one place of the id, if it has one.
Without(ids, id) ==
    IF id \in ToSet(ids) THEN RemoveAt(ids, CHOOSE i \in DOMAIN ids : ids[i] = id) ELSE ids

\* The events of one result: a file that was published, and the end of the call.
ResultEvents(k, outcome) ==
    (IF ToolOf[k] = Publishing /\ outcome = "ran"
     THEN <<Event("artifact_created", k)>> ELSE <<>>)
    \o (IF Visible(ToolOf[k]) THEN <<Event("tool_end", Completed(k))>> ELSE <<>>)

\* Tools run at the same time and answer in any order.  A call is refused by the user,
\* which the middleware answers, or by the tool itself.
ToolAnswers(k, outcome) ==
    /\ network.open /\ graph.at = "tools" /\ k \in ToSet(graph.batch)
    /\ call[k] \in {"requested", "approved", "rejected"}
    /\ call[k] = "rejected" => outcome = "refused"
    /\ call' = [call EXCEPT ![k] = outcome]
    /\ pending' = [pending EXCEPT ![ToolOf[k]] = Without(@, Completed(k))]
    /\ Send(ResultEvents(k, outcome))
    /\ UNCHANGED <<identified, graph, answer, stored, page, approved>>

ToolsDone ==
    /\ network.open /\ graph.at = "tools"
    /\ \A k \in ToSet(graph.batch) : call[k] \in {"ran", "refused"}
    /\ graph' = [at |-> "model", batch |-> <<>>]
    /\ UNCHANGED <<identified, call, pending, answer, stored, network, page, approved>>

\* A message without calls ends the graph; the reply is saved before done is sent.
EndTurn ==
    /\ network.open /\ graph.at = "model" /\ graph.batch = <<>>
    /\ graph' = [graph EXCEPT !.at = "ended"]
    /\ stored' = answer
    /\ SendLast(Event("done", None))
    /\ UNCHANGED <<identified, call, pending, answer, page, approved>>

\* The model or a tool raises: the API sends an error event.
GraphFails ==
    /\ network.open
    /\ graph' = [graph EXCEPT !.at = "failed"]
    /\ SendLast(Event("error", None))
    /\ UNCHANGED <<identified, call, pending, answer, stored, page, approved>>
-----------------------------------------------------------------------------
(* The page: handleEvent, one event after the other. *)

Settled(status) == IF status = "running" THEN "completed" ELSE status
\* finalizeActivities
Finalized(p) == [p EXCEPT !.activity = [k \in Calls |-> Settled(p.activity[k])],
                          !.agent = Settled(@)]

\* completeLatestActivity and markLatestActivityFailed: the newest that still runs,
\* which may be the first entry, "Processing request".
MarkLatest(p, status) ==
    LET running == {i \in DOMAIN p.latest : p.activity[p.latest[i]] = "running"}
        last == CHOOSE i \in running : \A j \in running : j <= i
    IN  IF running # {} THEN [p EXCEPT !.activity[p.latest[last]] = status]
        ELSE IF p.agent = "running" THEN [p EXCEPT !.agent = status]
        ELSE p

Shown(p, event) ==
    LET k == event.id
    IN CASE event.type = "token" -> [p EXCEPT !.text = @ + 1]
         [] event.type = "tool_start" ->
                [p EXCEPT !.activity[k] = "running", !.latest = Append(@, k)]
         [] event.type = "tool_end" ->
                IF k = None THEN p ELSE [p EXCEPT !.activity[k] = Settled(@)]
         [] event.type = "confirmation_required" ->
                [MarkLatest(p, "completed") EXCEPT !.card = k]
         [] event.type = "artifact_created" -> [p EXCEPT !.artifacts = @ \cup {k}]
         [] event.type = "done" -> [Finalized(p) EXCEPT !.over = TRUE]
         [] event.type = "error" -> [MarkLatest(p, "error") EXCEPT !.text = 0]

HandleEvent ==
    /\ page.loading /\ network.events # <<>>
    /\ page' = Shown(page, Head(network.events))
    /\ network' = [network EXCEPT !.events = Tail(@)]
    /\ UNCHANGED <<identified, graph, call, pending, answer, stored, approved>>

\* readSse returns at the end of the body; the finally block of the request.
StreamEnds ==
    /\ page.loading /\ network = [events |-> <<>>, open |-> FALSE]
    /\ page' = [Finalized(page) EXCEPT !.loading = FALSE]
    /\ UNCHANGED <<identified, graph, call, pending, answer, stored, network, approved>>

\* The connection breaks: what is on its way is lost, the server cancels the run.
ConnectionLost ==
    /\ page.loading
    /\ graph' = IF network.open THEN [graph EXCEPT !.at = "failed"] ELSE graph
    /\ network' = [events |-> <<>>, open |-> FALSE]
    /\ page' = [Finalized(page) EXCEPT !.loading = FALSE, !.text = 0]
    /\ UNCHANGED <<identified, call, pending, answer, stored, approved>>

\* resume passes one decision.
Decisions(decision) == <<decision>>

NewAnswer == 0

\* resolveConfirmation: a new stream.  The middleware wants as many decisions as it
\* asked for, and raises otherwise.
Decide(decision) ==
    LET decisions == Decisions(decision)
    IN  /\ ~page.loading /\ page.card # None /\ graph.at = "interrupted"
        /\ page' = NewPage
        /\ pending' = [t \in Tools |-> <<>>]
        /\ answer' = NewAnswer
        /\ approved' = IF decision = "approved" THEN approved \cup {page.card} ELSE approved
        /\ IF Len(decisions) # Cardinality(Actions)
           THEN /\ graph' = [graph EXCEPT !.at = "failed"]
                /\ network' = [events |-> <<Event("error", None)>>, open |-> FALSE]
                /\ UNCHANGED call
           ELSE /\ graph' = [graph EXCEPT !.at = "tools"]
                /\ network' = [events |-> <<>>, open |-> TRUE]
                /\ call' = [k \in Calls |-> IF \E i \in Actions : graph.batch[i] = k
                                             THEN decision ELSE call[k]]
        /\ UNCHANGED <<identified, stored>>

Graph ==
    \/ Token \/ RunTools \/ Interrupt \/ ToolsDone \/ EndTurn \/ GraphFails
    \/ \E k \in Calls : RequestCall(k)
    \/ \E k \in Calls, outcome \in {"ran", "refused"} : ToolAnswers(k, outcome)
Page ==
    \/ HandleEvent \/ StreamEnds \/ ConnectionLost
    \/ \E decision \in {"approved", "rejected"} : Decide(decision)

Next == Graph \/ Page

Spec == Init /\ [][Next]_vars
-----------------------------------------------------------------------------
Finished == {k \in Calls : call[k] \in {"ran", "refused"}}
OfTool(t, s) == {k \in s : ToolOf[k] = t}
ShownAs(status) == {k \in Calls : page.activity[k] = status}

\* While a stream runs and no card stopped it, the page marks as completed only what the
\* graph has finished: exactly those calls when the provider gives ids, and no more of
\* each tool when it does not, however the parallel answers are ordered; and it offers no
\* file that was not published.  Between streams nothing is shown as running.
ActivitiesFollowCalls ==
    /\ page.loading /\ page.card = None /\ ~page.over =>
           /\ identified => ShownAs("completed") \subseteq Finished
           /\ \A t \in Tools : Cardinality(OfTool(t, ShownAs("completed")))
                                   <= Cardinality(OfTool(t, Finished))
    /\ \A k \in page.artifacts : call[k] = "ran"
    /\ ~page.loading => ShownAs("running") = {} /\ page.agent # "running"

\* The reply the page shows when the stream is done is the reply that was saved, also
\* after a confirmation, when the text of the stream before it is in neither.
ShownReplyIsStored == page.over /\ page.loading => page.text = stored

\* An interrupt may ask for several calls; the user sees a card for the first.  Whatever
\* the user answers, no gated call runs without an approved card of its own.
UndecidedNeverRuns ==
    \A k \in Calls : call[k] = "ran" /\ ToolOf[k] \in Gated => k \in approved
=============================================================================
