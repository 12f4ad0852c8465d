------------------------- MODULE ToolApprovalProofs -------------------------
(***************************************************************************)
(* Proofs about ToolApproval, for any set of requests, any number of them  *)
(* in progress at once and any subset of the faults.                       *)
(***************************************************************************)
EXTENDS ToolApproval, TLAPS

-----------------------------------------------------------------------------
(* The inductive invariant. *)

\* A decision request names a card from the start, only a decision request gets
\* as far as deciding one, and a decision is delivered to a pending interrupt.
DecisionsNameACard ==
    \A r \in Requests :
        /\ phase[r] = "answering" => req[r].view.of \in Requests
        /\ req[r].kind \in {"approve", "reject"} => req[r].card \in Requests
        /\ phase[r] \in {"asked", "opened"} => req[r].kind = "send"
        /\ phase[r] \in {"checked", "decided"} => req[r].kind \in {"approve", "reject"}

\* Only the requests that approved a card stand where its outcome is recorded.
Settling == {"interrupted", "completed", "failing", "cancelling"}
SettlersApprove == \A r \in Requests : phase[r] \in Settling => Approving(r)

\* The card a request creates appears at its "carded" phase, undecided.
CardPhases == {"carded", "cancelling", "done", "lost"}
CardsAppearLate ==
    \A r \in Requests :
        /\ card[r].decision # "absent" => phase[r] \in CardPhases
        /\ card[r].decision = "absent" => card[r].execution = "not_started"

\* A request past its checks works on an existing card of the run it found, and
\* from its own decision on that card stays decided.
Accepted == {"checked", "decided", "ready", "resumed", "failing", "cancelling"}
                \cup TryPhases
AcceptedCards ==
    \A r \in Requests :
        (req[r].kind \in {"approve", "reject"} /\ phase[r] \in Accepted) =>
            /\ card[req[r].card].decision # "absent"
            /\ card[req[r].card].run = req[r].run
            /\ phase[r] # "checked" => Decided(req[r].card)

\* What a stream leaves behind was left by a request that reached its stream, so
\* its kind, card and run do not change any more.
Streamed == TryPhases \cup {"failing", "cancelling", "done", "lost"}
TracesOfStreams ==
    /\ \A x \in executed : phase[x[1]] \in Streamed
    /\ \A m \in messages : m[1] = "assistant" => phase[m[2]] \in Streamed
    /\ \A a \in Requests : artifact[a] # "none" => phase[a] \in Streamed

ReplySaved ==
    \A r \in Requests :
        phase[r] \in {"replied", "attached"} => <<"assistant", r>> \in messages

\* A running card has an approving request that still owes it an outcome and
\* will write it: it has not reloaded the row yet, or loaded it as running.
Owes(r, c) ==
    /\ req[r].card = c
    /\ Approving(r)
    /\ \/ phase[r] \in {"decided", "lost"}
       \/ phase[r] \in OwesCard /\ req[r].seen = "running"
RunningCardIsOwed ==
    \A c \in Requests : card[c].execution = "running" => \E r \in Requests : Owes(r, c)

RunningRunIsOwed ==
    \A q \in Requests : run[q] = "running" =>
        \E r \in Requests : req[r].run = q /\ phase[r] \in OwesRun \cup {"lost"}

IInv == /\ TypeOK
        /\ DecisionsNameACard
        /\ SettlersApprove
        /\ CardsAppearLate
        /\ AcceptedCards
        /\ TracesOfStreams
        /\ ReplySaved
        /\ RunningCardIsOwed
        /\ RunningRunIsOwed
        /\ StatusFollowsDecision
        /\ ToolRunsOnlyAfterDecision
        /\ CompletedRunHasReply
        /\ AttachedArtifactHasReply
-----------------------------------------------------------------------------
Step(r) == Arrive(r) \/ Serve(r) \/ Fault(r)

\* The actions that assign the local variables of a request; every other action
\* leaves req unchanged.
AssignsLocals(r) ==
    \/ Arrive(r) \/ CreateRun(r) \/ FindAwaitingRun(r) \/ CheckCard(r)
    \/ RefreshCard(r) \/ StartResume(r)
    \/ \E asks \in {"approval", "form"} : Interrupt(r, asks)
    \/ SettleBeforeNext(r) \/ SettleAtEnd(r) \/ SettleFailed(r) \/ SettleCancelled(r)

-----------------------------------------------------------------------------
(* What one step of a request may change. *)

\* A step of one request moves that request and no other.
LEMMA PhaseStep ==
  ASSUME TypeOK, NEW r \in Requests, Step(r)
  PROVE  \E to \in Phases : phase' = [phase EXCEPT ![r] = to]
<1> USE DEF Phases, TryPhases, Go
<1>1. CASE Arrive(r)
  BY <1>1 DEF Arrive, Receive
<1>2. CASE SaveUserMessage(r) \/ CreateRun(r) \/ StartReply(r)
  BY <1>2 DEF SaveUserMessage, CreateRun, StartReply
<1>3. CASE FindAwaitingRun(r) \/ NothingAwaiting(r)
  BY <1>3 DEF FindAwaitingRun, NothingAwaiting
<1>4. CASE CheckCard(r) \/ RefuseCard(r) \/ AcceptForm(r) \/ RefuseForm(r)
  BY <1>4 DEF CheckCard, RefuseCard, AcceptForm, RefuseForm
<1>5. CASE Decide(r) \/ RefreshCard(r) \/ ResumeRun(r)
  BY <1>5 DEF Decide, RefreshCard, ResumeRun
<1>6. CASE StartResume(r)
  BY <1>6 DEF StartResume
<1>7. CASE ApplyDecision(r) \/ DecisionNotAllowed(r) \/ AgentError(r)
  BY <1>7 DEF ApplyDecision, DecisionNotAllowed, AgentError, FailRun
<1>8. CASE PublishArtifact(r)
  BY <1>8 DEF PublishArtifact, TypeOK
<1>9. CASE EndStream(r) \/ \E asks \in {"approval", "form"} : Interrupt(r, asks)
  BY <1>9 DEF EndStream, Interrupt
<1>10. CASE SettleBeforeNext(r) \/ SettleAtEnd(r) \/ SettleFailed(r) \/ SettleCancelled(r)
  BY <1>10 DEF SettleBeforeNext, SettleAtEnd, SettleFailed, SettleCancelled
<1>11. CASE CreateCard(r) \/ ParkRun(r)
  BY <1>11 DEF CreateCard, ParkRun
<1>12. CASE SaveReply(r) \/ AttachArtifacts(r) \/ CompleteRun(r)
  BY <1>12 DEF SaveReply, AttachArtifacts, CompleteRun
<1>13. CASE Disconnect(r) \/ Abandon(r)
  BY <1>13 DEF Disconnect, Abandon
<1>14. QED
  BY <1>1, <1>2, <1>3, <1>4, <1>5, <1>6, <1>7, <1>8, <1>9, <1>10, <1>11, <1>12,
     <1>13 DEF Step, Serve, Fault

\* Every other action leaves the local variables of all requests alone.
LEMMA LocalsKept ==
  ASSUME NEW r \in Requests, Step(r), ~AssignsLocals(r)
  PROVE  UNCHANGED req
BY DEF Step, Serve, Fault, AssignsLocals, SaveUserMessage, StartReply,
   NothingAwaiting, RefuseCard, AcceptForm, RefuseForm, Decide, ResumeRun,
   ApplyDecision, DecisionNotAllowed, PublishArtifact, EndStream, CreateCard,
   ParkRun, SaveReply, AttachArtifacts, CompleteRun, AgentError, Disconnect,
   Abandon, FailRun

\* A step of one request assigns the local variables of that request only.
LEMMA LocalsStep ==
  ASSUME TypeOK, DecisionsNameACard, NEW r \in Requests, Step(r)
  PROVE  /\ req' \in [Requests -> Locals]
         /\ \A q \in Requests \ {r} : req'[q] = req[q]
<1>0. req \in [Requests -> Locals]
  BY DEF TypeOK
<1>1. CASE Arrive(r)
  <2>1. ASSUME NEW kind \in Kinds, NEW c \in Requests \cup {None}, Receive(r, kind, c)
        PROVE  /\ req' \in [Requests -> Locals]
               /\ \A q \in Requests \ {r} : req'[q] = req[q]
    BY <1>0, <2>1 DEF Receive, Locals
  <2>2. QED
    BY <1>1, <2>1 DEF Arrive, Kinds
<1>2. CASE CreateRun(r)
  BY <1>0, <1>2 DEF CreateRun, Locals
<1>3. CASE FindAwaitingRun(r)
  BY <1>0, <1>3 DEF FindAwaitingRun, Locals
<1>4. CASE CheckCard(r) \/ RefreshCard(r)
  <2>1. req' = [req EXCEPT ![r].seen = card[req[r].card].execution]
    BY <1>4 DEF CheckCard, RefreshCard
  <2>2. req[r].card \in Requests
    BY <1>4 DEF CheckCard, RefreshCard, Go, DecisionsNameACard
  <2>3. card[req[r].card].execution \in Executions
    BY <2>2 DEF TypeOK, Cards
  <2>4. QED
    BY <1>0, <2>1, <2>3 DEF Locals
<1>5. CASE StartResume(r)
  BY <1>0, <1>5 DEF StartResume, Locals, TypeOK
<1>6. CASE \E asks \in {"approval", "form"} : Interrupt(r, asks)
  BY <1>0, <1>6 DEF Interrupt, Locals
<1>7. CASE SettleBeforeNext(r) \/ SettleAtEnd(r) \/ SettleFailed(r) \/ SettleCancelled(r)
  <2>1. PICK s \in Executions : req' = [req EXCEPT ![r].seen = s]
    BY <1>7 DEF SettleBeforeNext, SettleAtEnd, SettleFailed, SettleCancelled,
                SetExecution, Executions
  <2>2. QED
    BY <1>0, <2>1 DEF Locals
<1>8. CASE ~AssignsLocals(r)
  BY <1>0, <1>8, LocalsKept
<1>9. QED
  BY <1>1, <1>2, <1>3, <1>4, <1>5, <1>6, <1>7, <1>8 DEF AssignsLocals

\* The actions that assign the status of a run.
AssignsRun(r) ==
    \/ CreateRun(r) \/ ResumeRun(r) \/ ParkRun(r) \/ CompleteRun(r)
    \/ DecisionNotAllowed(r) \/ AgentError(r) \/ Disconnect(r)

\* Every other action leaves the status of all runs alone.
LEMMA RunsKept ==
  ASSUME NEW r \in Requests, Step(r), ~AssignsRun(r)
  PROVE  UNCHANGED run
BY DEF AssignsRun, Step, Serve, Fault, Arrive, Receive, SaveUserMessage, StartReply,
   FindAwaitingRun, NothingAwaiting, CheckCard, RefuseCard, AcceptForm, RefuseForm,
   Decide, RefreshCard, StartResume, ApplyDecision, PublishArtifact, EndStream,
   Interrupt, SettleBeforeNext, CreateCard, SaveReply, AttachArtifacts,
   SettleAtEnd, SettleFailed, SettleCancelled, Abandon, database

\* A run is only ever given one of the six statuses.
LEMMA RunStep ==
  ASSUME TypeOK, NEW r \in Requests, Step(r)
  PROVE  run' \in [Requests -> RunStatuses]
<1>0. run \in [Requests -> RunStatuses]
  BY DEF TypeOK
<1>1. CASE CreateRun(r)
  BY <1>0, <1>1 DEF CreateRun, RunStatuses
<1>2. CASE \E s \in RunStatuses : SetRun(r, s)
  BY <1>0, <1>2 DEF SetRun
<1>3. CASE ResumeRun(r) \/ ParkRun(r) \/ CompleteRun(r) \/ DecisionNotAllowed(r)
             \/ AgentError(r) \/ Disconnect(r)
  BY <1>2, <1>3 DEF ResumeRun, ParkRun, CompleteRun, DecisionNotAllowed, AgentError,
     Disconnect, FailRun, RunStatuses
<1>4. QED
  BY <1>0, <1>1, <1>3, RunsKept DEF AssignsRun

\* The steps that assign cards.
LEMMA CardsKept ==
  ASSUME NEW r \in Requests, Step(r),
         ~(Decide(r) \/ CreateCard(r) \/ SettleBeforeNext(r) \/ SettleAtEnd(r)
             \/ SettleFailed(r) \/ SettleCancelled(r))
  PROVE  UNCHANGED card
BY DEF Step, Serve, Fault, Arrive, Receive, SaveUserMessage, CreateRun,
   StartReply, FindAwaitingRun, NothingAwaiting, CheckCard, RefuseCard, AcceptForm,
   RefuseForm, RefreshCard, ResumeRun, StartResume, ApplyDecision,
   DecisionNotAllowed, PublishArtifact, EndStream, Interrupt, ParkRun, SaveReply,
   AttachArtifacts, CompleteRun, AgentError, Disconnect, Abandon, FailRun, database

\* A step of one request assigns its own card or the card it names.
LEMMA CardStep ==
  ASSUME TypeOK, DecisionsNameACard, NEW r \in Requests, Step(r)
  PROVE  card' \in [Requests -> Cards]
<1>0. card \in [Requests -> Cards]
  BY DEF TypeOK
<1>1. CASE Decide(r)
  <2>1. /\ req[r].card \in Requests
        /\ req[r].kind \in {"approve", "reject"}
    BY <1>1 DEF Decide, Go, DecisionsNameACard
  <2>2. PICK e \in Executions :
            card' = [card EXCEPT ![req[r].card].decision = req[r].kind,
                                 ![req[r].card].execution = e]
    <3>1. card[req[r].card].execution \in Executions
      BY <1>0, <2>1 DEF Cards
    <3>2. QED
      BY <1>0, <1>1, <2>1, <3>1 DEF Decide, Flush, Executions
  <2>3. QED
    BY <1>0, <2>1, <2>2 DEF Cards, Decisions
<1>2. ASSUME NEW s \in Executions, SetExecution(r, s)
      PROVE  card' \in [Requests -> Cards]
  BY <1>0, <1>2 DEF SetExecution, Flush, Cards
<1>3. CASE SettleBeforeNext(r) \/ SettleAtEnd(r) \/ SettleFailed(r) \/ SettleCancelled(r)
  BY <1>2, <1>3 DEF SettleBeforeNext, SettleAtEnd, SettleFailed, SettleCancelled, Executions
<1>4. CASE CreateCard(r)
  <2>1. req[r].run \in Requests \cup {None}
    BY DEF TypeOK, Locals
  <2>2. QED
    BY <1>0, <1>4, <2>1 DEF CreateCard, Cards, Decisions, Executions
<1>5. QED
  BY <1>0, <1>1, <1>3, <1>4, CardsKept

\* The thread only ever waits on the interrupt of an existing request, and only
\* such an interrupt is ever answered.
LEMMA GraphStep ==
  ASSUME TypeOK, DecisionsNameACard, NEW r \in Requests, Step(r)
  PROVE  checkpoint' \in Checkpoints /\ executed' \subseteq Requests \X Requests
<1>0. checkpoint \in Checkpoints /\ executed \subseteq Requests \X Requests
  BY DEF TypeOK
<1>1. CASE StartReply(r) \/ EndStream(r)
  BY <1>0, <1>1 DEF StartReply, EndStream, Checkpoints
<1>2. CASE \E asks \in {"approval", "form"} : Interrupt(r, asks)
  BY <1>0, <1>2 DEF Interrupt, Checkpoints
<1>3. CASE ApplyDecision(r)
  BY <1>0, <1>3 DEF ApplyDecision, Go, DecisionsNameACard, Checkpoints
<1>4. CASE ~(StartReply(r) \/ EndStream(r) \/ ApplyDecision(r)
               \/ \E asks \in {"approval", "form"} : Interrupt(r, asks))
  <2>1. UNCHANGED graph
    BY <1>4 DEF Step, Serve, Fault, Arrive, Receive, SaveUserMessage, CreateRun,
       FindAwaitingRun, NothingAwaiting, CheckCard, RefuseCard, AcceptForm, RefuseForm,
       Decide, RefreshCard, ResumeRun, StartResume, DecisionNotAllowed, PublishArtifact,
       SettleBeforeNext, CreateCard, ParkRun, SaveReply, AttachArtifacts, CompleteRun,
       SettleAtEnd, SettleFailed, SettleCancelled, AgentError, Disconnect, Abandon,
       FailRun, graph
  <2>2. QED
    BY <1>0, <2>1 DEF graph
<1>5. QED
  BY <1>1, <1>2, <1>3, <1>4

\* Message, artifact and ordering rows stay well-typed.
LEMMA RowsStep ==
  ASSUME TypeOK, NEW r \in Requests, Step(r)
  PROVE  /\ runOrder' \in Seq(Requests) /\ cardOrder' \in Seq(Requests)
         /\ messages' \subseteq {"user", "assistant"} \X Requests
         /\ artifact' \in [Requests -> {"none", "loose", "attached"}]
<1>0. /\ runOrder \in Seq(Requests) /\ cardOrder \in Seq(Requests)
      /\ messages \subseteq {"user", "assistant"} \X Requests
      /\ artifact \in [Requests -> {"none", "loose", "attached"}]
  BY DEF TypeOK
<1>1. CASE CreateRun(r)
  BY <1>0, <1>1 DEF CreateRun
<1>2. CASE CreateCard(r)
  BY <1>0, <1>2 DEF CreateCard
<1>3. CASE SaveUserMessage(r) \/ SaveReply(r)
  BY <1>0, <1>3 DEF SaveUserMessage, SaveReply
<1>4. CASE PublishArtifact(r) \/ AttachArtifacts(r)
  BY <1>0, <1>4 DEF PublishArtifact, AttachArtifacts
<1>5. CASE ~(CreateRun(r) \/ CreateCard(r) \/ SaveUserMessage(r) \/ SaveReply(r)
               \/ PublishArtifact(r) \/ AttachArtifacts(r))
  <2>1. UNCHANGED <<runOrder, cardOrder, messages, artifact>>
    BY <1>5 DEF Step, Serve, Fault, Arrive, Receive, StartReply, FindAwaitingRun,
       NothingAwaiting, CheckCard, RefuseCard, AcceptForm, RefuseForm, Decide,
       RefreshCard, ResumeRun, StartResume, ApplyDecision, DecisionNotAllowed, EndStream,
       Interrupt, SettleBeforeNext, ParkRun, CompleteRun, SettleAtEnd, SettleFailed,
       SettleCancelled, AgentError, Disconnect, Abandon, FailRun, database
  <2>2. QED
    BY <1>0, <2>1
<1>6. QED
  BY <1>1, <1>2, <1>3, <1>4, <1>5

\* Type correctness is preserved; DecisionsNameACard makes req[r].card a row.
LEMMA TypeStep ==
  ASSUME TypeOK, DecisionsNameACard, NEW r \in Requests, Step(r)
  PROVE  TypeOK'
<1>1. phase' \in [Requests -> Phases]
  <2>1. PICK to \in Phases : phase' = [phase EXCEPT ![r] = to]
    BY PhaseStep
  <2>2. QED
    BY <2>1 DEF TypeOK
<1>2. QED
  BY <1>1, LocalsStep, RunStep, CardStep, GraphStep, RowsStep DEF TypeOK
-----------------------------------------------------------------------------
(* What a step leaves alone. *)

\* Past its checks, a request keeps its kind, its card and its run.
Settled(r) == phase[r] \notin {"idle", "received", "asked"}

\* A decision works on the card and the run of its checks until its end.
LEMMA LocalsStay ==
  ASSUME TypeOK, NEW r \in Requests, Step(r), NEW q \in Requests, Settled(q)
  PROVE  /\ req'[q].kind = req[q].kind
         /\ req'[q].card = req[q].card
         /\ req'[q].run = req[q].run
<1>0. req \in [Requests -> Locals]
  BY DEF TypeOK
<1>1. CASE Arrive(r) \/ CreateRun(r) \/ FindAwaitingRun(r)
  BY <1>0, <1>1 DEF Arrive, Receive, CreateRun, FindAwaitingRun, Go, Settled, Locals
<1>2. CASE CheckCard(r) \/ RefreshCard(r) \/ StartResume(r)
  BY <1>0, <1>2 DEF CheckCard, RefreshCard, StartResume, Locals
<1>3. CASE \E asks \in {"approval", "form"} : Interrupt(r, asks)
  BY <1>0, <1>3 DEF Interrupt, Locals
<1>4. CASE SettleBeforeNext(r) \/ SettleAtEnd(r) \/ SettleFailed(r) \/ SettleCancelled(r)
  BY <1>0, <1>4 DEF SettleBeforeNext, SettleAtEnd, SettleFailed, SettleCancelled,
     SetExecution, Locals
<1>5. CASE ~AssignsLocals(r)
  BY <1>5, LocalsKept
<1>6. QED
  BY <1>1, <1>2, <1>3, <1>4, <1>5 DEF AssignsLocals

\* A request that reached its stream stays past that point.
LEMMA StreamedStays ==
  ASSUME TypeOK, NEW r \in Requests, Step(r), NEW q \in Requests, phase[q] \in Streamed
  PROVE  phase'[q] \in Streamed
<1>0. phase \in [Requests -> Phases]
  BY DEF TypeOK
<1>1. CASE q # r
  <2>1. PICK to \in Phases : phase' = [phase EXCEPT ![r] = to]
    BY PhaseStep
  <2>2. QED
    BY <1>0, <1>1, <2>1
<1>2. CASE q = r
  <2> USE <1>0, <1>2 DEF Go, Streamed, TryPhases
  <2>1. CASE Arrive(r) \/ SaveUserMessage(r) \/ CreateRun(r) \/ StartReply(r)
    BY <2>1 DEF Arrive, Receive, SaveUserMessage, CreateRun, StartReply
  <2>2. CASE FindAwaitingRun(r) \/ NothingAwaiting(r) \/ CheckCard(r) \/ RefuseCard(r)
    BY <2>2 DEF FindAwaitingRun, NothingAwaiting, CheckCard, RefuseCard
  <2>3. CASE AcceptForm(r) \/ RefuseForm(r) \/ Decide(r) \/ RefreshCard(r) \/ ResumeRun(r)
    BY <2>3 DEF AcceptForm, RefuseForm, Decide, RefreshCard, ResumeRun
  <2>4. CASE StartResume(r)
    BY <2>4 DEF StartResume
  <2>5. CASE ApplyDecision(r) \/ DecisionNotAllowed(r) \/ AgentError(r)
    BY <2>5 DEF ApplyDecision, DecisionNotAllowed, AgentError, FailRun
  <2>6. CASE PublishArtifact(r) \/ EndStream(r) \/ SaveReply(r) \/ AttachArtifacts(r)
    BY <2>6 DEF PublishArtifact, EndStream, SaveReply, AttachArtifacts
  <2>7. CASE \E asks \in {"approval", "form"} : Interrupt(r, asks)
    BY <2>7 DEF Interrupt
  <2>8. CASE SettleBeforeNext(r) \/ CreateCard(r) \/ ParkRun(r) \/ CompleteRun(r)
    BY <2>8 DEF SettleBeforeNext, CreateCard, ParkRun, CompleteRun
  <2>9. CASE SettleAtEnd(r) \/ SettleFailed(r) \/ SettleCancelled(r)
    BY <2>9 DEF SettleAtEnd, SettleFailed, SettleCancelled
  <2>10. CASE Disconnect(r) \/ Abandon(r)
    BY <2>10 DEF Disconnect, Abandon
  <2>11. QED
    BY <2>1, <2>2, <2>3, <2>4, <2>5, <2>6, <2>7, <2>8, <2>9, <2>10 DEF Step, Serve, Fault
<1>3. QED
  BY <1>1, <1>2

\* The pieces of state a step touches, per action: the history, the replies and
\* the artifacts grow only at the streaming request.
LEMMA TracesStep ==
  ASSUME TypeOK, TracesOfStreams, NEW r \in Requests, Step(r)
  PROVE  TracesOfStreams'
<1>1. ASSUME NEW q \in Requests, phase[q] \in Streamed
      PROVE  phase'[q] \in Streamed
  BY <1>1, StreamedStays
<1>2. \A x \in executed : phase'[x[1]] \in Streamed
  BY <1>1 DEF TypeOK, TracesOfStreams
<1>3. \A m \in messages : m[1] = "assistant" => phase'[m[2]] \in Streamed
  BY <1>1 DEF TypeOK, TracesOfStreams
<1>4. \A b \in Requests : artifact[b] # "none" => phase'[b] \in Streamed
  BY <1>1 DEF TracesOfStreams
<1>5. CASE ApplyDecision(r)
  <2>1. phase'[r] \in Streamed
    BY <1>5 DEF ApplyDecision, Go, TypeOK, Streamed, TryPhases
  <2>2. \A x \in executed' : phase'[x[1]] \in Streamed
    BY <1>2, <1>5, <2>1 DEF ApplyDecision
  <2>3. UNCHANGED <<messages, artifact>>
    BY <1>5 DEF ApplyDecision, database
  <2>4. QED
    BY <1>3, <1>4, <2>2, <2>3 DEF TracesOfStreams
<1>6. CASE SaveUserMessage(r)
  <2>1. UNCHANGED <<executed, artifact>>
    BY <1>6 DEF SaveUserMessage, graph
  <2>2. \A m \in messages' : m[1] = "assistant" => phase'[m[2]] \in Streamed
    BY <1>3, <1>6 DEF SaveUserMessage
  <2>3. QED
    BY <1>2, <1>4, <2>1, <2>2 DEF TracesOfStreams
<1>7. CASE SaveReply(r)
  <2>1. UNCHANGED <<executed, artifact>>
    BY <1>7 DEF SaveReply, graph
  <2>2. phase'[r] \in Streamed
    BY <1>7 DEF SaveReply, Go, TypeOK, Streamed, TryPhases
  <2>3. \A m \in messages' : m[1] = "assistant" => phase'[m[2]] \in Streamed
    BY <1>3, <1>7, <2>2 DEF SaveReply
  <2>4. QED
    BY <1>2, <1>4, <2>1, <2>3 DEF TracesOfStreams
<1>8. CASE PublishArtifact(r)
  <2>1. UNCHANGED <<executed, messages>>
    BY <1>8 DEF PublishArtifact, graph
  <2>2. phase'[r] \in Streamed
    BY <1>8 DEF PublishArtifact, Streamed, TryPhases
  <2>3. \A b \in Requests : artifact'[b] # "none" => phase'[b] \in Streamed
    BY <1>4, <1>8, <2>2 DEF PublishArtifact, TypeOK
  <2>4. QED
    BY <1>2, <1>3, <2>1, <2>3 DEF TracesOfStreams
<1>9. CASE AttachArtifacts(r)
  <2>1. UNCHANGED <<executed, messages>>
    BY <1>9 DEF AttachArtifacts, graph
  <2>2. \A b \in Requests : artifact'[b] # "none" => phase'[b] \in Streamed
    BY <1>4, <1>9 DEF AttachArtifacts
  <2>3. QED
    BY <1>2, <1>3, <2>1, <2>2 DEF TracesOfStreams
<1>10. CASE ~(ApplyDecision(r) \/ SaveUserMessage(r) \/ SaveReply(r)
                \/ PublishArtifact(r) \/ AttachArtifacts(r))
  <2>1. UNCHANGED <<executed, messages, artifact>>
    BY <1>10 DEF Step, Serve, Fault, Arrive, Receive, CreateRun, StartReply,
       FindAwaitingRun, NothingAwaiting, CheckCard, RefuseCard, AcceptForm, RefuseForm,
       Decide, RefreshCard, ResumeRun, StartResume, DecisionNotAllowed, EndStream,
       Interrupt, SettleBeforeNext, CreateCard, ParkRun, CompleteRun, SettleAtEnd,
       SettleFailed, SettleCancelled, AgentError, Disconnect, Abandon, FailRun,
       database, graph
  <2>2. QED
    BY <1>2, <1>3, <1>4, <2>1 DEF TracesOfStreams
<1>11. QED
  BY <1>5, <1>6, <1>7, <1>8, <1>9, <1>10

\* Only decision requests get past the card checks, whichever way a request ends.
LEMMA NameStep ==
  ASSUME TypeOK, DecisionsNameACard, NEW r \in Requests, Step(r)
  PROVE  DecisionsNameACard'
<1> DEFINE N(q) ==
      /\ phase[q] = "answering" => req[q].view.of \in Requests
      /\ req[q].kind \in {"approve", "reject"} => req[q].card \in Requests
      /\ phase[q] \in {"asked", "opened"} => req[q].kind = "send"
      /\ phase[q] \in {"checked", "decided"} => req[q].kind \in {"approve", "reject"}
<1>0. /\ phase \in [Requests -> Phases]
      /\ req \in [Requests -> Locals]
  BY DEF TypeOK
<1>a. \A q \in Requests : N(q)
  BY DEF DecisionsNameACard
<1>b. SUFFICES ASSUME NEW q \in Requests PROVE N(q)'
  BY DEF DecisionsNameACard
<1>1. CASE q # r
  <2>1. phase'[q] = phase[q]
    <3>1. PICK to \in Phases : phase' = [phase EXCEPT ![r] = to]
      BY PhaseStep
    <3>2. QED
      BY <1>0, <1>1, <3>1
  <2>2. req'[q] = req[q]
    BY <1>1, LocalsStep
  <2>3. QED
    BY <1>a, <2>1, <2>2
<1>2. CASE q = r
  <2> USE <1>0, <1>2
  <2>1. CASE Arrive(r)
    <3>1. phase'[r] = "received"
      BY <2>1 DEF Arrive, Receive, Go
    <3>2. PICK kind \in Kinds, c \in Requests \cup {None} :
            /\ kind \in {"approve", "reject"} => c \in Requests
            /\ req' = [req EXCEPT ![r].kind = kind, ![r].card = c]
      BY <2>1 DEF Arrive, Receive, Kinds
    <3>3. req'[r].kind = kind /\ req'[r].card = c
      BY <3>2 DEF Locals
    <3>4. QED
      BY <3>1, <3>2, <3>3
  <2>2. CASE StartResume(r)
    <3>1. \/ phase'[r] # "answering"
          \/ checkpoint \notin {Idle, Busy}
      BY <2>2 DEF StartResume, Go, Idle, Busy
    <3>2. checkpoint \in Checkpoints
      BY DEF TypeOK
    <3>3. phase'[r] = "answering" => req'[r].view.of \in Requests
      BY <2>2, <3>1, <3>2 DEF StartResume, Checkpoints
    <3>4. phase'[r] \notin {"checked", "decided", "asked", "opened"}
      BY <2>2 DEF StartResume, Go
    <3>5. req'[r].kind = req[r].kind /\ req'[r].card = req[r].card
      BY <2>2 DEF StartResume
    <3>6. QED
      BY <1>a, <3>3, <3>4, <3>5
  <2>3. CASE CheckCard(r) \/ Decide(r) \/ RefreshCard(r)
    BY <1>a, <2>3 DEF CheckCard, Decide, RefreshCard, Go, Locals
  <2>4. CASE SaveUserMessage(r) \/ CreateRun(r)
    BY <1>a, <2>4 DEF SaveUserMessage, CreateRun, Go, Locals
  <2>5. CASE ~(\/ Arrive(r) \/ StartResume(r) \/ CheckCard(r) \/ Decide(r) \/ RefreshCard(r)
               \/ SaveUserMessage(r) \/ CreateRun(r))
    <3>1. phase'[r] \notin {"checked", "decided", "answering", "asked", "opened"}
      <4>1. CASE StartReply(r) \/ FindAwaitingRun(r)
        BY <4>1 DEF StartReply, FindAwaitingRun, Go
      <4>2. CASE NothingAwaiting(r) \/ RefuseCard(r) \/ AcceptForm(r) \/ RefuseForm(r)
        BY <4>2 DEF NothingAwaiting, RefuseCard, AcceptForm, RefuseForm, Go
      <4>3. CASE ResumeRun(r) \/ ApplyDecision(r) \/ PublishArtifact(r) \/ EndStream(r)
        BY <4>3 DEF ResumeRun, ApplyDecision, PublishArtifact, EndStream, Go
      <4>4. CASE \E asks \in {"approval", "form"} : Interrupt(r, asks)
        BY <4>4 DEF Interrupt, Go
      <4>5. CASE SettleBeforeNext(r) \/ CreateCard(r) \/ ParkRun(r) \/ SaveReply(r)
        BY <4>5 DEF SettleBeforeNext, CreateCard, ParkRun, SaveReply, Go
      <4>6. CASE AttachArtifacts(r) \/ CompleteRun(r) \/ SettleAtEnd(r)
        BY <4>6 DEF AttachArtifacts, CompleteRun, SettleAtEnd, Go
      <4>7. CASE DecisionNotAllowed(r) \/ AgentError(r) \/ Disconnect(r) \/ Abandon(r)
        BY <4>7 DEF DecisionNotAllowed, AgentError, Disconnect, Abandon, FailRun
      <4>8. CASE SettleFailed(r) \/ SettleCancelled(r)
        BY <4>8 DEF SettleFailed, SettleCancelled, Go
      <4>9. QED
        BY <2>5, <4>1, <4>2, <4>3, <4>4, <4>5, <4>6, <4>7, <4>8 DEF Step, Serve, Fault
    <3>2. req'[r].kind = req[r].kind /\ req'[r].card = req[r].card
      <4>1. CASE Settled(r)
        BY <4>1, LocalsStay
      <4>2. CASE ~Settled(r) /\ FindAwaitingRun(r)
        BY <4>2 DEF FindAwaitingRun, Locals
      <4>3. CASE ~Settled(r) /\ ~FindAwaitingRun(r)
        <5>1. ~AssignsLocals(r)
          BY <2>5, <4>3 DEF AssignsLocals, Settled, Interrupt, SettleBeforeNext,
             SettleAtEnd, SettleFailed, SettleCancelled, Go
        <5>2. QED
          BY <5>1, LocalsKept
      <4>4. QED
        BY <4>1, <4>2, <4>3
    <3>3. QED
      BY <1>a, <3>1, <3>2
  <2>6. QED
    BY <2>1, <2>2, <2>3, <2>4, <2>5
<1>3. QED
  BY <1>1, <1>2

\* Only the steps of a request that approves lead to Settling.
LEMMA SettlersStep ==
  ASSUME TypeOK, DecisionsNameACard, SettlersApprove, NEW r \in Requests, Step(r)
  PROVE  SettlersApprove'
<1>0. /\ phase \in [Requests -> Phases]
      /\ req \in [Requests -> Locals]
  BY DEF TypeOK
<1>1. SUFFICES ASSUME NEW q \in Requests, phase'[q] \in Settling PROVE Approving(q)'
  BY DEF SettlersApprove
<1>2. CASE q # r
  <2>1. PICK to \in Phases : phase' = [phase EXCEPT ![r] = to]
    BY PhaseStep
  <2>2. phase[q] \in Settling /\ req'[q] = req[q]
    BY <1>0, <1>1, <1>2, <2>1, LocalsStep
  <2>3. QED
    BY <2>2 DEF SettlersApprove, Approving
<1>3. CASE q = r
  <2> USE <1>0, <1>1, <1>3 DEF Settling
  <2>1. Settled(r)
    <3>1. CASE Arrive(r) \/ SaveUserMessage(r) \/ CreateRun(r)
      BY <3>1 DEF Arrive, Receive, SaveUserMessage, CreateRun, Go
    <3>2. CASE FindAwaitingRun(r) \/ NothingAwaiting(r)
      BY <3>2 DEF FindAwaitingRun, NothingAwaiting, Go
    <3>3. CASE Abandon(r)
      BY <3>3 DEF Abandon
    <3>4. CASE DecisionNotAllowed(r) \/ AgentError(r) \/ Disconnect(r) \/ PublishArtifact(r)
      BY <3>4 DEF DecisionNotAllowed, AgentError, Disconnect, PublishArtifact, Settled, TryPhases
    <3>5. CASE ~(\/ Arrive(r) \/ SaveUserMessage(r) \/ CreateRun(r) \/ FindAwaitingRun(r)
                 \/ NothingAwaiting(r) \/ Abandon(r) \/ DecisionNotAllowed(r)
                 \/ AgentError(r) \/ Disconnect(r) \/ PublishArtifact(r))
      BY <3>5 DEF Step, Serve, Fault, StartReply, CheckCard, RefuseCard, AcceptForm,
         RefuseForm, Decide, RefreshCard, ResumeRun, StartResume, ApplyDecision,
         EndStream, Interrupt, SettleBeforeNext, CreateCard, ParkRun, SaveReply,
         AttachArtifacts, CompleteRun, SettleAtEnd, SettleFailed, SettleCancelled,
         Go, Settled
    <3>6. QED
      BY <3>1, <3>2, <3>3, <3>4, <3>5
  <2>2. SUFFICES Approving(r)
    BY <2>1, LocalsStay DEF Approving
  <2>3. CASE CompleteRun(r) \/ DecisionNotAllowed(r) \/ AgentError(r) \/ Disconnect(r)
    BY <2>3 DEF CompleteRun, DecisionNotAllowed, AgentError, Disconnect, FailRun, Go
  <2>4. CASE \E asks \in {"approval", "form"} : Interrupt(r, asks)
    BY <2>4 DEF Interrupt, Go
  <2>5. CASE ~(\/ CompleteRun(r) \/ DecisionNotAllowed(r) \/ AgentError(r) \/ Disconnect(r)
               \/ \E asks \in {"approval", "form"} : Interrupt(r, asks))
    <3>1. CASE Arrive(r) \/ SaveUserMessage(r) \/ CreateRun(r) \/ StartReply(r)
      BY <3>1 DEF Arrive, Receive, SaveUserMessage, CreateRun, StartReply, Go
    <3>2. CASE FindAwaitingRun(r) \/ NothingAwaiting(r) \/ CheckCard(r) \/ RefuseCard(r)
      BY <3>2 DEF FindAwaitingRun, NothingAwaiting, CheckCard, RefuseCard, Go
    <3>3. CASE AcceptForm(r) \/ RefuseForm(r) \/ Decide(r) \/ RefreshCard(r)
      BY <3>3 DEF AcceptForm, RefuseForm, Decide, RefreshCard, Go
    <3>4. CASE ResumeRun(r) \/ StartResume(r) \/ ApplyDecision(r) \/ EndStream(r)
      BY <3>4 DEF ResumeRun, StartResume, ApplyDecision, EndStream, Go
    <3>5. CASE PublishArtifact(r) \/ SettleBeforeNext(r) \/ CreateCard(r) \/ ParkRun(r)
      BY <3>5 DEF PublishArtifact, SettleBeforeNext, CreateCard, ParkRun, Go
    <3>6. CASE SaveReply(r) \/ AttachArtifacts(r) \/ SettleAtEnd(r) \/ SettleFailed(r)
                 \/ SettleCancelled(r) \/ Abandon(r)
      BY <3>6 DEF SaveReply, AttachArtifacts, SettleAtEnd, SettleFailed, SettleCancelled,
         Abandon, Go
    <3>7. QED
      BY <2>5, <3>1, <3>2, <3>3, <3>4, <3>5, <3>6 DEF Step, Serve, Fault
  <2>6. QED
    BY <2>3, <2>4, <2>5
<1>4. QED
  BY <1>2, <1>3
-----------------------------------------------------------------------------
(* A card row only moves forward: it is created once, and once decided it stays *)
(* decided and keeps its run.                                                   *)

\* decide, mark_* and create never take a decision back or move a card to another
\* run, although they all write by primary key.
LEMMA CardRowStays ==
  ASSUME TypeOK, DecisionsNameACard, CardsAppearLate, NEW r \in Requests, Step(r),
         NEW c \in Requests
  PROVE  /\ card[c].decision # "absent" =>
                card'[c].decision # "absent" /\ card'[c].run = card[c].run
         /\ Decided(c) => Decided(c)'
<1>0. card \in [Requests -> Cards]
  BY DEF TypeOK
<1>1. CASE Decide(r)
  <2>1. req[r].kind \in {"approve", "reject"}
    BY <1>1 DEF Decide, Go, DecisionsNameACard
  <2>2. /\ card'[c].run = card[c].run
        /\ card'[c].decision = IF c = req[r].card THEN req[r].kind ELSE card[c].decision
    BY <1>0, <1>1 DEF Decide, Cards
  <2>3. QED
    BY <2>1, <2>2 DEF Decided
<1>2. CASE CreateCard(r)
  <2>1. card[r].decision = "absent"
    BY <1>2 DEF CreateCard, Go, CardsAppearLate, CardPhases
  <2>2. QED
    BY <1>0, <1>2, <2>1 DEF CreateCard, Cards, Decided
<1>3. CASE SettleBeforeNext(r) \/ SettleAtEnd(r) \/ SettleFailed(r) \/ SettleCancelled(r)
  BY <1>0, <1>3 DEF SettleBeforeNext, SettleAtEnd, SettleFailed, SettleCancelled,
     SetExecution, Cards, Decided
<1>4. QED
  BY <1>1, <1>2, <1>3, CardsKept DEF Decided

\* Which phases a card row can be found decided in follows the phases of its
\* creator: they only lead from CardPhases to CardPhases.
LEMMA CardPhasesStay ==
  ASSUME TypeOK, NEW r \in Requests, Step(r), NEW q \in Requests, phase[q] \in CardPhases
  PROVE  phase'[q] \in CardPhases
<1>0. phase \in [Requests -> Phases]
  BY DEF TypeOK
<1>1. CASE q # r
  <2>1. PICK to \in Phases : phase' = [phase EXCEPT ![r] = to]
    BY PhaseStep
  <2>2. QED
    BY <1>0, <1>1, <2>1
<1>2. CASE q = r
  <2> USE <1>0, <1>2 DEF CardPhases
  <2>1. CASE ParkRun(r)
    BY <2>1 DEF ParkRun, Go
  <2>2. CASE SettleCancelled(r)
    BY <2>2 DEF SettleCancelled, Go
  <2>3. CASE Disconnect(r)
    BY <2>3 DEF Disconnect
  <2>4. CASE Abandon(r)
    BY <2>4 DEF Abandon
  <2>5. CASE ~(ParkRun(r) \/ SettleCancelled(r) \/ Disconnect(r) \/ Abandon(r))
    <3>1. CASE Arrive(r) \/ SaveUserMessage(r) \/ CreateRun(r) \/ StartReply(r)
      BY <3>1 DEF Arrive, Receive, SaveUserMessage, CreateRun, StartReply, Go
    <3>2. CASE FindAwaitingRun(r) \/ NothingAwaiting(r) \/ CheckCard(r) \/ RefuseCard(r)
      BY <3>2 DEF FindAwaitingRun, NothingAwaiting, CheckCard, RefuseCard, Go
    <3>3. CASE AcceptForm(r) \/ RefuseForm(r) \/ Decide(r) \/ RefreshCard(r)
      BY <3>3 DEF AcceptForm, RefuseForm, Decide, RefreshCard, Go
    <3>4. CASE ResumeRun(r) \/ StartResume(r) \/ ApplyDecision(r) \/ EndStream(r)
      BY <3>4 DEF ResumeRun, StartResume, ApplyDecision, EndStream, Go
    <3>5. CASE DecisionNotAllowed(r) \/ AgentError(r) \/ PublishArtifact(r)
      BY <3>5 DEF DecisionNotAllowed, AgentError, PublishArtifact
    <3>6. CASE \E asks \in {"approval", "form"} : Interrupt(r, asks)
      BY <3>6 DEF Interrupt, Go
    <3>7. CASE SettleBeforeNext(r) \/ CreateCard(r) \/ SaveReply(r) \/ AttachArtifacts(r)
      BY <3>7 DEF SettleBeforeNext, CreateCard, SaveReply, AttachArtifacts, Go
    <3>8. CASE CompleteRun(r) \/ SettleAtEnd(r) \/ SettleFailed(r)
      BY <3>8 DEF CompleteRun, SettleAtEnd, SettleFailed, Go
    <3>9. QED
      BY <2>5, <3>1, <3>2, <3>3, <3>4, <3>5, <3>6, <3>7, <3>8 DEF Step, Serve, Fault
  <2>6. QED
    BY <2>1, <2>2, <2>3, <2>4, <2>5
<1>3. QED
  BY <1>1, <1>2

\* A card row appears when its creator inserts it, pending and never run.
LEMMA CardsAppearStep ==
  ASSUME TypeOK, DecisionsNameACard, SettlersApprove, CardsAppearLate, AcceptedCards,
         NEW r \in Requests, Step(r)
  PROVE  CardsAppearLate'
<1>0. card \in [Requests -> Cards]
  BY DEF TypeOK
<1>a. ASSUME NEW q \in Requests, card[q].decision # "absent"
      PROVE  phase'[q] \in CardPhases
  BY <1>a, CardPhasesStay DEF CardsAppearLate
<1>1. CASE CreateCard(r)
  <2>1. phase'[r] \in CardPhases
    BY <1>1 DEF CreateCard, Go, CardPhases, TypeOK
  <2>2. QED
    BY <1>0, <1>1, <1>a, <2>1 DEF CreateCard, CardsAppearLate, Cards
<1>2. CASE Decide(r)
  <2>1. card[req[r].card].decision # "absent" /\ req[r].card \in Requests
    BY <1>2 DEF Decide, Go, AcceptedCards, Accepted, DecisionsNameACard
  <2>2. req[r].kind # "absent"
    BY <1>2 DEF Decide, Go, DecisionsNameACard
  <2>3. \A q \in Requests : /\ q # req[r].card => card'[q] = card[q]
                            /\ q = req[r].card => card'[q].decision = req[r].kind
    BY <1>0, <1>2 DEF Decide, Cards
  <2>4. QED
    BY <1>a, <2>1, <2>2, <2>3 DEF CardsAppearLate
<1>3. CASE SettleBeforeNext(r) \/ SettleAtEnd(r) \/ SettleFailed(r) \/ SettleCancelled(r)
  <2>1. Approving(r)
    BY <1>3 DEF SettleBeforeNext, SettleAtEnd, SettleFailed, SettleCancelled, Go,
       SettlersApprove, Settling
  <2>2. card[req[r].card].decision # "absent"
    BY <1>3, <2>1 DEF SettleBeforeNext, SettleAtEnd, SettleFailed, SettleCancelled,
       Go, AcceptedCards, Accepted, TryPhases, Approving
  <2>3. \A q \in Requests : /\ q # req[r].card => card'[q] = card[q]
                            /\ card'[q].decision = card[q].decision
    BY <1>0, <1>3 DEF SettleBeforeNext, SettleAtEnd, SettleFailed, SettleCancelled,
       SetExecution, Cards
  <2>4. QED
    BY <1>a, <2>2, <2>3 DEF CardsAppearLate
<1>4. CASE UNCHANGED card
  BY <1>a, <1>4 DEF CardsAppearLate
<1>5. QED
  BY <1>1, <1>2, <1>3, <1>4, CardsKept

\* What the card checks found stays true while other requests write the same row.
LEMMA AcceptedStep ==
  ASSUME TypeOK, DecisionsNameACard, SettlersApprove, CardsAppearLate, AcceptedCards,
         NEW r \in Requests, Step(r)
  PROVE  AcceptedCards'
<1>0. /\ phase \in [Requests -> Phases]
      /\ req \in [Requests -> Locals]
      /\ card \in [Requests -> Cards]
  BY DEF TypeOK
<1> DEFINE Good(q) == /\ card[req[q].card].decision # "absent"
                      /\ card[req[q].card].run = req[q].run
                      /\ phase[q] # "checked" => Decided(req[q].card)
<1>1. SUFFICES ASSUME NEW q \in Requests, req'[q].kind \in {"approve", "reject"},
                      phase'[q] \in Accepted
               PROVE  Good(q)'
  BY DEF AcceptedCards
<1>2. ASSUME req[q].kind \in {"approve", "reject"}, phase[q] \in Accepted,
             req'[q].card = req[q].card, req'[q].run = req[q].run,
             phase[q] = "checked" => phase'[q] = "checked"
      PROVE  Good(q)'
  <2>1. req[q].card \in Requests /\ Good(q)
    BY <1>2 DEF DecisionsNameACard, AcceptedCards
  <2>2. QED
    BY <1>2, <2>1, CardRowStays
<1>3. CASE q # r
  <2>1. PICK to \in Phases : phase' = [phase EXCEPT ![r] = to]
    BY PhaseStep
  <2>2. phase'[q] = phase[q] /\ req'[q] = req[q]
    BY <1>0, <1>3, <2>1, LocalsStep
  <2>3. QED
    BY <1>1, <1>2, <2>2
<1>4. CASE q = r
  <2> USE <1>4
  <2>1. CASE CheckCard(r)
    <3>1. req[r].card \in Requests /\ req'[r].card = req[r].card /\ req'[r].run = req[r].run
      BY <1>0, <2>1 DEF CheckCard, DecisionsNameACard, Locals
    <3>2. UNCHANGED card /\ CardAccepted(r) /\ phase'[r] = "checked"
      BY <1>0, <2>1 DEF CheckCard, Go, database
    <3>3. QED
      BY <3>1, <3>2 DEF CardAccepted
  <2>2. CASE Decide(r)
    <3>1. phase[r] = "checked" /\ UNCHANGED req
      BY <2>2 DEF Decide, Go
    <3>2. req[r].card \in Requests /\ req[r].kind \in {"approve", "reject"}
      BY <3>1 DEF DecisionsNameACard
    <3>3. card[req[r].card].run = req[r].run
      BY <3>1, <3>2 DEF AcceptedCards, Accepted
    <3>4. /\ card'[req[r].card].run = card[req[r].card].run
          /\ card'[req[r].card].decision = req[r].kind
      BY <1>0, <2>2, <3>2 DEF Decide, Cards
    <3>5. QED
      BY <3>1, <3>2, <3>3, <3>4 DEF Decided
  <2>3. CASE ~(CheckCard(r) \/ Decide(r))
    <3>1. phase[r] \in Accepted \ {"checked"}
      <4> USE <1>0, <1>1 DEF Accepted, TryPhases, Go
      <4>1. CASE Arrive(r) \/ SaveUserMessage(r) \/ CreateRun(r)
        BY <4>1 DEF Arrive, Receive, SaveUserMessage, CreateRun
      <4>2. CASE StartReply(r) \/ AcceptForm(r)
        BY <4>2 DEF StartReply, AcceptForm, DecisionsNameACard
      <4>3. CASE FindAwaitingRun(r) \/ NothingAwaiting(r) \/ RefuseCard(r) \/ RefuseForm(r)
        BY <4>3 DEF FindAwaitingRun, NothingAwaiting, RefuseCard, RefuseForm
      <4>4. CASE RefreshCard(r) \/ ResumeRun(r) \/ StartResume(r)
        BY <4>4 DEF RefreshCard, ResumeRun, StartResume
      <4>5. CASE ApplyDecision(r) \/ DecisionNotAllowed(r) \/ AgentError(r) \/ Disconnect(r)
        BY <4>5 DEF ApplyDecision, DecisionNotAllowed, AgentError, Disconnect
      <4>6. CASE PublishArtifact(r) \/ EndStream(r) \/ SaveReply(r) \/ AttachArtifacts(r)
        BY <4>6 DEF PublishArtifact, EndStream, SaveReply, AttachArtifacts
      <4>7. CASE \E asks \in {"approval", "form"} : Interrupt(r, asks)
        BY <4>7 DEF Interrupt
      <4>8. CASE SettleBeforeNext(r) \/ CreateCard(r) \/ ParkRun(r) \/ CompleteRun(r)
        BY <4>8 DEF SettleBeforeNext, CreateCard, ParkRun, CompleteRun
      <4>9. CASE SettleAtEnd(r) \/ SettleFailed(r) \/ SettleCancelled(r) \/ Abandon(r)
        BY <4>9 DEF SettleAtEnd, SettleFailed, SettleCancelled, Abandon
      <4>10. QED
        BY <2>3, <4>1, <4>2, <4>3, <4>4, <4>5, <4>6, <4>7, <4>8, <4>9 DEF Step, Serve, Fault
    <3>2. Settled(r)
      BY <3>1 DEF Settled, Accepted, TryPhases
    <3>3. req'[r].kind = req[r].kind /\ req'[r].card = req[r].card /\ req'[r].run = req[r].run
      BY <3>2, LocalsStay
    <3>4. QED
      BY <1>1, <1>2, <3>1, <3>3
  <2>4. QED
    BY <2>1, <2>2, <2>3
<1>5. QED
  BY <1>3, <1>4

-----------------------------------------------------------------------------
(* The conjuncts the runs check. *)

\* No step deletes a message.
LEMMA MessagesStay ==
  ASSUME NEW r \in Requests, Step(r)
  PROVE  messages \subseteq messages'
<1>1. CASE SaveUserMessage(r) \/ SaveReply(r)
  BY <1>1 DEF SaveUserMessage, SaveReply
<1>2. CASE ~(SaveUserMessage(r) \/ SaveReply(r))
  BY <1>2 DEF Step, Serve, Fault, Arrive, Receive, CreateRun, StartReply,
     FindAwaitingRun, NothingAwaiting, CheckCard, RefuseCard, AcceptForm, RefuseForm,
     Decide, RefreshCard, ResumeRun, StartResume, ApplyDecision, DecisionNotAllowed,
     PublishArtifact, EndStream, Interrupt, SettleBeforeNext, CreateCard, ParkRun,
     AttachArtifacts, CompleteRun, SettleAtEnd, SettleFailed, SettleCancelled,
     AgentError, Disconnect, Abandon, FailRun, database
<1>3. QED
  BY <1>1, <1>2

\* A request attaches artifacts and completes its run only after saving its reply.
LEMMA ReplySavedStep ==
  ASSUME TypeOK, ReplySaved, NEW r \in Requests, Step(r)
  PROVE  ReplySaved'
<1>0. phase \in [Requests -> Phases]
  BY DEF TypeOK
<1>1. messages \subseteq messages'
  BY MessagesStay
<1>2. SUFFICES ASSUME NEW q \in Requests, phase'[q] \in {"replied", "attached"}
               PROVE  <<"assistant", q>> \in messages'
  BY DEF ReplySaved
<1>3. CASE phase[q] \in {"replied", "attached"}
  BY <1>1, <1>3 DEF ReplySaved
<1>4. CASE phase[q] \notin {"replied", "attached"}
  <2>1. q = r
    <3>1. PICK to \in Phases : phase' = [phase EXCEPT ![r] = to]
      BY PhaseStep
    <3>2. QED
      BY <1>0, <1>2, <1>4, <3>1
  <2>2. SaveReply(r)
    <3> USE <1>0, <1>2, <1>4, <2>1 DEF Go
    <3>1. CASE Arrive(r) \/ SaveUserMessage(r) \/ CreateRun(r) \/ StartReply(r)
      BY <3>1 DEF Arrive, Receive, SaveUserMessage, CreateRun, StartReply
    <3>2. CASE FindAwaitingRun(r) \/ NothingAwaiting(r) \/ CheckCard(r) \/ RefuseCard(r)
      BY <3>2 DEF FindAwaitingRun, NothingAwaiting, CheckCard, RefuseCard
    <3>3. CASE AcceptForm(r) \/ RefuseForm(r) \/ Decide(r) \/ RefreshCard(r) \/ ResumeRun(r)
      BY <3>3 DEF AcceptForm, RefuseForm, Decide, RefreshCard, ResumeRun
    <3>4. CASE StartResume(r) \/ ApplyDecision(r) \/ EndStream(r) \/ PublishArtifact(r)
      BY <3>4 DEF StartResume, ApplyDecision, EndStream, PublishArtifact
    <3>5. CASE \E asks \in {"approval", "form"} : Interrupt(r, asks)
      BY <3>5 DEF Interrupt
    <3>6. CASE SettleBeforeNext(r) \/ CreateCard(r) \/ ParkRun(r) \/ AttachArtifacts(r)
                 \/ CompleteRun(r)
      BY <3>6 DEF SettleBeforeNext, CreateCard, ParkRun, AttachArtifacts, CompleteRun
    <3>7. CASE SettleAtEnd(r) \/ SettleFailed(r) \/ SettleCancelled(r) \/ Abandon(r)
      BY <3>7 DEF SettleAtEnd, SettleFailed, SettleCancelled, Abandon
    <3>8. CASE DecisionNotAllowed(r) \/ AgentError(r) \/ Disconnect(r)
      BY <3>8 DEF DecisionNotAllowed, AgentError, Disconnect, FailRun
    <3>9. QED
      BY <3>1, <3>2, <3>3, <3>4, <3>5, <3>6, <3>7, <3>8 DEF Step, Serve, Fault
  <2>3. QED
    BY <2>1, <2>2 DEF SaveReply
<1>5. QED
  BY <1>3, <1>4

\* An outcome is written to a decided card only, and no decision is taken back.
LEMMA StatusStep ==
  ASSUME TypeOK, DecisionsNameACard, SettlersApprove, CardsAppearLate, AcceptedCards,
         StatusFollowsDecision, NEW r \in Requests, Step(r)
  PROVE  StatusFollowsDecision'
<1>0. card \in [Requests -> Cards]
  BY DEF TypeOK
<1>1. SUFFICES ASSUME NEW c \in Requests, card'[c].execution # "not_started"
               PROVE  Decided(c)'
  BY DEF StatusFollowsDecision
<1>2. CASE card[c].execution # "not_started"
  BY <1>2, CardRowStays DEF StatusFollowsDecision
<1>3. CASE card[c].execution = "not_started"
  <2>1. CASE CreateCard(r)
    BY <1>0, <1>1, <1>3, <2>1 DEF CreateCard, Cards
  <2>2. CASE Decide(r)
    <3>1. req[r].kind \in {"approve", "reject"} /\ req[r].card \in Requests
      BY <2>2 DEF Decide, Go, DecisionsNameACard
    <3>2. c = req[r].card
      BY <1>0, <1>1, <1>3, <2>2 DEF Decide, Cards
    <3>3. card'[c].decision = req[r].kind
      BY <1>0, <2>2, <3>2 DEF Decide, Cards
    <3>4. QED
      BY <3>1, <3>3 DEF Decided
  <2>3. CASE SettleBeforeNext(r) \/ SettleAtEnd(r) \/ SettleFailed(r) \/ SettleCancelled(r)
    <3>1. c = req[r].card
      BY <1>0, <1>1, <1>3, <2>3 DEF SettleBeforeNext, SettleAtEnd, SettleFailed,
         SettleCancelled, SetExecution, Cards
    <3>2. Approving(r) /\ phase[r] \in Accepted \ {"checked"}
      BY <2>3 DEF SettleBeforeNext, SettleAtEnd, SettleFailed, SettleCancelled, Go,
         SettlersApprove, Settling, Accepted, TryPhases
    <3>3. Decided(c)
      BY <3>1, <3>2 DEF AcceptedCards, Approving
    <3>4. QED
      BY <3>3, CardRowStays
  <2>4. QED
    BY <1>1, <1>3, <2>1, <2>2, <2>3, CardsKept
<1>4. QED
  BY <1>2, <1>3

\* A call is made by an approving request, whose card it decided before.
LEMMA CalledStep ==
  ASSUME TypeOK, DecisionsNameACard, CardsAppearLate, AcceptedCards, TracesOfStreams,
         ToolRunsOnlyAfterDecision, NEW r \in Requests, Step(r)
  PROVE  ToolRunsOnlyAfterDecision'
<1> DEFINE Sound(q) == /\ Approving(q)
                       /\ Decided(req[q].card)
                       /\ card[req[q].card].run = req[q].run
<1>1. ASSUME NEW q \in Requests, Sound(q), Settled(q)
      PROVE  Sound(q)'
  <2>1. req[q].card \in Requests
    BY <1>1 DEF Approving, DecisionsNameACard
  <2>2. /\ card'[req[q].card].decision \in {"approve", "reject"}
        /\ card'[req[q].card].run = card[req[q].card].run
    BY <1>1, <2>1, CardRowStays DEF Decided
  <2>3. QED
    BY <1>1, <2>2, LocalsStay DEF Approving, Decided
<1>2. \A x \in executed : Sound(x[1])'
  <2>1. ASSUME NEW x \in executed
        PROVE  x[1] \in Requests /\ Settled(x[1])
    BY DEF TypeOK, TracesOfStreams, Streamed, TryPhases, Settled
  <2>2. QED
    BY <1>1, <2>1 DEF ToolRunsOnlyAfterDecision
<1>3. CASE ApplyDecision(r)
  <2>1. Approving(r) => Sound(r)
    BY <1>3 DEF ApplyDecision, Go, Approving, AcceptedCards, Accepted, TryPhases
  <2>2. Settled(r)
    BY <1>3 DEF ApplyDecision, Go, Settled
  <2>3. \A x \in executed' \ executed : x[1] = r /\ Approving(r)
    BY <1>3 DEF ApplyDecision
  <2>4. QED
    BY <1>1, <1>2, <2>1, <2>2, <2>3 DEF ToolRunsOnlyAfterDecision
<1>4. CASE ~ApplyDecision(r)
  <2>1. UNCHANGED executed
    BY <1>4 DEF Step, Serve, Fault, Arrive, Receive, SaveUserMessage, CreateRun, StartReply,
       FindAwaitingRun, NothingAwaiting, CheckCard, RefuseCard, AcceptForm, RefuseForm,
       Decide, RefreshCard, ResumeRun, StartResume, DecisionNotAllowed, PublishArtifact,
       EndStream, Interrupt, SettleBeforeNext, CreateCard, ParkRun, SaveReply,
       AttachArtifacts, CompleteRun, SettleAtEnd, SettleFailed, SettleCancelled,
       AgentError, Disconnect, Abandon, FailRun, graph
  <2>2. QED
    BY <1>2, <2>1 DEF ToolRunsOnlyAfterDecision
<1>5. QED
  BY <1>3, <1>4

\* The witnesses of the reply of a run: they keep their run, and replies are
\* never deleted.
LEMMA RepliesStay ==
  ASSUME TypeOK, TracesOfStreams, NEW r \in Requests, Step(r), NEW q \in Requests,
         \E m \in messages : m[1] = "assistant" /\ req[m[2]].run = q
  PROVE  \E m \in messages' : m[1] = "assistant" /\ req'[m[2]].run = q
<1>1. PICK m \in messages : m[1] = "assistant" /\ req[m[2]].run = q
  OBVIOUS
<1>2. m[2] \in Requests /\ Settled(m[2])
  BY <1>1 DEF TypeOK, TracesOfStreams, Streamed, TryPhases, Settled
<1>3. req'[m[2]].run = q
  BY <1>1, <1>2, LocalsStay
<1>4. m \in messages'
  BY MessagesStay
<1>5. QED
  BY <1>1, <1>3, <1>4

\* complete() follows the reply of the same request.
LEMMA CompletedStep ==
  ASSUME TypeOK, TracesOfStreams, ReplySaved, CompletedRunHasReply,
         NEW r \in Requests, Step(r)
  PROVE  CompletedRunHasReply'
<1>0. run \in [Requests -> RunStatuses]
  BY DEF TypeOK
<1>1. SUFFICES ASSUME NEW q \in Requests, run'[q] = "completed"
               PROVE  \E m \in messages' : m[1] = "assistant" /\ req'[m[2]].run = q
  BY DEF CompletedRunHasReply
<1>2. CASE run[q] = "completed"
  BY <1>2, RepliesStay DEF CompletedRunHasReply
<1>3. CASE run[q] # "completed"
  <2>1. CompleteRun(r)
    <3>1. CASE CreateRun(r)
      BY <1>0, <1>1, <1>3, <3>1 DEF CreateRun
    <3>2. CASE ResumeRun(r) \/ ParkRun(r)
      BY <1>0, <1>1, <1>3, <3>2 DEF ResumeRun, ParkRun, SetRun
    <3>3. CASE DecisionNotAllowed(r) \/ AgentError(r) \/ Disconnect(r)
      BY <1>0, <1>1, <1>3, <3>3 DEF DecisionNotAllowed, AgentError, Disconnect, FailRun, SetRun
    <3>4. CASE ~AssignsRun(r)
      BY <1>1, <1>3, <3>4, RunsKept
    <3>5. QED
      BY <3>1, <3>2, <3>3, <3>4 DEF AssignsRun
  <2>2. req[r].run = q
    BY <1>0, <1>1, <1>3, <2>1 DEF CompleteRun, SetRun
  <2>3. <<"assistant", r>> \in messages
    BY <2>1 DEF CompleteRun, Go, ReplySaved
  <2>4. QED
    BY <2>2, <2>3, RepliesStay
<1>4. QED
  BY <1>2, <1>3

\* attach_to_message follows the reply and takes only artifacts of that run.
LEMMA AttachedStep ==
  ASSUME TypeOK, TracesOfStreams, ReplySaved, AttachedArtifactHasReply,
         NEW r \in Requests, Step(r)
  PROVE  AttachedArtifactHasReply'
<1>0. artifact \in [Requests -> {"none", "loose", "attached"}]
  BY DEF TypeOK
<1>1. SUFFICES ASSUME NEW a \in Requests, artifact'[a] = "attached"
               PROVE  \E m \in messages' : m[1] = "assistant" /\ req'[m[2]].run = req'[a].run
  BY DEF AttachedArtifactHasReply
<1>2. artifact[a] # "none" /\ (artifact[a] # "attached" => AttachArtifacts(r))
  <2>1. CASE PublishArtifact(r)
    BY <1>0, <1>1, <2>1 DEF PublishArtifact
  <2>2. CASE AttachArtifacts(r)
    BY <1>0, <1>1, <2>2 DEF AttachArtifacts
  <2>3. CASE ~(PublishArtifact(r) \/ AttachArtifacts(r))
    <3>1. UNCHANGED artifact
      BY <2>3 DEF Step, Serve, Fault, Arrive, Receive, SaveUserMessage, CreateRun, StartReply,
         FindAwaitingRun, NothingAwaiting, CheckCard, RefuseCard, AcceptForm, RefuseForm,
         Decide, RefreshCard, ResumeRun, StartResume, ApplyDecision, DecisionNotAllowed,
         EndStream, Interrupt, SettleBeforeNext, CreateCard, ParkRun, SaveReply,
         CompleteRun, SettleAtEnd, SettleFailed, SettleCancelled, AgentError, Disconnect,
         Abandon, FailRun, database
    <3>2. QED
      BY <1>1, <3>1
  <2>4. QED
    BY <2>1, <2>2, <2>3
<1>3. req'[a].run = req[a].run
  <2>1. Settled(a)
    BY <1>2 DEF TracesOfStreams, Streamed, TryPhases, Settled
  <2>2. QED
    BY <2>1, LocalsStay
<1>4. \E m \in messages : m[1] = "assistant" /\ req[m[2]].run = req[a].run
  <2>1. CASE artifact[a] = "attached"
    BY <2>1 DEF AttachedArtifactHasReply
  <2>2. CASE AttachArtifacts(r) /\ artifact[a] # "attached"
    <3>1. <<"assistant", r>> \in messages
      BY <2>2 DEF AttachArtifacts, Go, ReplySaved
    <3>2. req[a].run = req[r].run
      BY <1>1, <2>2 DEF AttachArtifacts
    <3>3. QED
      BY <3>1, <3>2
  <2>3. QED
    BY <1>2, <2>1, <2>2
<1>5. QED
  <2>1. ASSUME NEW m \in messages, m[1] = "assistant", req[m[2]].run = req[a].run
        PROVE  m \in messages' /\ req'[m[2]].run = req[a].run
    <3>1. m[2] \in Requests /\ Settled(m[2])
      BY <2>1 DEF TypeOK, TracesOfStreams, Streamed, TryPhases, Settled
    <3>2. QED
      BY <2>1, <3>1, LocalsStay, MessagesStay
  <2>2. QED
    BY <1>3, <1>4, <2>1

\* A request leaves OwesRun only by writing its run, or by being lost.
LEMMA RunningRunStep ==
  ASSUME TypeOK, RunningRunIsOwed, NEW r \in Requests, Step(r)
  PROVE  RunningRunIsOwed'
<1> DEFINE Owe(w, q) == req[w].run = q /\ phase[w] \in OwesRun \cup {"lost"}
<1>0. /\ run \in [Requests -> RunStatuses]
      /\ phase \in [Requests -> Phases]
      /\ req \in [Requests -> Locals]
  BY DEF TypeOK
<1>1. SUFFICES ASSUME NEW q \in Requests, run'[q] = "running"
               PROVE  \E w \in Requests : Owe(w, q)'
  BY DEF RunningRunIsOwed
<1>2. CASE run[q] # "running"
  <2>1. CASE CreateRun(r)
    <3>1. q = r /\ req'[r].run = r /\ phase'[r] = "opened"
      BY <1>0, <1>1, <1>2, <2>1 DEF CreateRun, Go, Locals
    <3>2. QED
      BY <3>1 DEF OwesRun
  <2>2. CASE ResumeRun(r)
    <3>1. q = req[r].run /\ req' = req /\ phase'[r] = "resumed"
      BY <1>0, <1>1, <1>2, <2>2 DEF ResumeRun, SetRun, Go
    <3>2. QED
      BY <3>1 DEF OwesRun
  <2>3. CASE ParkRun(r) \/ CompleteRun(r)
    BY <1>0, <1>1, <1>2, <2>3 DEF ParkRun, CompleteRun, SetRun
  <2>4. CASE DecisionNotAllowed(r) \/ AgentError(r) \/ Disconnect(r)
    BY <1>0, <1>1, <1>2, <2>4 DEF DecisionNotAllowed, AgentError, Disconnect, FailRun, SetRun
  <2>5. QED
    BY <1>1, <1>2, <2>1, <2>2, <2>3, <2>4, RunsKept DEF AssignsRun
<1>3. CASE run[q] = "running"
  <2>1. PICK w \in Requests : Owe(w, q)
    BY <1>3 DEF RunningRunIsOwed
  <2>2. Settled(w)
    BY <2>1 DEF Settled, OwesRun
  <2>3. req'[w].run = q
    BY <2>1, <2>2, LocalsStay
  <2>4. CASE w # r
    <3>1. PICK to \in Phases : phase' = [phase EXCEPT ![r] = to]
      BY PhaseStep
    <3>2. QED
      BY <1>0, <2>1, <2>3, <2>4, <3>1
  <2>5. CASE w = r
    <3>1. phase'[r] \in OwesRun \cup {"lost"}
      <4> USE <1>0, <1>1, <2>1, <2>5 DEF Go, OwesRun
      <4>1. CASE Arrive(r) \/ SaveUserMessage(r) \/ CreateRun(r) \/ StartReply(r)
        BY <4>1 DEF Arrive, Receive, SaveUserMessage, CreateRun, StartReply
      <4>2. CASE FindAwaitingRun(r) \/ NothingAwaiting(r) \/ CheckCard(r) \/ RefuseCard(r)
        BY <4>2 DEF FindAwaitingRun, NothingAwaiting, CheckCard, RefuseCard
      <4>3. CASE AcceptForm(r) \/ RefuseForm(r) \/ Decide(r) \/ RefreshCard(r) \/ ResumeRun(r)
        BY <4>3 DEF AcceptForm, RefuseForm, Decide, RefreshCard, ResumeRun
      <4>4. CASE StartResume(r) \/ ApplyDecision(r) \/ EndStream(r) \/ PublishArtifact(r)
        BY <4>4 DEF StartResume, ApplyDecision, EndStream, PublishArtifact
      <4>5. CASE \E asks \in {"approval", "form"} : Interrupt(r, asks)
        BY <4>5 DEF Interrupt
      <4>6. CASE SettleBeforeNext(r) \/ CreateCard(r) \/ SaveReply(r) \/ AttachArtifacts(r)
        BY <4>6 DEF SettleBeforeNext, CreateCard, SaveReply, AttachArtifacts
      <4>7. CASE SettleAtEnd(r) \/ SettleFailed(r) \/ SettleCancelled(r) \/ Abandon(r)
        BY <4>7 DEF SettleAtEnd, SettleFailed, SettleCancelled, Abandon
      <4>8. CASE ParkRun(r) \/ CompleteRun(r)
        BY <4>8 DEF ParkRun, CompleteRun, SetRun
      <4>9. CASE DecisionNotAllowed(r) \/ AgentError(r) \/ Disconnect(r)
        BY <4>9 DEF DecisionNotAllowed, AgentError, Disconnect, FailRun, SetRun
      <4>10. QED
        BY <4>1, <4>2, <4>3, <4>4, <4>5, <4>6, <4>7, <4>8, <4>9 DEF Step, Serve, Fault
    <3>2. QED
      BY <2>3, <2>5, <3>1
  <2>6. QED
    BY <2>4, <2>5
<1>4. QED
  BY <1>2, <1>3

\* A card becomes running only by the decision of a request that then owes it,
\* and that request stops owing only by writing another status.
LEMMA RunningCardStep ==
  ASSUME TypeOK, DecisionsNameACard, SettlersApprove, RunningCardIsOwed,
         NEW r \in Requests, Step(r)
  PROVE  RunningCardIsOwed'
<1>0. /\ card \in [Requests -> Cards]
      /\ phase \in [Requests -> Phases]
      /\ req \in [Requests -> Locals]
  BY DEF TypeOK
<1>1. SUFFICES ASSUME NEW c \in Requests, card'[c].execution = "running"
               PROVE  \E w \in Requests : Owes(w, c)'
  BY DEF RunningCardIsOwed
<1>2. CASE card[c].execution # "running"
  <2>1. Decide(r)
    <3>1. CASE CreateCard(r)
      BY <1>0, <1>1, <1>2, <3>1 DEF CreateCard, Cards
    <3>2. CASE SettleBeforeNext(r) \/ SettleAtEnd(r) \/ SettleFailed(r) \/ SettleCancelled(r)
      BY <1>0, <1>1, <1>2, <3>2 DEF SettleBeforeNext, SettleAtEnd, SettleFailed,
         SettleCancelled, SetExecution, Flush, Cards
    <3>3. QED
      BY <1>1, <1>2, <3>1, <3>2, CardsKept
  <2>2. c = req[r].card /\ Approving(r)
    BY <1>0, <1>1, <1>2, <2>1 DEF Decide, Flush, Cards
  <2>3. phase'[r] = "decided" /\ req' = req
    BY <1>0, <2>1 DEF Decide, Go
  <2>4. QED
    BY <2>2, <2>3 DEF Owes, Approving
<1>3. CASE card[c].execution = "running"
  <2>1. PICK w \in Requests : Owes(w, c)
    BY <1>3 DEF RunningCardIsOwed
  <2>2. Settled(w)
    BY <2>1 DEF Owes, Settled, OwesCard
  <2>3. req'[w].card = c /\ Approving(w)'
    BY <2>1, <2>2, LocalsStay DEF Owes, Approving
  <2>4. CASE w # r
    <3>1. PICK to \in Phases : phase' = [phase EXCEPT ![r] = to]
      BY PhaseStep
    <3>2. phase'[w] = phase[w] /\ req'[w] = req[w]
      BY <1>0, <2>4, <3>1, LocalsStep
    <3>3. QED
      BY <2>1, <2>3, <3>2 DEF Owes
  <2>5. CASE w = r
    <3>1. \/ phase'[r] \in {"decided", "lost"}
          \/ phase'[r] \in OwesCard /\ req'[r].seen = "running"
      <4> USE <1>0, <2>1, <2>5 DEF Owes, OwesCard, Go
      <4>1. CASE Arrive(r) \/ SaveUserMessage(r) \/ CreateRun(r) \/ StartReply(r)
        BY <4>1 DEF Arrive, Receive, SaveUserMessage, CreateRun, StartReply
      <4>2. CASE FindAwaitingRun(r) \/ NothingAwaiting(r) \/ CheckCard(r) \/ RefuseCard(r)
        BY <4>2 DEF FindAwaitingRun, NothingAwaiting, CheckCard, RefuseCard
      <4>3. CASE AcceptForm(r) \/ RefuseForm(r) \/ Decide(r) \/ ResumeRun(r)
        BY <4>3 DEF AcceptForm, RefuseForm, Decide, ResumeRun
      <4>4. CASE RefreshCard(r)
        <5>1. card[c].execution = "running" /\ req[r].card = c
          BY <1>3
        <5>2. req'[r].seen = "running" /\ phase'[r] = "ready"
          BY <4>4, <5>1 DEF RefreshCard, Locals
        <5>3. QED
          BY <5>2
      <4>5. CASE StartResume(r)
        BY <4>5 DEF StartResume, Locals
      <4>6. CASE ApplyDecision(r) \/ EndStream(r) \/ PublishArtifact(r)
        BY <4>6 DEF ApplyDecision, EndStream, PublishArtifact
      <4>7. CASE \E asks \in {"approval", "form"} : Interrupt(r, asks)
        BY <4>7 DEF Interrupt, Locals
      <4>8. CASE CreateCard(r) \/ ParkRun(r) \/ SaveReply(r) \/ AttachArtifacts(r)
        BY <4>8 DEF CreateCard, ParkRun, SaveReply, AttachArtifacts
      <4>9. CASE CompleteRun(r) \/ DecisionNotAllowed(r) \/ AgentError(r) \/ Disconnect(r)
                   \/ Abandon(r)
        BY <4>9 DEF CompleteRun, DecisionNotAllowed, AgentError, Disconnect, FailRun, Abandon,
           TryPhases
      <4>10. ~(SettleBeforeNext(r) \/ SettleAtEnd(r) \/ SettleFailed(r) \/ SettleCancelled(r))
        BY <1>1 DEF SettleBeforeNext, SettleAtEnd, SettleFailed, SettleCancelled,
           SetExecution, Flush, Cards
      <4>11. QED
        BY <4>1, <4>2, <4>3, <4>4, <4>5, <4>6, <4>7, <4>8, <4>9, <4>10
           DEF Step, Serve, Fault
    <3>2. QED
      BY <2>3, <2>5, <3>1 DEF Owes
  <2>6. QED
    BY <2>4, <2>5
<1>4. QED
  BY <1>2, <1>3
-----------------------------------------------------------------------------
\* Before the first request nothing is stored and nothing is owed.
LEMMA InitInvariant ==
  ASSUME Init
  PROVE  IInv
<1>1. TypeOK
  <2>1. /\ run \in [Requests -> RunStatuses]
        /\ phase \in [Requests -> Phases]
        /\ artifact \in [Requests -> {"none", "loose", "attached"}]
    BY DEF Init, RunStatuses, Phases
  <2>2. card \in [Requests -> Cards]
    BY DEF Init, Cards, Decisions, Executions
  <2>3. req \in [Requests -> Locals]
    BY DEF Init, Locals, Kinds, Executions, Checkpoints
  <2>4. /\ runOrder \in Seq(Requests) /\ cardOrder \in Seq(Requests)
        /\ checkpoint \in Checkpoints
        /\ messages = {} /\ executed = {}
    BY DEF Init, Checkpoints
  <2>5. QED
    BY <2>1, <2>2, <2>3, <2>4 DEF TypeOK
<1>2. DecisionsNameACard /\ SettlersApprove /\ CardsAppearLate /\ AcceptedCards
  BY DEF Init, DecisionsNameACard, SettlersApprove, Settling, CardsAppearLate, AcceptedCards
<1>3. TracesOfStreams /\ ReplySaved
  BY DEF Init, TracesOfStreams, ReplySaved
<1>4. RunningCardIsOwed /\ RunningRunIsOwed
  BY DEF Init, RunningCardIsOwed, RunningRunIsOwed
<1>5. /\ StatusFollowsDecision /\ ToolRunsOnlyAfterDecision
      /\ CompletedRunHasReply /\ AttachedArtifactHasReply
  BY DEF Init, StatusFollowsDecision, ToolRunsOnlyAfterDecision, CompletedRunHasReply,
     AttachedArtifactHasReply
<1>6. QED
  BY <1>1, <1>2, <1>3, <1>4, <1>5 DEF IInv

\* Every step of every request, faults included, preserves the invariant.
LEMMA StepInvariant ==
  ASSUME IInv, [Next]_vars
  PROVE  IInv'
<1>1. CASE \E r \in Requests : Step(r)
  <2>1. PICK r \in Requests : Step(r)
    BY <1>1
  <2>2. TypeOK' /\ DecisionsNameACard'
    BY <2>1, TypeStep, NameStep DEF IInv
  <2>3. SettlersApprove' /\ CardsAppearLate' /\ AcceptedCards'
    BY <2>1, SettlersStep, CardsAppearStep, AcceptedStep DEF IInv
  <2>4. TracesOfStreams' /\ ReplySaved'
    BY <2>1, TracesStep, ReplySavedStep DEF IInv
  <2>5. RunningCardIsOwed' /\ RunningRunIsOwed'
    BY <2>1, RunningCardStep, RunningRunStep DEF IInv
  <2>6. StatusFollowsDecision' /\ ToolRunsOnlyAfterDecision'
    BY <2>1, StatusStep, CalledStep DEF IInv
  <2>7. CompletedRunHasReply' /\ AttachedArtifactHasReply'
    BY <2>1, CompletedStep, AttachedStep DEF IInv
  <2>8. QED
    BY <2>2, <2>3, <2>4, <2>5, <2>6, <2>7 DEF IInv
<1>2. CASE UNCHANGED vars
  BY <1>2 DEF vars, IInv, TypeOK, DecisionsNameACard, SettlersApprove, Approving,
     CardsAppearLate, AcceptedCards, Decided, TracesOfStreams, ReplySaved,
     RunningCardIsOwed, Owes, RunningRunIsOwed, StatusFollowsDecision,
     ToolRunsOnlyAfterDecision, CompletedRunHasReply, AttachedArtifactHasReply
<1>3. QED
  BY <1>1, <1>2 DEF Next, AllServed, Step

\* The inductive invariant holds in every reachable state, for every set of requests,
\* every MaxActive and every subset of the faults.
THEOREM Invariance == Spec => []IInv
<1>1. Init => IInv
  BY InitInvariant
<1>2. IInv /\ [Next]_vars => IInv'
  BY StepInvariant
<1>3. QED
  BY <1>1, <1>2, PTL DEF Spec

\* The state is well-typed, in particular no status is ever misspelt.
THEOREM TypeCorrect == Spec => []TypeOK
<1>1. IInv => TypeOK
  BY DEF IInv
<1>2. QED
  BY <1>1, Invariance, PTL

\* An execution status is recorded only for a card the user decided.
THEOREM StatusFollows == Spec => []StatusFollowsDecision
<1>1. IInv => StatusFollowsDecision
  BY DEF IInv
<1>2. QED
  BY <1>1, Invariance, PTL

\* A protected tool call is made only by a request that approved a card of the run
\* it resumed, however many requests interleave and whichever of them die.
THEOREM ToolNeedsDecision == Spec => []ToolRunsOnlyAfterDecision
<1>1. IInv => ToolRunsOnlyAfterDecision
  BY DEF IInv
<1>2. QED
  BY <1>1, Invariance, PTL

\* A running run and a running card have a request that owes them an outcome.
THEOREM NothingOrphaned == Spec => []NoOrphanedWork
<1>1. IInv => NoOrphanedWork
  <2>1. ASSUME IInv, NEW c \in Requests, NEW r \in Requests, Owes(r, c)
        PROVE  req[r].card = c /\ Approving(r) /\ phase[r] \in OwesCard \cup {"lost"}
    BY <2>1 DEF Owes, OwesCard
  <2>2. QED
    BY <2>1 DEF IInv, NoOrphanedWork, RunningCardIsOwed, RunningRunIsOwed
<1>2. QED
  BY <1>1, Invariance, PTL

\* A completed run has an assistant message saved by a request of that run.
THEOREM CompletedReplied == Spec => []CompletedRunHasReply
<1>1. IInv => CompletedRunHasReply
  BY DEF IInv
<1>2. QED
  BY <1>1, Invariance, PTL

\* An attached artifact belongs to a run that has a reply.
THEOREM AttachedReplied == Spec => []AttachedArtifactHasReply
<1>1. IInv => AttachedArtifactHasReply
  BY DEF IInv
<1>2. QED
  BY <1>1, Invariance, PTL
=============================================================================
