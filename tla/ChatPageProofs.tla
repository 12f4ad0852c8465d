--------------------------- MODULE ChatPageProofs ---------------------------
(***************************************************************************)
(* Proofs about the service driven by one page, for any set of requests:   *)
(* the page's type, and, when the conversation is not selected during a    *)
(* request, nothing is sent before the pending card is restored, and only  *)
(* the agent fails, its invariants and the refinement of ApprovalCards.    *)
(* Then one request works at a time, and the invariant below says what it  *)
(* holds at every await.                                                   *)
(***************************************************************************)
EXTENDS ChatPage, ToolApprovalProofs, Lemmas

\* What the refinement assumes of the user and of the faults: the code enforces neither of
\* the first two.
OnePage == ~ReloadWhileLoading /\ ~SendUnrestored /\ Faults \subseteq {"agent_error"}

PageTyped ==
    /\ page \in [card : Requests \cup {None}, form : BOOLEAN,
                 loading : Requests \cup {None}, restored : BOOLEAN]
    /\ restore \in [Restores -> [at : {"none", "asked", "answered"},
                                 card : Requests \cup {None}]]

\* The page waits for every request in progress, so there is at most one.
Resting(r) == phase[r] \in {"idle", "done", "lost"}
Sequential == \A r \in Requests : Resting(r) \/ page.loading = r

\* The page shows a card only between requests, never next to a form, and undecided.
ShownIsPending ==
    /\ page.card # None =>
           page.loading = None /\ ~page.form /\ card[page.card].decision = "pending"
    /\ page.loading # None => ~page.form

\* While the pending card is being restored, or could not be, no request is in progress and
\* no form is shown; so what the service answered is still what it would answer now.
RestoreIsQuiet == ~RestoreDone => page.loading = None /\ ~page.form
AnswerIsCurrent == \A x \in Restores : restore[x].at = "answered" => restore[x].card = RestoredCard

\* An undecided card is what the thread waits for, its run is the newest that awaits a
\* decision, and the card is shown or not restored yet, or about to be decided, or about to
\* be shown.
Chooses(r) == req[r].kind \in {"approve", "reject"}
Approval(c) == [kind |-> "approval", of |-> c]
IsShown(c) ==
    /\ page.loading = None /\ (page.restored => page.card = c)
    /\ LatestAwaitingRun(card[c].run)
IsChosen(c) ==
    \E r \in Requests : /\ page.loading = r /\ Chooses(r) /\ req[r].card = c
                        /\ phase[r] \in {"received", "found", "checked"}
                        /\ LatestAwaitingRun(card[c].run)
IsIssued(c) == page.loading = c /\ phase[c] = "carded"
PendingIsHeld ==
    \A c \in Requests : card[c].decision = "pending" =>
        checkpoint = Approval(c) /\ (IsShown(c) \/ IsChosen(c) \/ IsIssued(c))

\* Until it is parked, an interrupt is what the thread waits for, and its card undecided.
HoldsInterrupt(r) ==
    /\ phase[r] \in {"interrupted", "settled", "carded"} =>
           checkpoint = [kind |-> req[r].asks, of |-> r]
    /\ phase[r] = "carded" => card[r].run = req[r].run /\ card[r].decision = "pending"

\* A decision finds its card undecided, its run waiting, and the thread at the card's own
\* interrupt, whose tool nobody has called.
Undelivered == {"decided", "ready", "resumed", "answering"}
HoldsChoice(r) ==
    Chooses(r) =>
        /\ phase[r] \in {"received", "found", "checked"} =>
               card[req[r].card].decision = "pending"
        /\ phase[r] = "found" => card[req[r].card].run = req[r].run
        /\ phase[r] = "checked" => req[r].seen = card[req[r].card].execution
        /\ phase[r] \in Undelivered \ {"answering"} => checkpoint = Approval(req[r].card)
        /\ phase[r] = "answering" => req[r].view = Approval(req[r].card)
        /\ phase[r] \in Undelivered => \A x \in executed : x[2] # req[r].card

\* From its decision on, an approval finds its card running; after the delivery, called.
Delivered == {"streaming", "interrupted", "finished", "replied", "attached", "completed"}
Unsettled == Undelivered \cup Delivered \cup {"failing", "cancelling"}
RunsApproval(r) ==
    Approving(r) =>
        /\ phase[r] \in Unsettled => card[req[r].card].execution = "running"
        /\ phase[r] \in Unsettled \ {"decided"} => req[r].seen = "running"
        /\ phase[r] \in Delivered => \E x \in executed : x[2] = req[r].card

CalledIsDecided == \A x \in executed : Decided(x[2])

\* Every card is in the list that a reload reads.
CardsListed ==
    \A c \in Requests : card[c].decision # "absent" =>
        \E i \in DOMAIN cardOrder : cardOrder[i] = c

\* No run after the one a request works on awaits a decision.
Working == {"opened", "found", "checked", "decided", "ready", "resumed"} \cup TryPhases
NoneAwaitsAfter(q) ==
    \E i \in DOMAIN runOrder :
        /\ runOrder[i] = q
        /\ \A j \in DOMAIN runOrder :
               j > i => runOrder[j] # q /\ run[runOrder[j]] # "awaiting_confirmation"
WorksOnNewest(r) == phase[r] \in Working => NoneAwaitsAfter(req[r].run)

\* A run at work says so, and what its requests published is attached before it completes.
WorksOnRunning(r) ==
    /\ phase[r] \in OwesRun => run[req[r].run] = "running"
    /\ phase[r] = "attached" =>
           \A a \in Requests : artifact[a] = "loose" => req[a].run # req[r].run

\* What the request in progress may rely on.
Relies(r) ==
    /\ HoldsInterrupt(r) /\ HoldsChoice(r) /\ RunsApproval(r)
    /\ WorksOnNewest(r) /\ WorksOnRunning(r)

OneInv ==
    /\ Sequential /\ ShownIsPending /\ RestoreIsQuiet /\ AnswerIsCurrent
    /\ PendingIsHeld /\ (\A r \in Requests : Relies(r))
    /\ CalledIsDecided /\ ToolCalledAtMostOnce /\ CardsListed
    /\ CompletedRunLeavesNoLooseArtifact
-----------------------------------------------------------------------------
(* What a step of the request in progress does. *)

Work(r) == Serve(r) \/ AgentError(r)

\* With one page, nothing else happens to a request.
LEMMA WorkIsAll ==
  ASSUME OnePage, NEW r \in Requests, Serve(r) \/ Fault(r)
  PROVE  Work(r)
BY DEF OnePage, Fault, Disconnect, Abandon, Work

\* Only a request in progress works.
LEMMA WorkerIsBusy ==
  ASSUME NEW r \in Requests, Work(r)
  PROVE  ~Resting(r)
<1> USE DEF Resting, Go
<1>1. CASE SaveUserMessage(r) \/ CreateRun(r) \/ StartReply(r)
  BY <1>1 DEF SaveUserMessage, CreateRun, StartReply
<1>2. CASE FindAwaitingRun(r) \/ NothingAwaiting(r)
  BY <1>2 DEF FindAwaitingRun, NothingAwaiting
<1>3. CASE CheckCard(r) \/ RefuseCard(r) \/ AcceptForm(r) \/ RefuseForm(r)
  BY <1>3 DEF CheckCard, RefuseCard, AcceptForm, RefuseForm
<1>4. CASE Decide(r) \/ RefreshCard(r) \/ ResumeRun(r) \/ StartResume(r)
  BY <1>4 DEF Decide, RefreshCard, ResumeRun, StartResume
<1>5. CASE ApplyDecision(r) \/ DecisionNotAllowed(r) \/ AgentError(r)
  BY <1>5 DEF ApplyDecision, DecisionNotAllowed, AgentError
<1>6. CASE PublishArtifact(r) \/ EndStream(r) \/ \E asks \in {"approval", "form"} : Interrupt(r, asks)
  BY <1>6 DEF PublishArtifact, EndStream, Interrupt
<1>7. CASE SettleBeforeNext(r) \/ SettleAtEnd(r) \/ SettleFailed(r) \/ SettleCancelled(r)
  BY <1>7 DEF SettleBeforeNext, SettleAtEnd, SettleFailed, SettleCancelled
<1>8. CASE CreateCard(r) \/ ParkRun(r)
  BY <1>8 DEF CreateCard, ParkRun
<1>9. CASE SaveReply(r) \/ AttachArtifacts(r) \/ CompleteRun(r)
  BY <1>9 DEF SaveReply, AttachArtifacts, CompleteRun
<1>10. QED
  BY <1>1, <1>2, <1>3, <1>4, <1>5, <1>6, <1>7, <1>8, <1>9 DEF Work, Serve

\* The page waits for the request that works, and all others rest.
LEMMA WorkerIsAlone ==
  ASSUME TypeOK, PageTyped, Sequential, NEW r \in Requests, Work(r)
  PROVE  /\ page.loading = r /\ page.loading # None /\ ~Resting(r)
         /\ \A q \in Requests \ {r} : Resting(q) /\ Resting(q)'
<1>1. page.loading = r /\ ~Resting(r)
  BY WorkerIsBusy DEF Sequential
<1>2. \E to \in Phases : phase' = [phase EXCEPT ![r] = to]
  BY PhaseStep DEF Work, Step, Fault
<1>3. ASSUME NEW q \in Requests \ {r}
      PROVE  Resting(q) /\ Resting(q)'
  <2>1. Resting(q)
    BY <1>1 DEF Sequential
  <2>2. phase'[q] = phase[q]
    BY <1>2 DEF TypeOK
  <2>3. QED
    BY <2>1, <2>2 DEF Resting
<1>4. QED
  BY <1>1, <1>3, NoneAssumption

\* An undecided card met by a request that works is its own: chosen or just issued.
LEMMA PendingIsOwn ==
  ASSUME TypeOK, PageTyped, Sequential, PendingIsHeld, NEW r \in Requests, Work(r),
         NEW c \in Requests, card[c].decision = "pending"
  PROVE  /\ checkpoint = Approval(c)
         /\ \/ /\ Chooses(r) /\ req[r].card = c /\ phase[r] \in {"received", "found", "checked"}
               /\ LatestAwaitingRun(card[c].run)
            \/ c = r /\ phase[r] = "carded"
<1>1. page.loading = r /\ page.loading # None
  BY WorkerIsAlone
<1>2. checkpoint = Approval(c) /\ (IsShown(c) \/ IsChosen(c) \/ IsIssued(c))
  BY DEF PendingIsHeld
<1>3. QED
  BY <1>1, <1>2 DEF IsShown, IsChosen, IsIssued

\* Only one run is the newest that awaits a decision.
LEMMA OneLatest ==
  ASSUME TypeOK, NEW p, NEW q, LatestAwaitingRun(p), LatestAwaitingRun(q)
  PROVE  p = q
<1>1. PICK i \in DOMAIN runOrder :
          /\ runOrder[i] = p /\ run[p] = "awaiting_confirmation"
          /\ \A j \in DOMAIN runOrder : j > i => run[runOrder[j]] # "awaiting_confirmation"
  BY DEF LatestAwaitingRun
<1>2. PICK k \in DOMAIN runOrder :
          /\ runOrder[k] = q /\ run[q] = "awaiting_confirmation"
          /\ \A j \in DOMAIN runOrder : j > k => run[runOrder[j]] # "awaiting_confirmation"
  BY DEF LatestAwaitingRun
<1>3. i \in Nat /\ k \in Nat
  BY DEF TypeOK
<1>4. QED
  BY <1>1, <1>2, <1>3

\* A request at rest relies on nothing.
LEMMA RestingRelies ==
  ASSUME NEW r \in Requests, Resting(r)'
  PROVE  Relies(r)'
BY DEF Resting, Relies, HoldsInterrupt, HoldsChoice, Undelivered, RunsApproval, Unsettled,
   Delivered, WorksOnNewest, Working, TryPhases, WorksOnRunning, OwesRun

\* The request in progress ends, or the page still waits for it.
LEMMA PageStep ==
  ASSUME TypeOK, PageTyped, Sequential, NEW r \in Requests, ServePage(r), Work(r)
  PROVE  /\ PageTyped'
         /\ Resting(r)' \/ page'.loading = r
         /\ UNCHANGED restore /\ page'.restored = page.restored
         /\ ParkRun(r) => /\ page'.loading = None
                          /\ IF req[r].asks = "approval"
                             THEN page'.card = r /\ page'.form = page.form
                             ELSE page'.card = None
         /\ ~ParkRun(r) => page'.card = page.card /\ page'.form = page.form
<1>1. page.loading = r /\ page.loading # None
  BY WorkerIsAlone
<1>2. CASE ShowInterrupt(r)
  <2>1. phase'[r] = "done"
    BY <1>2 DEF ShowInterrupt, ParkRun, Go, TypeOK
  <2>2. page' = IF req[r].asks = "approval" THEN [page EXCEPT !.card = r, !.loading = None]
                ELSE [page EXCEPT !.card = None, !.form = TRUE, !.loading = None]
    BY <1>1, <1>2 DEF ShowInterrupt
  <2>3. ParkRun(r) /\ UNCHANGED restore
    BY <1>2 DEF ShowInterrupt
  <2>4. QED
    BY <2>1, <2>2, <2>3 DEF PageTyped, Resting
<1>3. CASE ServeQuietly(r)
  <2>1. page' = IF phase'[r] \in {"done", "lost"} THEN [page EXCEPT !.loading = None] ELSE page
    BY <1>1, <1>3 DEF ServeQuietly
  <2>2. ~ParkRun(r) /\ UNCHANGED restore
    BY <1>3 DEF ServeQuietly
  <2>3. QED
    BY <1>1, <2>1, <2>2 DEF PageTyped, Resting
<1>4. QED
  BY <1>2, <1>3 DEF ServePage
-----------------------------------------------------------------------------
(* What the request in progress relies on, one conjunct after the other. *)

\* The phases in which a request has not delivered its decision yet.
Choosing == {"received", "found", "checked"} \cup Undelivered

\* Outside the steps that lead up to the delivery, no such phase is entered by a decision.
LEMMA ChoosingEntered ==
  ASSUME TypeOK, DecisionsNameACard, NEW r \in Requests, Work(r),
         ~(FindAwaitingRun(r) \/ CheckCard(r) \/ Decide(r) \/ RefreshCard(r)
             \/ ResumeRun(r) \/ StartResume(r))
  PROVE  phase'[r] \notin Choosing \/ ~Chooses(r)'
<1>0. phase \in [Requests -> Phases] /\ req \in [Requests -> Locals]
  BY DEF TypeOK
<1> USE <1>0 DEF Choosing, Undelivered, Go
<1>1. CASE SaveUserMessage(r) \/ CreateRun(r) \/ StartReply(r) \/ NothingAwaiting(r)
  BY <1>1 DEF SaveUserMessage, CreateRun, StartReply, NothingAwaiting
<1>2. CASE RefuseCard(r) \/ RefuseForm(r)
  BY <1>2 DEF RefuseCard, RefuseForm
<1>3. CASE AcceptForm(r)
  BY <1>3 DEF AcceptForm, Chooses
<1>4. CASE ApplyDecision(r) \/ DecisionNotAllowed(r) \/ AgentError(r)
  BY <1>4 DEF ApplyDecision, DecisionNotAllowed, AgentError, FailRun
<1>5. CASE PublishArtifact(r) \/ EndStream(r) \/ \E asks \in {"approval", "form"} : Interrupt(r, asks)
  BY <1>5 DEF PublishArtifact, EndStream, Interrupt
<1>6. CASE SettleBeforeNext(r) \/ SettleAtEnd(r) \/ SettleFailed(r) \/ SettleCancelled(r)
  BY <1>6 DEF SettleBeforeNext, SettleAtEnd, SettleFailed, SettleCancelled
<1>7. CASE CreateCard(r) \/ ParkRun(r)
  BY <1>7 DEF CreateCard, ParkRun
<1>8. CASE SaveReply(r) \/ AttachArtifacts(r) \/ CompleteRun(r)
  BY <1>8 DEF SaveReply, AttachArtifacts, CompleteRun
<1>9. QED
  BY <1>1, <1>2, <1>3, <1>4, <1>5, <1>6, <1>7, <1>8 DEF Work, Serve

\* What a request with a decision finds holds until it is delivered.
LEMMA ChoiceStep ==
  ASSUME IInv, PageTyped, OneInv, NEW r \in Requests, Work(r)
  PROVE  HoldsChoice(r)'
<1>0. /\ phase \in [Requests -> Phases] /\ req \in [Requests -> Locals]
      /\ card \in [Requests -> Cards] /\ TypeOK /\ DecisionsNameACard
  BY DEF IInv, TypeOK
<1>1. HoldsChoice(r) /\ PendingIsHeld /\ Sequential /\ CalledIsDecided
  BY DEF OneInv, Relies
<1>2. Chooses(r) => req[r].card \in Requests
  BY <1>0 DEF DecisionsNameACard, Chooses
<1> USE <1>0 DEF Go
<1>3. CASE FindAwaitingRun(r)
  <2>1. PICK q \in Requests : LatestAwaitingRun(q) /\ req' = [req EXCEPT ![r].run = q]
    BY <1>3 DEF FindAwaitingRun
  <2>2. phase[r] = "received" /\ phase'[r] = "found" /\ UNCHANGED card
    BY <1>3 DEF FindAwaitingRun, database
  <2>3. /\ req'[r].run = q /\ req'[r].card = req[r].card /\ req'[r].kind = req[r].kind
    BY <2>1 DEF Locals
  <2>4. ASSUME Chooses(r)
        PROVE  card[req[r].card].decision = "pending" /\ card[req[r].card].run = q
    <3>1. card[req[r].card].decision = "pending"
      BY <1>1, <2>2, <2>4 DEF HoldsChoice
    <3>2. LatestAwaitingRun(card[req[r].card].run)
      BY <1>1, <1>2, <2>2, <2>4, <3>1, PendingIsOwn
    <3>3. QED
      BY <2>1, <3>1, <3>2, OneLatest
  <2>5. QED
    BY <2>2, <2>3, <2>4 DEF HoldsChoice, Chooses, Undelivered
<1>4. CASE CheckCard(r)
  <2>1. phase[r] = "found" /\ phase'[r] = "checked" /\ UNCHANGED card /\ Chooses(r)
    BY <1>4 DEF CheckCard, database, Chooses
  <2>2. /\ req'[r].seen = card[req[r].card].execution
        /\ req'[r].card = req[r].card /\ req'[r].kind = req[r].kind
    BY <1>4 DEF CheckCard, Locals
  <2>3. card[req[r].card].decision = "pending"
    BY <1>1, <2>1 DEF HoldsChoice
  <2>4. QED
    BY <2>1, <2>2, <2>3 DEF HoldsChoice, Chooses, Undelivered
<1>5. CASE Decide(r)
  <2>1. /\ phase[r] = "checked" /\ phase'[r] = "decided"
        /\ UNCHANGED <<req, checkpoint, executed>>
    BY <1>5 DEF Decide, graph
  <2>2. Chooses(r)
    BY <2>1 DEF DecisionsNameACard, Chooses
  <2>3. card[req[r].card].decision = "pending"
    BY <1>1, <2>1, <2>2 DEF HoldsChoice
  <2>4. checkpoint = Approval(req[r].card)
    BY <1>1, <1>2, <2>2, <2>3, PendingIsOwn
  <2>5. \A x \in executed : x[2] # req[r].card
    BY <1>1, <2>3 DEF CalledIsDecided, Decided
  <2>6. QED
    BY <2>1, <2>4, <2>5 DEF HoldsChoice, Approval, Undelivered
<1>6. CASE RefreshCard(r)
  <2>1. phase[r] = "decided" /\ phase'[r] = "ready" /\ UNCHANGED <<checkpoint, executed>>
    BY <1>6 DEF RefreshCard, graph
  <2>2. req'[r].card = req[r].card /\ req'[r].kind = req[r].kind
    BY <1>6 DEF RefreshCard, Locals
  <2>3. QED
    BY <1>1, <2>1, <2>2 DEF HoldsChoice, Approval, Undelivered, Chooses
<1>7. CASE ResumeRun(r)
  <2>1. /\ phase[r] = "ready" /\ phase'[r] = "resumed"
        /\ UNCHANGED <<req, checkpoint, executed>>
    BY <1>7 DEF ResumeRun, graph
  <2>2. QED
    BY <1>1, <2>1 DEF HoldsChoice, Approval, Undelivered, Chooses
<1>8. CASE StartResume(r)
  <2>1. /\ phase[r] = "resumed" /\ UNCHANGED <<checkpoint, executed>>
        /\ req'[r].card = req[r].card /\ req'[r].kind = req[r].kind
        /\ req'[r].view = checkpoint
    BY <1>8 DEF StartResume, graph, Locals
  <2>2. phase'[r] \in {"finished", "streaming", "answering"}
    BY <1>8 DEF StartResume
  <2>3. QED
    BY <1>1, <2>1, <2>2 DEF HoldsChoice, Approval, Undelivered, Chooses
<1>9. CASE ~(FindAwaitingRun(r) \/ CheckCard(r) \/ Decide(r) \/ RefreshCard(r)
               \/ ResumeRun(r) \/ StartResume(r))
  BY <1>9, ChoosingEntered DEF HoldsChoice, Choosing, Undelivered
<1>10. QED
  BY <1>3, <1>4, <1>5, <1>6, <1>7, <1>8, <1>9

\* The actions that write to a card.
WritesCard(r) ==
    Decide(r) \/ CreateCard(r) \/ SettleBeforeNext(r) \/ SettleAtEnd(r) \/ SettleFailed(r)
        \/ SettleCancelled(r)

\* The other steps of an approval after its delivery keep its card and what it loaded.
LEMMA DeliveredStays ==
  ASSUME TypeOK, DecisionsNameACard, SettlersApprove, NEW r \in Requests, Work(r),
         Approving(r)', phase'[r] \in Unsettled,
         ~(Decide(r) \/ RefreshCard(r) \/ ResumeRun(r) \/ StartResume(r)
             \/ ApplyDecision(r) \/ DecisionNotAllowed(r))
  PROVE  /\ phase[r] \in Delivered /\ Approving(r) /\ UNCHANGED <<card, executed>>
         /\ req'[r].card = req[r].card /\ req'[r].seen = req[r].seen
<1>0. phase \in [Requests -> Phases] /\ req \in [Requests -> Locals]
  BY DEF TypeOK
<1> USE <1>0 DEF Unsettled, Delivered, Undelivered, Go, Approving
<1>1. CASE SaveUserMessage(r) \/ CreateRun(r) \/ StartReply(r) \/ NothingAwaiting(r)
  <2>1. CASE SaveUserMessage(r) \/ CreateRun(r) \/ NothingAwaiting(r)
    BY <2>1 DEF SaveUserMessage, CreateRun, NothingAwaiting
  <2>2. CASE StartReply(r)
    BY <2>2 DEF StartReply, DecisionsNameACard
  <2>3. QED
    BY <1>1, <2>1, <2>2
<1>2. CASE FindAwaitingRun(r) \/ CheckCard(r) \/ RefuseCard(r) \/ RefuseForm(r)
  BY <1>2 DEF FindAwaitingRun, CheckCard, RefuseCard, RefuseForm
<1>3. CASE AcceptForm(r)
  BY <1>3 DEF AcceptForm
<1>4. CASE AgentError(r)
  BY <1>4 DEF AgentError, FailRun, graph
<1>5. CASE PublishArtifact(r) \/ EndStream(r)
  BY <1>5 DEF PublishArtifact, EndStream, graph, database
<1>6. CASE \E asks \in {"approval", "form"} : Interrupt(r, asks)
  BY <1>6 DEF Interrupt, graph, database, Locals
<1>7. CASE SettleBeforeNext(r) \/ SettleAtEnd(r) \/ SettleFailed(r) \/ SettleCancelled(r)
  BY <1>7 DEF SettleBeforeNext, SettleAtEnd, SettleFailed, SettleCancelled
<1>8. CASE CreateCard(r) \/ ParkRun(r)
  BY <1>8 DEF CreateCard, ParkRun
<1>9. CASE SaveReply(r) \/ AttachArtifacts(r) \/ CompleteRun(r)
  BY <1>9 DEF SaveReply, AttachArtifacts, CompleteRun, graph
<1>10. QED
  BY <1>1, <1>2, <1>3, <1>4, <1>5, <1>6, <1>7, <1>8, <1>9 DEF Work, Serve

\* An approval finds its card running until it settles it, and called once it is delivered.
LEMMA ApprovalStep ==
  ASSUME IInv, PageTyped, OneInv, NEW r \in Requests, Work(r)
  PROVE  RunsApproval(r)'
<1>0. /\ phase \in [Requests -> Phases] /\ req \in [Requests -> Locals]
      /\ card \in [Requests -> Cards]
      /\ TypeOK /\ DecisionsNameACard /\ SettlersApprove
  BY DEF IInv, TypeOK
<1>1. HoldsChoice(r) /\ RunsApproval(r)
  BY DEF OneInv, Relies
<1>2. SUFFICES ASSUME Approving(r)', phase'[r] \in Unsettled
               PROVE  /\ card'[req'[r].card].execution = "running"
                      /\ phase'[r] # "decided" => req'[r].seen = "running"
                      /\ phase'[r] \in Delivered => \E x \in executed' : x[2] = req'[r].card
  BY DEF RunsApproval, Unsettled, Undelivered, Delivered
<1>3. Approving(r) => req[r].card \in Requests /\ Chooses(r)
  BY <1>0 DEF DecisionsNameACard, Chooses, Approving
<1> USE <1>0 DEF Go
<1>4. CASE Decide(r)
  <2>1. phase'[r] = "decided" /\ UNCHANGED req /\ Approving(r)
    BY <1>2, <1>4 DEF Decide, Approving
  <2>2. card'[req[r].card].execution =
            Flush(card[req[r].card].execution, req[r].seen, "running")
    BY <1>3, <1>4, <2>1 DEF Decide, Cards
  <2>3. phase[r] = "checked" /\ req[r].seen = card[req[r].card].execution
    BY <1>1, <1>3, <1>4, <2>1 DEF Decide, HoldsChoice
  <2>4. QED
    BY <2>1, <2>2, <2>3 DEF Flush, Delivered
<1>5. CASE RefreshCard(r)
  <2>1. /\ phase[r] = "decided" /\ phase'[r] = "ready" /\ UNCHANGED card
        /\ req'[r].card = req[r].card /\ req'[r].kind = req[r].kind
        /\ req'[r].seen = card[req[r].card].execution
    BY <1>5 DEF RefreshCard, database, Locals
  <2>2. QED
    BY <1>1, <1>2, <2>1 DEF RunsApproval, Approving, Unsettled, Undelivered, Delivered
<1>6. CASE ResumeRun(r)
  <2>1. phase[r] = "ready" /\ phase'[r] = "resumed" /\ UNCHANGED <<card, req>>
    BY <1>6 DEF ResumeRun
  <2>2. QED
    BY <1>1, <1>2, <2>1 DEF RunsApproval, Approving, Unsettled, Undelivered, Delivered
<1>7. CASE StartResume(r)
  <2>1. /\ phase[r] = "resumed" /\ UNCHANGED card
        /\ req'[r].card = req[r].card /\ req'[r].kind = req[r].kind
        /\ req'[r].seen = req[r].seen
    BY <1>7 DEF StartResume, database, Locals
  <2>2. Approving(r)
    BY <1>2, <2>1 DEF Approving
  <2>3. checkpoint.kind = "approval"
    BY <1>1, <1>3, <2>1, <2>2 DEF HoldsChoice, Approval, Undelivered
  <2>4. phase'[r] = "answering"
    BY <1>7, <2>3 DEF StartResume
  <2>5. QED
    BY <1>1, <2>1, <2>2, <2>4 DEF RunsApproval, Unsettled, Undelivered, Delivered
<1>8. CASE ApplyDecision(r)
  <2>1. phase[r] = "answering" /\ phase'[r] = "streaming" /\ UNCHANGED <<card, req>>
    BY <1>8 DEF ApplyDecision, database
  <2>2. Approving(r)
    BY <1>2, <2>1 DEF Approving
  <2>3. req[r].view.of = req[r].card
    BY <1>1, <1>3, <2>1, <2>2 DEF HoldsChoice, Approval
  <2>4. <<r, req[r].card>> \in executed'
    BY <1>8, <2>2, <2>3 DEF ApplyDecision
  <2>5. QED
    BY <1>1, <2>1, <2>2, <2>4 DEF RunsApproval, Unsettled, Undelivered, Delivered
<1>9. CASE DecisionNotAllowed(r)
  <2>1. phase[r] = "answering" /\ phase'[r] \in {"failing", "done"} /\ UNCHANGED <<card, req>>
    BY <1>9 DEF DecisionNotAllowed, FailRun
  <2>2. QED
    BY <1>1, <1>2, <2>1 DEF RunsApproval, Approving, Unsettled, Undelivered, Delivered
<1>10. CASE ~(Decide(r) \/ RefreshCard(r) \/ ResumeRun(r) \/ StartResume(r)
                \/ ApplyDecision(r) \/ DecisionNotAllowed(r))
  <2>1. /\ phase[r] \in Delivered /\ Approving(r) /\ UNCHANGED <<card, executed>>
        /\ req'[r].card = req[r].card /\ req'[r].seen = req[r].seen
    BY <1>2, <1>10, DeliveredStays
  <2>2. QED
    BY <1>1, <2>1 DEF RunsApproval, Unsettled, Delivered
<1>11. QED
  BY <1>4, <1>5, <1>6, <1>7, <1>8, <1>9, <1>10

\* An interrupt stays the thread's, and its card undecided, until the run is parked.
LEMMA InterruptStep ==
  ASSUME IInv, PageTyped, OneInv, NEW r \in Requests, Work(r)
  PROVE  HoldsInterrupt(r)'
<1>0. /\ phase \in [Requests -> Phases] /\ req \in [Requests -> Locals]
      /\ card \in [Requests -> Cards] /\ SettlersApprove
  BY DEF IInv, TypeOK
<1>1. HoldsInterrupt(r)
  BY DEF OneInv, Relies
<1>2. SUFFICES ASSUME phase'[r] \in {"interrupted", "settled", "carded"}
               PROVE  HoldsInterrupt(r)'
  BY DEF HoldsInterrupt
<1> USE <1>0 DEF Go
<1>3. CASE \E asks \in {"approval", "form"} : Interrupt(r, asks)
  <2>1. PICK asks \in {"approval", "form"} : Interrupt(r, asks)
    BY <1>3
  <2>2. /\ phase'[r] \in {"interrupted", "settled"} /\ req'[r].asks = asks
        /\ checkpoint' = [kind |-> asks, of |-> r]
    BY <2>1 DEF Interrupt, Locals
  <2>3. QED
    BY <2>2 DEF HoldsInterrupt
<1>4. CASE SettleBeforeNext(r)
  <2>1. /\ phase[r] = "interrupted" /\ phase'[r] = "settled" /\ UNCHANGED checkpoint
        /\ req'[r].asks = req[r].asks
    BY <1>4 DEF SettleBeforeNext, SetExecution, Locals, graph
  <2>2. QED
    BY <1>1, <2>1 DEF HoldsInterrupt
<1>5. CASE CreateCard(r)
  <2>1. phase[r] = "settled" /\ phase'[r] = "carded" /\ UNCHANGED <<checkpoint, req>>
    BY <1>5 DEF CreateCard, graph
  <2>2. card'[r].run = req[r].run /\ card'[r].decision = "pending"
    BY <1>5 DEF CreateCard
  <2>3. QED
    BY <1>1, <2>1, <2>2 DEF HoldsInterrupt
<1>6. CASE SaveUserMessage(r) \/ CreateRun(r) \/ StartReply(r) \/ NothingAwaiting(r)
             \/ FindAwaitingRun(r)
  BY <1>2, <1>6 DEF SaveUserMessage, CreateRun, StartReply, NothingAwaiting, FindAwaitingRun
<1>7. CASE CheckCard(r) \/ RefuseCard(r) \/ AcceptForm(r) \/ RefuseForm(r)
  BY <1>2, <1>7 DEF CheckCard, RefuseCard, AcceptForm, RefuseForm
<1>8. CASE Decide(r) \/ RefreshCard(r) \/ ResumeRun(r) \/ StartResume(r)
  BY <1>2, <1>8 DEF Decide, RefreshCard, ResumeRun, StartResume
<1>9. CASE ApplyDecision(r) \/ DecisionNotAllowed(r) \/ AgentError(r)
  BY <1>2, <1>9 DEF ApplyDecision, DecisionNotAllowed, AgentError, FailRun
<1>10. CASE PublishArtifact(r) \/ EndStream(r) \/ ParkRun(r)
  BY <1>2, <1>10 DEF PublishArtifact, EndStream, ParkRun
<1>11. CASE SettleAtEnd(r) \/ SettleFailed(r) \/ SettleCancelled(r)
  BY <1>2, <1>11 DEF SettleAtEnd, SettleFailed, SettleCancelled
<1>12. CASE SaveReply(r) \/ AttachArtifacts(r) \/ CompleteRun(r)
  BY <1>2, <1>12 DEF SaveReply, AttachArtifacts, CompleteRun
<1>13. QED
  BY <1>3, <1>4, <1>5, <1>6, <1>7, <1>8, <1>9, <1>10, <1>11, <1>12 DEF Work, Serve

\* A request that has a run keeps it, and writes to no other run.
LEMMA WorksOnOwn ==
  ASSUME TypeOK, NEW r \in Requests, Work(r), ~(CreateRun(r) \/ FindAwaitingRun(r)),
         phase'[r] \in Working
  PROVE  /\ phase[r] \in Working /\ UNCHANGED runOrder /\ req'[r].run = req[r].run
         /\ \A q \in Requests : q # req[r].run => run'[q] = run[q]
<1>0. /\ phase \in [Requests -> Phases] /\ req \in [Requests -> Locals]
      /\ run \in [Requests -> RunStatuses]
  BY DEF TypeOK
<1> USE <1>0 DEF Working, TryPhases, Go
<1>1. CASE SaveUserMessage(r) \/ StartReply(r) \/ NothingAwaiting(r)
  BY <1>1 DEF SaveUserMessage, StartReply, NothingAwaiting, database
<1>2. CASE CheckCard(r)
  BY <1>2 DEF CheckCard, database, Locals
<1>3. CASE RefuseCard(r) \/ AcceptForm(r) \/ RefuseForm(r)
  BY <1>3 DEF RefuseCard, AcceptForm, RefuseForm, database
<1>4. CASE Decide(r) \/ RefreshCard(r)
  <2>1. CASE Decide(r)
    BY <2>1 DEF Decide
  <2>2. CASE RefreshCard(r)
    BY <2>2 DEF RefreshCard, database, Locals
  <2>3. QED
    BY <1>4, <2>1, <2>2
<1>5. CASE ResumeRun(r) \/ StartResume(r)
  <2>1. CASE ResumeRun(r)
    BY <2>1 DEF ResumeRun, SetRun
  <2>2. CASE StartResume(r)
    BY <2>2 DEF StartResume, database, Locals
  <2>3. QED
    BY <1>5, <2>1, <2>2
<1>6. CASE ApplyDecision(r) \/ DecisionNotAllowed(r) \/ AgentError(r)
  BY <1>6 DEF ApplyDecision, DecisionNotAllowed, AgentError, FailRun, database
<1>7. CASE PublishArtifact(r) \/ EndStream(r)
  BY <1>7 DEF PublishArtifact, EndStream, database
<1>8. CASE \E asks \in {"approval", "form"} : Interrupt(r, asks)
  BY <1>8 DEF Interrupt, database, Locals
<1>9. CASE SettleBeforeNext(r) \/ SettleAtEnd(r) \/ SettleFailed(r) \/ SettleCancelled(r)
  BY <1>9 DEF SettleBeforeNext, SettleAtEnd, SettleFailed, SettleCancelled, SetExecution, Locals
<1>10. CASE CreateCard(r) \/ ParkRun(r)
  BY <1>10 DEF CreateCard, ParkRun
<1>11. CASE SaveReply(r) \/ AttachArtifacts(r) \/ CompleteRun(r)
  BY <1>11 DEF SaveReply, AttachArtifacts, CompleteRun, SetRun
<1>12. QED
  BY <1>1, <1>2, <1>3, <1>4, <1>5, <1>6, <1>7, <1>8, <1>9, <1>10, <1>11 DEF Work, Serve

\* The run a request works on is followed by none that awaits a decision.
LEMMA NewestStep ==
  ASSUME IInv, PageTyped, OneInv, NEW r \in Requests, Work(r)
  PROVE  WorksOnNewest(r)'
<1>0. /\ phase \in [Requests -> Phases] /\ req \in [Requests -> Locals]
      /\ run \in [Requests -> RunStatuses] /\ runOrder \in Seq(Requests) /\ TypeOK
  BY DEF IInv, TypeOK
<1>1. WorksOnNewest(r)
  BY DEF OneInv, Relies
<1>2. SUFFICES ASSUME phase'[r] \in Working
               PROVE  NoneAwaitsAfter(req[r].run)'
  BY DEF WorksOnNewest, Working
<1> USE <1>0
<1>3. CASE CreateRun(r)
  <2>1. req'[r].run = r /\ runOrder' = Append(runOrder, r)
    BY <1>3 DEF CreateRun, Locals
  <2>2. /\ Len(runOrder) + 1 \in DOMAIN runOrder' /\ runOrder'[Len(runOrder) + 1] = r
        /\ \A j \in DOMAIN runOrder' : ~(j > Len(runOrder) + 1)
    BY <2>1
  <2>3. QED
    BY <2>1, <2>2 DEF NoneAwaitsAfter
<1>4. CASE FindAwaitingRun(r)
  <2>1. PICK q \in Requests : LatestAwaitingRun(q) /\ req' = [req EXCEPT ![r].run = q]
    BY <1>4 DEF FindAwaitingRun
  <2>2. req'[r].run = q /\ UNCHANGED <<run, runOrder>>
    BY <1>4, <2>1 DEF FindAwaitingRun, database, Locals
  <2>3. NoneAwaitsAfter(q)
    BY <2>1 DEF LatestAwaitingRun, NoneAwaitsAfter
  <2>4. QED
    BY <2>2, <2>3 DEF NoneAwaitsAfter
<1>5. CASE ~(CreateRun(r) \/ FindAwaitingRun(r))
  <2>1. /\ phase[r] \in Working /\ UNCHANGED runOrder /\ req'[r].run = req[r].run
        /\ \A q \in Requests : q # req[r].run => run'[q] = run[q]
    BY <1>2, <1>5, WorksOnOwn
  <2>2. NoneAwaitsAfter(req[r].run)
    BY <1>1, <2>1 DEF WorksOnNewest
  <2>3. PICK i \in DOMAIN runOrder :
            /\ runOrder[i] = req[r].run
            /\ \A j \in DOMAIN runOrder : j > i =>
                   runOrder[j] # req[r].run /\ run[runOrder[j]] # "awaiting_confirmation"
    BY <2>2 DEF NoneAwaitsAfter
  <2>4. \A j \in DOMAIN runOrder : j > i => run'[runOrder[j]] = run[runOrder[j]]
    BY <2>1, <2>3
  <2>5. QED
    BY <2>1, <2>3, <2>4 DEF NoneAwaitsAfter
<1>6. QED
  BY <1>3, <1>4, <1>5

\* A request with a run works on one that exists.
LEMMA RunExists ==
  ASSUME TypeOK, NEW r \in Requests, WorksOnNewest(r), phase[r] \in Working
  PROVE  req[r].run \in Requests
BY DEF TypeOK, WorksOnNewest, NoneAwaitsAfter

\* A run at work says so, and its artifacts are attached before it completes.
LEMMA RunningStep ==
  ASSUME IInv, PageTyped, OneInv, NEW r \in Requests, Work(r)
  PROVE  WorksOnRunning(r)'
<1>0. /\ phase \in [Requests -> Phases] /\ req \in [Requests -> Locals] /\ TypeOK
      /\ run \in [Requests -> RunStatuses]
      /\ artifact \in [Requests -> {"none", "loose", "attached"}]
  BY DEF IInv, TypeOK
<1>1. WorksOnRunning(r) /\ WorksOnNewest(r)
  BY DEF OneInv, Relies
<1> USE <1>0 DEF Go
<1>2. ASSUME phase[r] \in OwesRun, UNCHANGED run, req'[r].run = req[r].run
      PROVE  run'[req'[r].run] = "running"
  BY <1>1, <1>2 DEF WorksOnRunning
<1>3. ASSUME phase'[r] \in OwesRun
      PROVE  run'[req'[r].run] = "running"
  <2> USE <1>3 DEF OwesRun
  <2>1. CASE SaveUserMessage(r) \/ NothingAwaiting(r) \/ FindAwaitingRun(r)
    BY <2>1 DEF SaveUserMessage, NothingAwaiting, FindAwaitingRun
  <2>2. CASE CreateRun(r)
    BY <2>2 DEF CreateRun, Locals
  <2>3. CASE StartReply(r)
    BY <1>2, <2>3 DEF StartReply, database
  <2>4. CASE CheckCard(r) \/ RefuseCard(r) \/ AcceptForm(r) \/ RefuseForm(r)
    BY <2>4 DEF CheckCard, RefuseCard, AcceptForm, RefuseForm
  <2>5. CASE Decide(r) \/ RefreshCard(r)
    BY <2>5 DEF Decide, RefreshCard
  <2>6. CASE ResumeRun(r)
    <3>1. req[r].run \in Requests
      BY <1>1, <2>6, RunExists DEF ResumeRun, Working
    <3>2. QED
      BY <2>6, <3>1 DEF ResumeRun, SetRun
  <2>7. CASE StartResume(r)
    BY <1>2, <2>7 DEF StartResume, database, Locals
  <2>8. CASE ApplyDecision(r)
    BY <1>2, <2>8 DEF ApplyDecision, database
  <2>9. CASE DecisionNotAllowed(r) \/ AgentError(r)
    BY <2>9 DEF DecisionNotAllowed, AgentError, FailRun
  <2>10. CASE PublishArtifact(r) \/ EndStream(r)
    BY <1>2, <2>10 DEF PublishArtifact, EndStream, database
  <2>11. CASE \E asks \in {"approval", "form"} : Interrupt(r, asks)
    BY <1>2, <2>11 DEF Interrupt, database, Locals
  <2>12. CASE SettleBeforeNext(r)
    BY <1>2, <2>12 DEF SettleBeforeNext, SetExecution, Locals
  <2>13. CASE SettleAtEnd(r) \/ SettleFailed(r) \/ SettleCancelled(r)
    BY <2>13 DEF SettleAtEnd, SettleFailed, SettleCancelled
  <2>14. CASE CreateCard(r)
    BY <1>2, <2>14 DEF CreateCard
  <2>15. CASE ParkRun(r) \/ CompleteRun(r)
    BY <2>15 DEF ParkRun, CompleteRun
  <2>16. CASE SaveReply(r) \/ AttachArtifacts(r)
    BY <1>2, <2>16 DEF SaveReply, AttachArtifacts
  <2>17. QED
    BY <2>1, <2>2, <2>3, <2>4, <2>5, <2>6, <2>7, <2>8, <2>9, <2>10, <2>11, <2>12, <2>13,
       <2>14, <2>15, <2>16 DEF Work, Serve
<1>4. ASSUME phase'[r] = "attached", NEW a \in Requests, artifact'[a] = "loose"
      PROVE  req'[a].run # req'[r].run
  <2>1. CASE AttachArtifacts(r)
    BY <1>4, <2>1 DEF AttachArtifacts
  <2>2. ~AttachArtifacts(r) => FALSE
    <3> USE <1>4
    <3>1. CASE SaveUserMessage(r) \/ NothingAwaiting(r) \/ FindAwaitingRun(r) \/ CreateRun(r)
                 \/ StartReply(r)
      BY <3>1 DEF SaveUserMessage, NothingAwaiting, FindAwaitingRun, CreateRun, StartReply
    <3>2. CASE CheckCard(r) \/ RefuseCard(r) \/ AcceptForm(r) \/ RefuseForm(r)
      BY <3>2 DEF CheckCard, RefuseCard, AcceptForm, RefuseForm
    <3>3. CASE Decide(r) \/ RefreshCard(r) \/ ResumeRun(r) \/ StartResume(r)
      BY <3>3 DEF Decide, RefreshCard, ResumeRun, StartResume
    <3>4. CASE ApplyDecision(r) \/ DecisionNotAllowed(r) \/ AgentError(r)
      BY <3>4 DEF ApplyDecision, DecisionNotAllowed, AgentError, FailRun
    <3>5. CASE PublishArtifact(r) \/ EndStream(r) \/ \E asks \in {"approval", "form"} : Interrupt(r, asks)
      BY <3>5 DEF PublishArtifact, EndStream, Interrupt
    <3>6. CASE SettleBeforeNext(r) \/ SettleAtEnd(r) \/ SettleFailed(r) \/ SettleCancelled(r)
      BY <3>6 DEF SettleBeforeNext, SettleAtEnd, SettleFailed, SettleCancelled
    <3>7. CASE CreateCard(r) \/ ParkRun(r) \/ SaveReply(r) \/ CompleteRun(r)
      BY <3>7 DEF CreateCard, ParkRun, SaveReply, CompleteRun
    <3>8. QED
      BY <3>1, <3>2, <3>3, <3>4, <3>5, <3>6, <3>7 DEF Work, Serve
  <2>3. QED
    BY <2>1, <2>2
<1>5. QED
  BY <1>3, <1>4 DEF WorksOnRunning, OwesRun
-----------------------------------------------------------------------------
(* The calls, the cards and the artifacts. *)

\* Tools are called by the delivery of a decision only.
LEMMA ExecutedKept ==
  ASSUME NEW r \in Requests, Work(r), ~ApplyDecision(r)
  PROVE  UNCHANGED executed
<1>1. CASE SaveUserMessage(r) \/ CreateRun(r) \/ NothingAwaiting(r) \/ FindAwaitingRun(r)
             \/ StartReply(r)
  BY <1>1 DEF SaveUserMessage, CreateRun, NothingAwaiting, FindAwaitingRun, StartReply, graph
<1>2. CASE CheckCard(r) \/ RefuseCard(r) \/ AcceptForm(r) \/ RefuseForm(r)
  BY <1>2 DEF CheckCard, RefuseCard, AcceptForm, RefuseForm, graph
<1>3. CASE Decide(r) \/ RefreshCard(r) \/ ResumeRun(r) \/ StartResume(r)
  BY <1>3 DEF Decide, RefreshCard, ResumeRun, StartResume, graph
<1>4. CASE DecisionNotAllowed(r) \/ AgentError(r)
  BY <1>4 DEF DecisionNotAllowed, AgentError, FailRun, graph
<1>5. CASE PublishArtifact(r) \/ EndStream(r) \/ \E asks \in {"approval", "form"} : Interrupt(r, asks)
  BY <1>5 DEF PublishArtifact, EndStream, Interrupt, graph
<1>6. CASE SettleBeforeNext(r) \/ SettleAtEnd(r) \/ SettleFailed(r) \/ SettleCancelled(r)
  BY <1>6 DEF SettleBeforeNext, SettleAtEnd, SettleFailed, SettleCancelled, graph
<1>7. CASE CreateCard(r) \/ ParkRun(r)
  BY <1>7 DEF CreateCard, ParkRun, graph
<1>8. CASE SaveReply(r) \/ AttachArtifacts(r) \/ CompleteRun(r)
  BY <1>8 DEF SaveReply, AttachArtifacts, CompleteRun, graph
<1>9. QED
  BY <1>1, <1>2, <1>3, <1>4, <1>5, <1>6, <1>7, <1>8 DEF Work, Serve

\* The call of a delivery is that of the card just approved, and the first of it.
LEMMA CallStep ==
  ASSUME IInv, PageTyped, OneInv, NEW r \in Requests, Work(r)
  PROVE  CalledIsDecided' /\ ToolCalledAtMostOnce'
<1>0. /\ TypeOK /\ DecisionsNameACard /\ CardsAppearLate /\ AcceptedCards
      /\ CalledIsDecided /\ ToolCalledAtMostOnce /\ HoldsChoice(r)
  BY DEF IInv, OneInv, Relies
<1>1. ASSUME NEW c \in Requests, Decided(c)
      PROVE  Decided(c)'
  <2>1. Step(r)
    BY DEF Work, Step, Fault
  <2>2. QED
    BY <1>0, <1>1, <2>1, CardRowStays
<1>2. CASE ApplyDecision(r)
  <2>1. phase[r] = "answering"
    BY <1>2 DEF ApplyDecision, Go
  <2>2. CASE Approving(r)
    <3>1. Chooses(r) /\ req[r].card \in Requests
      BY <1>0, <2>2 DEF DecisionsNameACard, Chooses, Approving
    <3>2. /\ req[r].view.of = req[r].card
          /\ \A x \in executed : x[2] # req[r].card
      BY <1>0, <2>1, <3>1 DEF HoldsChoice, Approval, Undelivered
    <3>3. Decided(req[r].card)
      BY <1>0, <2>1, <3>1 DEF AcceptedCards, Accepted, TryPhases, Chooses
    <3>4. executed' = executed \cup {<<r, req[r].card>>}
      BY <1>2, <2>2, <3>2 DEF ApplyDecision
    <3>5. \A x \in executed' : x \in executed \/ x = <<r, req[r].card>>
      BY <3>4
    <3>6. CalledIsDecided'
      <4>1. \A x \in executed : Decided(x[2])'
        BY <1>0, <1>1 DEF CalledIsDecided, TypeOK
      <4>2. Decided(req[r].card)'
        <5>1. UNCHANGED <<card, req>>
          BY <1>2 DEF ApplyDecision, database
        <5>2. QED
          BY <3>3, <5>1 DEF Decided
      <4>3. UNCHANGED req
        BY <1>2 DEF ApplyDecision
      <4>4. QED
        BY <3>5, <4>1, <4>2, <4>3 DEF CalledIsDecided, Decided
    <3>7. ToolCalledAtMostOnce'
      BY <1>0, <3>2, <3>5 DEF ToolCalledAtMostOnce
    <3>8. QED
      BY <3>6, <3>7
  <2>3. CASE ~Approving(r)
    <3>1. executed' = executed
      BY <1>2, <2>3 DEF ApplyDecision
    <3>2. \A x \in executed : Decided(x[2])'
      BY <1>0, <1>1 DEF CalledIsDecided, TypeOK
    <3>3. QED
      BY <1>0, <3>1, <3>2 DEF CalledIsDecided, Decided, ToolCalledAtMostOnce
  <2>4. QED
    BY <2>2, <2>3
<1>3. CASE ~ApplyDecision(r)
  <2>1. executed' = executed
    BY <1>3, ExecutedKept
  <2>2. \A x \in executed : Decided(x[2])'
    BY <1>0, <1>1 DEF CalledIsDecided, TypeOK
  <2>3. QED
    BY <1>0, <2>1, <2>2 DEF CalledIsDecided, Decided, ToolCalledAtMostOnce
<1>4. QED
  BY <1>2, <1>3

\* The steps that write no card leave the list of the cards alone, too.
LEMMA CardTableKept ==
  ASSUME NEW r \in Requests, Work(r), ~WritesCard(r)
  PROVE  UNCHANGED <<card, cardOrder>>
<1>1. CASE SaveUserMessage(r) \/ CreateRun(r) \/ NothingAwaiting(r) \/ FindAwaitingRun(r)
             \/ StartReply(r)
  BY <1>1 DEF SaveUserMessage, CreateRun, NothingAwaiting, FindAwaitingRun, StartReply, database
<1>2. CASE CheckCard(r) \/ RefuseCard(r) \/ AcceptForm(r) \/ RefuseForm(r)
  BY <1>2 DEF CheckCard, RefuseCard, AcceptForm, RefuseForm, database
<1>3. CASE RefreshCard(r) \/ ResumeRun(r) \/ StartResume(r)
  BY <1>3 DEF RefreshCard, ResumeRun, StartResume, database
<1>4. CASE ApplyDecision(r) \/ DecisionNotAllowed(r) \/ AgentError(r)
  BY <1>4 DEF ApplyDecision, DecisionNotAllowed, AgentError, FailRun, database
<1>5. CASE PublishArtifact(r) \/ EndStream(r) \/ \E asks \in {"approval", "form"} : Interrupt(r, asks)
  BY <1>5 DEF PublishArtifact, EndStream, Interrupt, database
<1>6. CASE ParkRun(r) \/ SaveReply(r) \/ AttachArtifacts(r) \/ CompleteRun(r)
  BY <1>6 DEF ParkRun, SaveReply, AttachArtifacts, CompleteRun
<1>7. QED
  BY <1>1, <1>2, <1>3, <1>4, <1>5, <1>6 DEF Work, Serve, WritesCard

\* What the settling steps write.
Settle(r) ==
    SettleBeforeNext(r) \/ SettleAtEnd(r) \/ SettleFailed(r) \/ SettleCancelled(r)

\* They change no decision and no run of a card.
LEMMA SettleKeepsDecisions ==
  ASSUME card \in [Requests -> Cards], NEW r \in Requests, Settle(r), NEW c \in Requests
  PROVE  /\ card'[c].decision = card[c].decision /\ card'[c].run = card[c].run
         /\ UNCHANGED <<cardOrder, checkpoint, run, runOrder>>
BY DEF Settle, SettleBeforeNext, SettleAtEnd, SettleFailed, SettleCancelled, SetExecution,
   Cards, graph

\* Every card stays in the list.
LEMMA ListStep ==
  ASSUME IInv, CardsListed, NEW r \in Requests, Work(r)
  PROVE  CardsListed'
<1>0. /\ TypeOK /\ DecisionsNameACard /\ AcceptedCards /\ card \in [Requests -> Cards]
      /\ cardOrder \in Seq(Requests)
  BY DEF IInv, TypeOK
<1>1. ASSUME cardOrder' = cardOrder,
             \A c \in Requests : card'[c].decision # "absent" => card[c].decision # "absent"
      PROVE  CardsListed'
  BY <1>1 DEF CardsListed
<1>2. CASE CreateCard(r)
  <2>1. /\ cardOrder' = Append(cardOrder, r)
        /\ \A c \in Requests \ {r} : card'[c] = card[c]
    BY <1>0, <1>2 DEF CreateCard
  <2>2. \A i \in DOMAIN cardOrder : i \in DOMAIN cardOrder' /\ cardOrder'[i] = cardOrder[i]
    BY <1>0, <2>1
  <2>3. Len(cardOrder) + 1 \in DOMAIN cardOrder' /\ cardOrder'[Len(cardOrder) + 1] = r
    BY <1>0, <2>1
  <2>4. QED
    BY <2>1, <2>2, <2>3 DEF CardsListed
<1>3. CASE Decide(r)
  <2>1. phase[r] = "checked" /\ UNCHANGED cardOrder
    BY <1>3 DEF Decide, Go
  <2>2. card[req[r].card].decision # "absent"
    BY <1>0, <2>1 DEF DecisionsNameACard, AcceptedCards, Accepted
  <2>3. \A c \in Requests : c # req[r].card => card'[c] = card[c]
    BY <1>0, <1>3 DEF Decide
  <2>4. QED
    BY <1>1, <2>1, <2>2, <2>3
<1>4. CASE Settle(r)
  BY <1>0, <1>1, <1>4, SettleKeepsDecisions
<1>5. CASE ~WritesCard(r)
  BY <1>1, <1>5, CardTableKept
<1>6. QED
  BY <1>2, <1>3, <1>4, <1>5 DEF WritesCard, Settle

\* Who has published works on, or has worked on, the same run ever since.
LEMMA PublisherKeepsRun ==
  ASSUME IInv, NEW r \in Requests, Work(r), NEW a \in Requests, artifact[a] # "none"
  PROVE  req'[a].run = req[a].run
<1>1. phase[a] \in Streamed
  BY DEF IInv, TracesOfStreams
<1>2. Settled(a)
  BY <1>1 DEF Settled, Streamed, TryPhases
<1>3. QED
  BY <1>2, LocalsStay DEF IInv, Work, Step, Fault

\* The steps that change neither the artifacts nor the status of a run.
LEMMA ArtifactsKept ==
  ASSUME TypeOK, NEW r \in Requests, Work(r),
         ~(CreateRun(r) \/ ResumeRun(r) \/ ParkRun(r) \/ CompleteRun(r) \/ PublishArtifact(r)
             \/ AttachArtifacts(r) \/ DecisionNotAllowed(r) \/ AgentError(r))
  PROVE  UNCHANGED <<run, artifact>>
<1>1. CASE SaveUserMessage(r) \/ NothingAwaiting(r) \/ FindAwaitingRun(r) \/ StartReply(r)
  BY <1>1 DEF SaveUserMessage, NothingAwaiting, FindAwaitingRun, StartReply, database
<1>2. CASE CheckCard(r) \/ RefuseCard(r) \/ AcceptForm(r) \/ RefuseForm(r)
  BY <1>2 DEF CheckCard, RefuseCard, AcceptForm, RefuseForm, database
<1>3. CASE Decide(r) \/ RefreshCard(r) \/ StartResume(r) \/ ApplyDecision(r)
  BY <1>3 DEF Decide, RefreshCard, StartResume, ApplyDecision, database
<1>4. CASE EndStream(r) \/ \E asks \in {"approval", "form"} : Interrupt(r, asks)
  BY <1>4 DEF EndStream, Interrupt, database
<1>5. CASE SettleBeforeNext(r) \/ SettleAtEnd(r) \/ SettleFailed(r) \/ SettleCancelled(r)
  BY <1>5 DEF SettleBeforeNext, SettleAtEnd, SettleFailed, SettleCancelled
<1>6. CASE CreateCard(r) \/ SaveReply(r)
  BY <1>6 DEF CreateCard, SaveReply
<1>7. QED
  BY <1>1, <1>2, <1>3, <1>4, <1>5, <1>6 DEF Work, Serve

\* A run completes only when all its artifacts are attached, and none is published later.
LEMMA LooseStep ==
  ASSUME IInv, PageTyped, OneInv, NEW r \in Requests, Work(r)
  PROVE  CompletedRunLeavesNoLooseArtifact'
<1>0. /\ TypeOK /\ run \in [Requests -> RunStatuses] /\ req \in [Requests -> Locals]
      /\ phase \in [Requests -> Phases]
      /\ artifact \in [Requests -> {"none", "loose", "attached"}]
      /\ CompletedRunLeavesNoLooseArtifact /\ WorksOnNewest(r) /\ WorksOnRunning(r)
  BY DEF IInv, OneInv, Relies, TypeOK
<1>1. SUFFICES ASSUME NEW a \in Requests, artifact'[a] = "loose"
               PROVE  run'[req'[a].run] # "completed"
  BY DEF CompletedRunLeavesNoLooseArtifact
<1> USE <1>0
<1>2. ASSUME artifact[a] = "loose"
      PROVE  req'[a].run = req[a].run /\ run[req[a].run] # "completed"
  BY <1>2, PublisherKeepsRun DEF CompletedRunLeavesNoLooseArtifact
<1>3. ASSUME artifact[a] = "loose", NEW q \in Requests, NEW s \in RunStatuses \ {"completed"},
             run' = [run EXCEPT ![q] = s]
      PROVE  run'[req'[a].run] # "completed"
  BY <1>2, <1>3
<1>4. CASE CreateRun(r)
  BY <1>1, <1>3, <1>4 DEF CreateRun, RunStatuses
<1>5. CASE ResumeRun(r) \/ ParkRun(r) \/ DecisionNotAllowed(r) \/ AgentError(r)
  <2>1. phase[r] \in Working
    BY <1>5 DEF ResumeRun, ParkRun, DecisionNotAllowed, AgentError, Working, TryPhases, Go
  <2>2. req[r].run \in Requests
    BY <2>1, RunExists
  <2>3. /\ UNCHANGED artifact
        /\ \E s \in RunStatuses \ {"completed"} : run' = [run EXCEPT ![req[r].run] = s]
    BY <1>5 DEF ResumeRun, ParkRun, DecisionNotAllowed, AgentError, FailRun, SetRun, RunStatuses
  <2>4. QED
    BY <1>1, <1>3, <2>2, <2>3
<1>6. CASE CompleteRun(r)
  <2>1. /\ phase[r] = "attached" /\ UNCHANGED <<artifact, req>>
        /\ run' = [run EXCEPT ![req[r].run] = "completed"]
    BY <1>6 DEF CompleteRun, Go, SetRun
  <2>2. req[a].run # req[r].run
    BY <1>1, <2>1 DEF WorksOnRunning
  <2>3. QED
    BY <1>1, <1>2, <2>1, <2>2
<1>7. CASE PublishArtifact(r)
  <2>1. UNCHANGED <<run, req>> /\ phase[r] = "streaming"
    BY <1>7 DEF PublishArtifact
  <2>2. a = r \/ artifact[a] = "loose"
    BY <1>1, <1>7 DEF PublishArtifact
  <2>3. run[req[r].run] = "running"
    BY <2>1 DEF WorksOnRunning, OwesRun
  <2>4. QED
    BY <1>2, <2>1, <2>2, <2>3
<1>8. CASE AttachArtifacts(r)
  <2>1. UNCHANGED <<run, req>> /\ artifact[a] = "loose"
    BY <1>1, <1>8 DEF AttachArtifacts
  <2>2. QED
    BY <1>2, <2>1
<1>9. CASE ~(CreateRun(r) \/ ResumeRun(r) \/ ParkRun(r) \/ CompleteRun(r) \/ PublishArtifact(r)
               \/ AttachArtifacts(r) \/ DecisionNotAllowed(r) \/ AgentError(r))
  BY <1>1, <1>2, <1>9, ArtifactsKept
<1>10. QED
  BY <1>4, <1>5, <1>6, <1>7, <1>8, <1>9

-----------------------------------------------------------------------------
(* The page and the undecided card. *)

\* A step that meets no undecided card and issues none leaves none.
LEMMA NonePending ==
  ASSUME \A c \in Requests : card[c].decision # "pending",
         \A c \in Requests : card'[c].decision = "pending" => card[c].decision = "pending"
  PROVE  PendingIsHeld'
BY DEF PendingIsHeld

\* The steps that neither choose nor issue a card do not meet an undecided one.
LEMMA NoPendingElsewhere ==
  ASSUME IInv, PageTyped, OneInv, NEW r \in Requests, Work(r),
         ~(FindAwaitingRun(r) \/ CheckCard(r) \/ Decide(r) \/ ParkRun(r)),
         NEW c \in Requests, card[c].decision = "pending"
  PROVE  FALSE
<1>0. /\ TypeOK /\ phase \in [Requests -> Phases] /\ HoldsChoice(r)
      /\ Sequential /\ PendingIsHeld
  BY DEF IInv, OneInv, Relies, TypeOK
<1>1. CASE Chooses(r) /\ req[r].card = c /\ phase[r] \in {"received", "found", "checked"}
             /\ LatestAwaitingRun(card[c].run)
  <2> USE <1>0, <1>1 DEF Go, Chooses
  <2>1. CASE SaveUserMessage(r) \/ CreateRun(r) \/ StartReply(r)
    BY <2>1 DEF SaveUserMessage, CreateRun, StartReply
  <2>2. CASE NothingAwaiting(r)
    <3>1. PICK i \in DOMAIN runOrder : runOrder[i] = card[c].run
                                       /\ run[card[c].run] = "awaiting_confirmation"
      BY DEF LatestAwaitingRun
    <3>2. card[c].run \in Requests
      BY <3>1 DEF TypeOK
    <3>3. QED
      BY <2>2, <3>1, <3>2 DEF NothingAwaiting
  <2>3. CASE RefuseCard(r)
    <3>1. phase[r] = "found"
      BY <2>3 DEF RefuseCard
    <3>2. CardAccepted(r)
      BY <3>1 DEF HoldsChoice, CardAccepted
    <3>3. QED
      BY <2>3, <3>2 DEF RefuseCard
  <2>4. CASE AcceptForm(r) \/ RefuseForm(r)
    BY <2>4 DEF AcceptForm, RefuseForm
  <2>5. CASE RefreshCard(r) \/ ResumeRun(r) \/ StartResume(r)
    BY <2>5 DEF RefreshCard, ResumeRun, StartResume
  <2>6. CASE ApplyDecision(r) \/ DecisionNotAllowed(r) \/ AgentError(r)
    BY <2>6 DEF ApplyDecision, DecisionNotAllowed, AgentError
  <2>7. CASE PublishArtifact(r) \/ EndStream(r) \/ \E asks \in {"approval", "form"} : Interrupt(r, asks)
    BY <2>7 DEF PublishArtifact, EndStream, Interrupt
  <2>8. CASE SettleBeforeNext(r) \/ SettleAtEnd(r) \/ SettleFailed(r) \/ SettleCancelled(r)
    BY <2>8 DEF SettleBeforeNext, SettleAtEnd, SettleFailed, SettleCancelled
  <2>9. CASE CreateCard(r) \/ SaveReply(r) \/ AttachArtifacts(r) \/ CompleteRun(r)
    BY <2>9 DEF CreateCard, SaveReply, AttachArtifacts, CompleteRun
  <2>10. QED
    BY <2>1, <2>2, <2>3, <2>4, <2>5, <2>6, <2>7, <2>8, <2>9 DEF Work, Serve
<1>2. CASE c = r /\ phase[r] = "carded"
  <2> USE <1>0, <1>2 DEF Go
  <2>1. CASE SaveUserMessage(r) \/ CreateRun(r) \/ StartReply(r) \/ NothingAwaiting(r)
    BY <2>1 DEF SaveUserMessage, CreateRun, StartReply, NothingAwaiting
  <2>2. CASE RefuseCard(r) \/ AcceptForm(r) \/ RefuseForm(r)
    BY <2>2 DEF RefuseCard, AcceptForm, RefuseForm
  <2>3. CASE RefreshCard(r) \/ ResumeRun(r) \/ StartResume(r)
    BY <2>3 DEF RefreshCard, ResumeRun, StartResume
  <2>4. CASE ApplyDecision(r) \/ DecisionNotAllowed(r) \/ AgentError(r)
    BY <2>4 DEF ApplyDecision, DecisionNotAllowed, AgentError
  <2>5. CASE PublishArtifact(r) \/ EndStream(r) \/ \E asks \in {"approval", "form"} : Interrupt(r, asks)
    BY <2>5 DEF PublishArtifact, EndStream, Interrupt
  <2>6. CASE SettleBeforeNext(r) \/ SettleAtEnd(r) \/ SettleFailed(r) \/ SettleCancelled(r)
    BY <2>6 DEF SettleBeforeNext, SettleAtEnd, SettleFailed, SettleCancelled
  <2>7. CASE CreateCard(r) \/ SaveReply(r) \/ AttachArtifacts(r) \/ CompleteRun(r)
    BY <2>7 DEF CreateCard, SaveReply, AttachArtifacts, CompleteRun
  <2>8. QED
    BY <2>1, <2>2, <2>3, <2>4, <2>5, <2>6, <2>7 DEF Work, Serve
<1>3. QED
  BY <1>0, <1>1, <1>2, PendingIsOwn

\* An undecided card stays chosen until it is decided, and is shown once it is issued.
LEMMA PendingStep ==
  ASSUME IInv, PageTyped, OneInv, NEW r \in Requests, Work(r), ServePage(r)
  PROVE  PendingIsHeld'
<1>0. /\ TypeOK /\ phase \in [Requests -> Phases] /\ req \in [Requests -> Locals]
      /\ card \in [Requests -> Cards] /\ DecisionsNameACard /\ PendingIsHeld /\ Sequential
      /\ HoldsChoice(r) /\ HoldsInterrupt(r) /\ WorksOnNewest(r)
  BY DEF IInv, TypeOK, OneInv, Relies
<1>1. /\ page.loading = r /\ ~Resting(r)
      /\ \A q \in Requests \ {r} : Resting(q) /\ Resting(q)'
  BY <1>0, WorkerIsAlone
<1> USE <1>0 DEF Go
<1>2. CASE FindAwaitingRun(r) \/ CheckCard(r)
  <2>1. /\ phase[r] \in {"received", "found"} /\ phase'[r] \in {"found", "checked"}
        /\ UNCHANGED <<card, run, runOrder, checkpoint>>
        /\ req'[r].kind = req[r].kind /\ req'[r].card = req[r].card
    BY <1>2 DEF FindAwaitingRun, CheckCard, database, graph, Locals
  <2>2. page'.loading = r
    BY <1>1, <2>1, PageStep DEF Resting
  <2>3. ASSUME NEW c \in Requests, card'[c].decision = "pending"
        PROVE  checkpoint' = Approval(c) /\ IsChosen(c)'
    <3>1. /\ checkpoint = Approval(c) /\ Chooses(r) /\ req[r].card = c
          /\ LatestAwaitingRun(card[c].run)
      BY <2>1, <2>3, PendingIsOwn
    <3>2. LatestAwaitingRun(card[c].run)'
      BY <2>1, <3>1 DEF LatestAwaitingRun
    <3>3. Chooses(r)'
      BY <2>1, <3>1 DEF Chooses
    <3>4. QED
      BY <2>1, <2>2, <3>1, <3>2, <3>3 DEF IsChosen
  <2>4. QED
    BY <2>3 DEF PendingIsHeld, Approval
<1>3. CASE Decide(r)
  <2>1. phase[r] = "checked"
    BY <1>3 DEF Decide
  <2>2. \A c \in Requests : card[c].decision = "pending" => c = req[r].card
    BY <2>1, PendingIsOwn
  <2>3. req[r].card \in Requests /\ req[r].kind \in {"approve", "reject"}
    BY <2>1 DEF DecisionsNameACard
  <2>4. /\ card'[req[r].card].decision # "pending"
        /\ \A c \in Requests \ {req[r].card} : card'[c] = card[c]
    BY <1>3, <2>3 DEF Decide, Cards
  <2>5. QED
    BY <2>2, <2>4 DEF PendingIsHeld
<1>4. CASE CreateCard(r)
  <2>1. /\ phase[r] = "settled" /\ phase'[r] = "carded" /\ req[r].asks = "approval"
        /\ UNCHANGED checkpoint
    BY <1>4 DEF CreateCard, graph
  <2>2. \A c \in Requests \ {r} : card'[c] = card[c]
    BY <1>4 DEF CreateCard
  <2>3. ~(FindAwaitingRun(r) \/ CheckCard(r) \/ Decide(r) \/ ParkRun(r))
    BY <2>1 DEF FindAwaitingRun, CheckCard, Decide, ParkRun
  <2>4. \A c \in Requests : card'[c].decision = "pending" => c = r
    BY <2>2, <2>3, NoPendingElsewhere
  <2>5. checkpoint' = Approval(r)
    BY <2>1 DEF HoldsInterrupt, Approval
  <2>6. page'.loading = r
    BY <1>1, <2>1, PageStep DEF Resting
  <2>7. QED
    BY <2>1, <2>4, <2>5, <2>6 DEF PendingIsHeld, IsIssued, Approval
<1>5. CASE ParkRun(r)
  <2>1. /\ phase[r] = IF req[r].asks = "approval" THEN "carded" ELSE "settled"
        /\ UNCHANGED <<card, runOrder, checkpoint, req>>
        /\ run' = [run EXCEPT ![req[r].run] = "awaiting_confirmation"]
    BY <1>5 DEF ParkRun, SetRun, graph
  <2>2. page'.loading = None /\ (req[r].asks = "approval" => page'.card = r)
    BY <1>5, PageStep
  <2>3. ASSUME NEW c \in Requests, card'[c].decision = "pending"
        PROVE  checkpoint' = Approval(c) /\ IsShown(c)'
    <3>1. checkpoint = Approval(c) /\ c = r /\ phase[r] = "carded"
      BY <2>1, <2>3, PendingIsOwn
    <3>2. req[r].asks = "approval" /\ card[r].run = req[r].run
      BY <2>1, <3>1 DEF HoldsInterrupt
    <3>3. req[r].run \in Requests /\ NoneAwaitsAfter(req[r].run)
      BY <3>1, RunExists DEF WorksOnNewest, Working, TryPhases
    <3>4. PICK i \in DOMAIN runOrder :
              /\ runOrder[i] = req[r].run
              /\ \A j \in DOMAIN runOrder : j > i =>
                     runOrder[j] # req[r].run /\ run[runOrder[j]] # "awaiting_confirmation"
      BY <3>3 DEF NoneAwaitsAfter
    <3>5. /\ run'[req[r].run] = "awaiting_confirmation"
          /\ \A j \in DOMAIN runOrder : j > i => run'[runOrder[j]] # "awaiting_confirmation"
      BY <2>1, <3>3, <3>4 DEF TypeOK
    <3>6. LatestAwaitingRun(card[c].run)'
      BY <2>1, <3>1, <3>2, <3>4, <3>5 DEF LatestAwaitingRun
    <3>7. QED
      BY <2>1, <2>2, <3>1, <3>2, <3>6 DEF IsShown
  <2>4. QED
    BY <2>3 DEF PendingIsHeld, Approval
<1>6. CASE ~(FindAwaitingRun(r) \/ CheckCard(r) \/ Decide(r) \/ ParkRun(r) \/ CreateCard(r))
  <2>1. \A c \in Requests : card[c].decision # "pending"
    BY <1>6, NoPendingElsewhere
  <2>2. \A c \in Requests : card'[c].decision = card[c].decision
    <3>1. CASE Settle(r)
      BY <3>1, SettleKeepsDecisions
    <3>2. CASE ~WritesCard(r)
      BY <3>2, CardTableKept
    <3>3. QED
      BY <1>6, <3>1, <3>2 DEF WritesCard, Settle
  <2>3. QED
    BY <2>1, <2>2, NonePending
<1>7. QED
  BY <1>2, <1>3, <1>4, <1>5, <1>6

\* The page shows the card of a parked run, and no form next to it.
LEMMA ShownStep ==
  ASSUME IInv, PageTyped, OneInv, NEW r \in Requests, Work(r), ServePage(r)
  PROVE  ShownIsPending'
<1>1. TypeOK /\ Sequential /\ ShownIsPending /\ HoldsInterrupt(r)
  BY DEF IInv, OneInv, Relies
<1>2. page.card = None /\ ~page.form
  BY <1>1, WorkerIsAlone DEF ShownIsPending
<1>3. CASE ParkRun(r)
  <2>1. /\ phase[r] = IF req[r].asks = "approval" THEN "carded" ELSE "settled"
        /\ UNCHANGED card
    BY <1>3 DEF ParkRun, Go
  <2>2. page'.loading = None /\ IF req[r].asks = "approval"
                                THEN page'.card = r /\ page'.form = page.form
                                ELSE page'.card = None
    BY <1>1, <1>3, PageStep
  <2>3. QED
    BY <1>1, <1>2, <2>1, <2>2 DEF ShownIsPending, HoldsInterrupt
<1>4. CASE ~ParkRun(r)
  BY <1>1, <1>2, <1>4, PageStep DEF ShownIsPending
<1>5. QED
  BY <1>3, <1>4

\* A step of the request in progress keeps the invariant.
LEMMA WorkStep ==
  ASSUME IInv, PageTyped, OneInv, NEW r \in Requests, Work(r), ServePage(r)
  PROVE  OneInv'
<1>0. TypeOK /\ Sequential
  BY DEF IInv, OneInv
<1>1. \A q \in Requests \ {r} : Resting(q)'
  BY <1>0, WorkerIsAlone
<1>2. Sequential'
  BY <1>0, <1>1, PageStep DEF Sequential
<1>3. \A q \in Requests : Relies(q)'
  <2>1. Relies(r)'
    BY InterruptStep, ChoiceStep, ApprovalStep, NewestStep, RunningStep DEF Relies
  <2>2. QED
    BY <1>1, <2>1, RestingRelies
<1>4. ShownIsPending' /\ PendingIsHeld'
  BY ShownStep, PendingStep
<1>5. CalledIsDecided' /\ ToolCalledAtMostOnce' /\ CompletedRunLeavesNoLooseArtifact'
  BY CallStep, LooseStep
<1>6. CardsListed'
  BY ListStep DEF OneInv
<1>7. RestoreIsQuiet' /\ AnswerIsCurrent'
  <2>1. RestoreDone
    BY <1>0, WorkerIsAlone DEF OneInv, RestoreIsQuiet
  <2>2. RestoreDone'
    BY <1>0, <2>1, PageStep DEF RestoreDone
  <2>3. QED
    BY <2>2 DEF RestoreIsQuiet, AnswerIsCurrent, RestoreDone
<1>8. QED
  BY <1>2, <1>3, <1>4, <1>5, <1>6, <1>7 DEF OneInv

\* A click of the user.
Ask(r) ==
    \/ SendFromPage(r) \/ SubmitFromPage(r)
    \/ \E kind \in {"approve", "reject"} : DecideFromPage(r, kind)

\* What a click begins: the page waits, and shows nothing to click on.
LEMMA AskEffect ==
  ASSUME OnePage, TypeOK, PageTyped, ShownIsPending, NEW r \in Requests, Ask(r)
  PROVE  /\ page.loading = None
         /\ RestoreDone /\ UNCHANGED restore
         /\ page' = [card |-> None, form |-> FALSE, loading |-> r, restored |-> TRUE]
         /\ phase[r] = "idle" /\ phase' = [phase EXCEPT ![r] = "received"]
         /\ UNCHANGED <<database, graph>>
         /\ \E kind \in Kinds, c \in Requests \cup {None} :
                /\ req' = [req EXCEPT ![r].kind = kind, ![r].card = c]
                /\ kind \in {"approve", "reject"} => c = page.card /\ c # None
                /\ kind \notin {"approve", "reject"} => page.card = None
<1> USE DEF Receive, Go, PageTyped, ShownIsPending, OnePage, MaySend, RestoreDone
<1>1. CASE SendFromPage(r)
  BY <1>1 DEF SendFromPage, Kinds
<1>2. CASE SubmitFromPage(r)
  BY <1>2 DEF SubmitFromPage, Kinds
<1>3. CASE \E kind \in {"approve", "reject"} : DecideFromPage(r, kind)
  BY <1>3 DEF DecideFromPage, Kinds
<1>4. QED
  BY <1>1, <1>2, <1>3 DEF Ask

\* A click keeps the invariant: a message is sent only when no card is undecided.
LEMMA AskStep ==
  ASSUME OnePage, IInv, PageTyped, OneInv, NEW r \in Requests, Ask(r)
  PROVE  OneInv'
<1>0. /\ TypeOK /\ phase \in [Requests -> Phases] /\ req \in [Requests -> Locals]
      /\ Sequential /\ ShownIsPending /\ PendingIsHeld
  BY DEF IInv, OneInv, TypeOK
<1>1. /\ page.loading = None
      /\ RestoreDone /\ UNCHANGED restore
      /\ page' = [card |-> None, form |-> FALSE, loading |-> r, restored |-> TRUE]
      /\ phase[r] = "idle" /\ phase' = [phase EXCEPT ![r] = "received"]
      /\ UNCHANGED <<run, runOrder, card, cardOrder, artifact, checkpoint, executed>>
  BY <1>0, AskEffect DEF database, graph
<1>2. PICK kind \in Kinds, c \in Requests \cup {None} :
          /\ req' = [req EXCEPT ![r].kind = kind, ![r].card = c]
          /\ kind \in {"approve", "reject"} => c = page.card /\ c # None
          /\ kind \notin {"approve", "reject"} => page.card = None
  BY <1>0, AskEffect
<1>3. /\ req'[r].kind = kind /\ req'[r].card = c /\ phase'[r] = "received"
      /\ \A q \in Requests : req'[q].run = req[q].run
      /\ \A q \in Requests \ {r} : Resting(q)'
  BY <1>0, <1>1, <1>2, NoneAssumption DEF Locals, Sequential, Resting
<1>4. Sequential'
  BY <1>1, <1>3 DEF Sequential
<1>5. ShownIsPending'
  BY <1>1 DEF ShownIsPending
<1>6. ASSUME NEW d \in Requests, card[d].decision = "pending"
      PROVE  checkpoint = Approval(d) /\ page.card = d /\ LatestAwaitingRun(card[d].run)
  BY <1>0, <1>1, <1>6, NoneAssumption DEF PendingIsHeld, IsShown, IsChosen, IsIssued, RestoreDone
<1>7. PendingIsHeld'
  <2>1. ASSUME NEW d \in Requests, card'[d].decision = "pending"
        PROVE  checkpoint' = Approval(d) /\ IsChosen(d)'
    <3>1. checkpoint = Approval(d) /\ page.card = d /\ LatestAwaitingRun(card[d].run)
      BY <1>1, <1>6, <2>1
    <3>2. kind \in {"approve", "reject"} /\ c = d
      BY <1>2, <3>1, NoneAssumption
    <3>3. LatestAwaitingRun(card[d].run)'
      BY <1>1, <3>1 DEF LatestAwaitingRun
    <3>4. QED
      BY <1>1, <1>3, <3>1, <3>2, <3>3 DEF IsChosen, Chooses
  <2>2. QED
    BY <2>1 DEF PendingIsHeld, Approval
<1>8. \A q \in Requests : Relies(q)'
  <2>1. HoldsChoice(r)'
    BY <1>0, <1>1, <1>2, <1>3 DEF HoldsChoice, Chooses, Undelivered, ShownIsPending
  <2>2. HoldsInterrupt(r)' /\ RunsApproval(r)' /\ WorksOnNewest(r)' /\ WorksOnRunning(r)'
    BY <1>3 DEF HoldsInterrupt, RunsApproval, Unsettled, Undelivered, Delivered,
       WorksOnNewest, Working, TryPhases, WorksOnRunning, OwesRun
  <2>3. QED
    BY <1>3, <2>1, <2>2, RestingRelies DEF Relies
<1>9. CalledIsDecided' /\ ToolCalledAtMostOnce' /\ CardsListed'
  BY <1>1 DEF OneInv, CalledIsDecided, Decided, ToolCalledAtMostOnce, CardsListed
<1>10. CompletedRunLeavesNoLooseArtifact'
  BY <1>1, <1>3 DEF OneInv, CompletedRunLeavesNoLooseArtifact
<1>11. RestoreIsQuiet' /\ AnswerIsCurrent'
  BY <1>1 DEF RestoreIsQuiet, AnswerIsCurrent, RestoreDone
<1>12. QED
  BY <1>4, <1>5, <1>7, <1>8, <1>9, <1>10, <1>11 DEF OneInv

\* The service answers with an undecided card when there is one.
LEMMA RestoredIsPending ==
  ASSUME TypeOK
  PROVE  \/ /\ RestoredCard = None
            /\ \A i \in DOMAIN cardOrder : card[cardOrder[i]].decision # "pending"
         \/ RestoredCard \in Requests /\ card[RestoredCard].decision = "pending"
<1>1. CASE PendingCards = {}
  BY <1>1 DEF PendingCards, RestoredCard
<1>2. CASE PendingCards # {}
  <2>1. PendingCards \subseteq Nat
    BY DEF PendingCards, TypeOK
  <2>2. PendingCards \in SUBSET Nat
    BY <2>1
  <2>3. \E i \in PendingCards : \A j \in PendingCards : i <= j
    BY <1>2, <2>2, Least, Zenon
  <2>4. (CHOOSE i \in PendingCards : \A j \in PendingCards : i <= j) \in PendingCards
    BY <2>3
  <2>5. QED
    BY <1>2, <2>4 DEF RestoredCard, PendingCards, TypeOK
<1>3. QED
  BY <1>1, <1>2
-----------------------------------------------------------------------------
(* The page's steps, whatever it is allowed and whatever fails. *)

\* A step of the page and the service leaves the page well-typed.
LEMMA PageTypeStep ==
  ASSUME TypeOK, PageTyped, [PageNext]_pageVars
  PROVE  PageTyped'
<1>1. CASE \E r \in Requests : Ask(r)
  BY <1>1 DEF Ask, SendFromPage, SubmitFromPage, DecideFromPage, PageTyped
<1>2. CASE \E r \in Requests : ShowInterrupt(r)
  <2>1. PICK r \in Requests : ShowInterrupt(r)
    BY <1>2
  <2>2. /\ UNCHANGED restore
        /\ \/ page' = page
           \/ page' = [page EXCEPT !.card = r, !.loading = None]
           \/ page' = [page EXCEPT !.card = None, !.form = TRUE, !.loading = None]
    BY <2>1 DEF ShowInterrupt
  <2>3. CASE page' = [page EXCEPT !.card = r, !.loading = None]
    BY <2>2, <2>3 DEF PageTyped
  <2>4. CASE page' = page
    BY <2>2, <2>4 DEF PageTyped
  <2>5. CASE page' = [page EXCEPT !.card = None, !.form = TRUE, !.loading = None]
    BY <2>2, <2>5 DEF PageTyped
  <2>6. QED
    BY <2>2, <2>3, <2>4, <2>5
<1>3. CASE \E r \in Requests : ServeQuietly(r)
  BY <1>3 DEF ServeQuietly, PageTyped
<1>4. CASE \E x \in Restores : Restore(x)
  <2>1. RestoredCard \in Requests \cup {None}
    BY RestoredIsPending
  <2>2. PICK x \in Restores : Restore(x)
    BY <1>4
  <2>3. CASE Reload(x)
    BY <2>3 DEF Reload, Asked, NotAsked, PageTyped
  <2>4. CASE SelectAgain(x)
    BY <2>4 DEF SelectAgain, Asked, PageTyped
  <2>5. CASE AnswerRestore(x)
    BY <2>1, <2>5 DEF AnswerRestore, PageTyped
  <2>6. CASE ShowRestored(x)
    BY <2>6 DEF ShowRestored, NotAsked, PageTyped
  <2>7. CASE RestoreFails(x)
    BY <2>7 DEF RestoreFails, NotAsked, PageTyped
  <2>8. QED
    BY <2>2, <2>3, <2>4, <2>5, <2>6, <2>7 DEF Restore
<1>5. CASE PageServed \/ UNCHANGED pageVars
  BY <1>5 DEF PageServed, pageVars, PageTyped
<1>6. QED
  BY <1>1, <1>2, <1>3, <1>4, <1>5 DEF PageNext, Fresh, Ask, ServePage

\* Selecting the conversation and restoring its card change nothing of the service.
LEMMA RestoreReads ==
  ASSUME NEW x \in Restores, Restore(x)
  PROVE  UNCHANGED vars
BY DEF Restore, Reload, SelectAgain, AnswerRestore, ShowRestored, RestoreFails

\* A step of the page and the service is a step of the service, or none.
LEMMA PageIsService ==
  ASSUME PageTyped, [PageNext]_pageVars
  PROVE  [Next]_vars
<1>1. CASE \E r \in Requests : SendFromPage(r) \/ SubmitFromPage(r)
  BY <1>1 DEF SendFromPage, SubmitFromPage, Next, Arrive
<1>2. CASE \E r \in Requests, kind \in {"approve", "reject"} : DecideFromPage(r, kind)
  <2>1. page.card # None => page.card \in Requests
    BY DEF PageTyped
  <2>2. QED
    BY <1>2, <2>1 DEF DecideFromPage, Next, Arrive
<1>3. CASE \E r \in Requests : ServePage(r)
  BY <1>3 DEF ServePage, ShowInterrupt, ServeQuietly, Serve, Next
<1>4. CASE (\E x \in Restores : Restore(x)) \/ PageServed \/ UNCHANGED pageVars
  BY <1>4, RestoreReads DEF PageServed, pageVars, Next
<1>5. QED
  BY <1>1, <1>2, <1>3, <1>4 DEF PageNext, Fresh

\* The invariants of the service hold of the service with a page.
THEOREM PageInvariance == PageSpec => [](IInv /\ PageTyped)
<1>1. PageInit => IInv /\ PageTyped
  BY InitInvariant DEF PageInit, PageTyped, NotAsked
<1>2. IInv /\ PageTyped /\ [PageNext]_pageVars => (IInv /\ PageTyped)'
  BY StepInvariant, PageIsService, PageTypeStep DEF IInv
<1>3. QED
  BY <1>1, <1>2, PTL DEF PageSpec

\* The page shows a card that exists, waits for a request that exists, and the
\* service's state is well-typed, for every set of requests, faults and
\* selections, whatever the user sends before the card is restored.
THEOREM PageTypeCorrect == PageSpec => []PageTypeOK
<1>1. IInv /\ PageTyped => PageTypeOK
  BY DEF IInv, PageTyped, PageTypeOK
<1>2. QED
  BY <1>1, PageInvariance, PTL
-----------------------------------------------------------------------------
(* The invariant of one page. *)

\* Between requests, the page and the undecided card.
LEMMA RestStep ==
  ASSUME TypeOK, PageTyped, OneInv, page.loading = None, UNCHANGED vars,
         page'.loading = None, ShownIsPending', RestoreIsQuiet', AnswerIsCurrent',
         \A c \in Requests : card[c].decision = "pending" /\ (page.restored => page.card = c)
                               => (page'.restored => page'.card = c)
  PROVE  OneInv'
<1>1. \A r \in Requests : Resting(r) /\ Resting(r)'
  BY NoneAssumption DEF OneInv, Sequential, Resting, vars
<1>2. Sequential' /\ \A r \in Requests : Relies(r)'
  BY <1>1, RestingRelies DEF Sequential
<1>3. PendingIsHeld'
  <2>1. ASSUME NEW c \in Requests, card'[c].decision = "pending"
        PROVE  checkpoint' = Approval(c) /\ IsShown(c)'
    <3>1. checkpoint = Approval(c) /\ IsShown(c)
      BY <2>1, NoneAssumption DEF vars, OneInv, PendingIsHeld, IsChosen, IsIssued
    <3>2. LatestAwaitingRun(card[c].run)'
      BY <3>1 DEF vars, IsShown, LatestAwaitingRun
    <3>3. QED
      BY <2>1, <3>1, <3>2 DEF vars, IsShown
  <2>2. QED
    BY <2>1 DEF PendingIsHeld, Approval
<1>4. CalledIsDecided' /\ ToolCalledAtMostOnce' /\ CardsListed'
  BY DEF vars, OneInv, CalledIsDecided, Decided, ToolCalledAtMostOnce, CardsListed
<1>5. CompletedRunLeavesNoLooseArtifact'
  BY DEF vars, OneInv, CompletedRunLeavesNoLooseArtifact
<1>6. QED
  BY <1>2, <1>3, <1>4, <1>5 DEF OneInv

\* What is restored is the undecided card: every card is in the list, only one can be
\* undecided, and until it is shown nothing is sent that could change that.
LEMMA RestoreStep ==
  ASSUME OnePage, TypeOK, PageTyped, OneInv, NEW x \in Restores, Restore(x)
  PROVE  OneInv'
<1>0. RestoreIsQuiet /\ AnswerIsCurrent /\ ShownIsPending
  BY DEF OneInv
<1>1. page.loading = None /\ UNCHANGED vars
  BY <1>0, RestoreReads DEF OnePage, Restore, Reload, SelectAgain, AnswerRestore, ShowRestored,
     RestoreFails, MaySelect, RestoreIsQuiet, RestoreDone
<1>2. RestoredCard' = RestoredCard
  BY <1>1 DEF RestoredCard, PendingCards, vars
<1>3. ASSUME NEW c \in Requests, card[c].decision = "pending"
      PROVE  RestoredCard = c
  <2>1. RestoredCard \in Requests /\ card[RestoredCard].decision = "pending"
    BY <1>3, RestoredIsPending DEF OneInv, CardsListed
  <2>2. checkpoint = Approval(c) /\ checkpoint = Approval(RestoredCard)
    BY <1>3, <2>1 DEF OneInv, PendingIsHeld
  <2>3. QED
    BY <2>2 DEF Approval
<1> USE DEF PageTyped, ShownIsPending, RestoreIsQuiet, AnswerIsCurrent
<1>4. CASE Reload(x)
  <2>1. /\ page' = [card |-> None, form |-> FALSE, loading |-> None, restored |-> FALSE]
        /\ \A y \in Restores : restore'[y].at # "answered"
    BY <1>4 DEF Reload, Asked, NotAsked
  <2>2. QED
    BY <1>1, <2>1, RestStep
<1>5. CASE SelectAgain(x)
  <2>1. /\ page'.card = None /\ page'.form = FALSE /\ page'.loading = page.loading
        /\ page'.restored = FALSE
        /\ \A y \in Restores : restore'[y].at = "answered" => restore'[y] = restore[y]
    BY <1>5 DEF SelectAgain, Asked
  <2>2. ShownIsPending' /\ RestoreIsQuiet' /\ AnswerIsCurrent'
    BY <1>0, <1>1, <1>2, <2>1
  <2>3. QED
    BY <1>1, <2>1, <2>2, RestStep
<1>6. CASE AnswerRestore(x)
  <2>1. /\ UNCHANGED page
        /\ restore'[x] = [at |-> "answered", card |-> RestoredCard]
        /\ \A y \in Restores \ {x} : restore'[y] = restore[y]
        /\ ~RestoreDone
    BY <1>6 DEF AnswerRestore, RestoreDone
  <2>2. ShownIsPending' /\ RestoreIsQuiet' /\ AnswerIsCurrent'
    BY <1>0, <1>1, <1>2, <2>1 DEF vars
  <2>3. QED
    BY <1>1, <2>1, <2>2, RestStep
<1>7. CASE ShowRestored(x)
  <2>1. /\ page'.card = RestoredCard /\ page'.form = page.form /\ page'.loading = page.loading
        /\ \A y \in Restores : restore'[y].at = "answered" => restore'[y] = restore[y]
        /\ ~page.form
    BY <1>0, <1>7 DEF ShowRestored, NotAsked, RestoreDone
  <2>2. ShownIsPending' /\ RestoreIsQuiet' /\ AnswerIsCurrent'
    BY <1>0, <1>1, <1>2, <2>1, RestoredIsPending, NoneAssumption DEF vars
  <2>3. QED
    BY <1>1, <1>3, <2>1, <2>2, RestStep
<1>8. CASE RestoreFails(x)
  <2>1. /\ UNCHANGED page
        /\ \A y \in Restores : restore'[y].at = "answered" => restore'[y] = restore[y]
        /\ ~RestoreDone
    BY <1>8 DEF RestoreFails, NotAsked, RestoreDone
  <2>2. ShownIsPending' /\ RestoreIsQuiet' /\ AnswerIsCurrent'
    BY <1>0, <1>1, <1>2, <2>1 DEF vars
  <2>3. QED
    BY <1>1, <2>1, <2>2, RestStep
<1>9. QED
  BY <1>4, <1>5, <1>6, <1>7, <1>8 DEF Restore

\* A step that changes nothing keeps the invariant.
LEMMA StillStep ==
  ASSUME OneInv, UNCHANGED pageVars
  PROVE  OneInv'
<1> USE DEF pageVars, vars
<1>1. Sequential' /\ ShownIsPending' /\ RestoreIsQuiet' /\ AnswerIsCurrent'
  BY DEF OneInv, Sequential, Resting, ShownIsPending, RestoreIsQuiet, RestoreDone, AnswerIsCurrent,
     RestoredCard, PendingCards
<1>2. PendingIsHeld'
  BY DEF OneInv, PendingIsHeld, Approval, IsShown, IsChosen, IsIssued, Chooses, LatestAwaitingRun
<1>3. ASSUME NEW r \in Requests PROVE Relies(r)'
  <2>1. HoldsInterrupt(r)' /\ HoldsChoice(r)' /\ RunsApproval(r)'
    BY DEF OneInv, Relies, HoldsInterrupt, HoldsChoice, Chooses, Approval, RunsApproval, Approving
  <2>2. WorksOnNewest(r)' /\ WorksOnRunning(r)'
    BY DEF OneInv, Relies, WorksOnNewest, NoneAwaitsAfter, WorksOnRunning
  <2>3. QED
    BY <2>1, <2>2 DEF Relies
<1>4. CalledIsDecided' /\ ToolCalledAtMostOnce' /\ CardsListed'
  BY DEF OneInv, CalledIsDecided, Decided, ToolCalledAtMostOnce, CardsListed
<1>5. CompletedRunLeavesNoLooseArtifact'
  BY DEF OneInv, CompletedRunLeavesNoLooseArtifact
<1>6. QED
  BY <1>1, <1>2, <1>3, <1>4, <1>5 DEF OneInv

\* Initially every request is idle and there is no card.
LEMMA OneInit ==
  ASSUME PageInit
  PROVE  OneInv
<1> USE DEF PageInit, Init
<1>1. \A r \in Requests : Resting(r) /\ phase[r] = "idle" /\ card[r].decision = "absent"
  BY DEF Resting
<1>2. Sequential /\ ShownIsPending /\ PendingIsHeld /\ CardsListed /\ RestoreIsQuiet /\ AnswerIsCurrent
  BY <1>1 DEF Sequential, ShownIsPending, PendingIsHeld, CardsListed, RestoreIsQuiet, RestoreDone,
     AnswerIsCurrent, NotAsked
<1>3. ASSUME NEW r \in Requests PROVE Relies(r)
  BY <1>1 DEF Relies, HoldsInterrupt, HoldsChoice, Undelivered, RunsApproval, Unsettled,
     Delivered, WorksOnNewest, Working, TryPhases, WorksOnRunning, OwesRun
<1>4. CalledIsDecided /\ ToolCalledAtMostOnce /\ CompletedRunLeavesNoLooseArtifact
  BY DEF CalledIsDecided, ToolCalledAtMostOnce, CompletedRunLeavesNoLooseArtifact
<1>5. QED
  BY <1>2, <1>3, <1>4 DEF OneInv

\* Every step of the page, of the request in progress and of the agent's failure keeps it.
LEMMA OneStep ==
  ASSUME OnePage, IInv, PageTyped, OneInv, [PageNext]_pageVars
  PROVE  OneInv'
<1>0. TypeOK
  BY DEF IInv
<1>1. CASE \E r \in Requests : Ask(r)
  BY <1>1, AskStep
<1>2. CASE \E r \in Requests : ServePage(r)
  <2>1. PICK r \in Requests : ServePage(r)
    BY <1>2
  <2>2. Work(r)
    BY <2>1, WorkIsAll DEF ServePage, ShowInterrupt, ServeQuietly, Serve
  <2>3. QED
    BY <2>1, <2>2, WorkStep
<1>3. CASE \E x \in Restores : Restore(x)
  BY <1>0, <1>3, RestoreStep
<1>4. CASE PageServed \/ UNCHANGED pageVars
  BY <1>4, StillStep DEF PageServed, AllServed, pageVars
<1>5. QED
  BY <1>1, <1>2, <1>3, <1>4 DEF PageNext, Fresh, Ask

\* The service with one page keeps the invariant, for any set of requests.
THEOREM OnePageInvariance ==
  ASSUME OnePage
  PROVE  PageSpec => [](IInv /\ PageTyped /\ OneInv)
<1>1. PageInit => OneInv
  BY OneInit
<1>2. IInv /\ PageTyped /\ OneInv /\ [PageNext]_pageVars => OneInv'
  BY OneStep
<1>3. QED
  BY <1>1, <1>2, PageInvariance, PTL DEF PageSpec
-----------------------------------------------------------------------------
(* The page's invariants. *)

\* No tool is called twice under one card.
THEOREM PageCallsOnce == OnePage => (PageSpec => []ToolCalledAtMostOnce)
<1>1. OneInv => ToolCalledAtMostOnce
  BY DEF OneInv
<1>2. ASSUME OnePage PROVE PageSpec => []ToolCalledAtMostOnce
  BY <1>1, <1>2, OnePageInvariance, PTL
<1>3. QED
  BY <1>2

\* A completed run leaves no artifact that a later reply could pick up.
THEOREM PageAttachesAll == OnePage => (PageSpec => []CompletedRunLeavesNoLooseArtifact)
<1>1. OneInv => CompletedRunLeavesNoLooseArtifact
  BY DEF OneInv
<1>2. ASSUME OnePage PROVE PageSpec => []CompletedRunLeavesNoLooseArtifact
  BY <1>1, <1>2, OnePageInvariance, PTL
<1>3. QED
  BY <1>2

\* A card that is shown is undecided, and its run still waits for the decision.
THEOREM PageShowsAwaited == OnePage => (PageSpec => []ShownCardIsAwaited)
<1>1. PageTyped /\ OneInv => ShownCardIsAwaited
  BY NoneAssumption DEF PageTyped, OneInv, ShownCardIsAwaited, ShownIsPending, PendingIsHeld,
     IsShown, IsChosen, IsIssued
<1>2. ASSUME OnePage PROVE PageSpec => []ShownCardIsAwaited
  BY <1>1, <1>2, OnePageInvariance, PTL
<1>3. QED
  BY <1>2
-----------------------------------------------------------------------------
(* The service and the page implement ApprovalCards. *)

CalledFor(c) == \E r \in Requests : <<r, c>> \in executed

\* The steps that neither write a card nor call a tool.
LEMMA PromiseKept ==
  ASSUME UNCHANGED <<card, executed>>
  PROVE  UNCHANGED Promise!cardVars
BY DEF Promise!cardVars

\* The card of an interrupt is issued once.
LEMMA IssueStep ==
  ASSUME IInv, NEW r \in Requests, CreateCard(r)
  PROVE  Promise!Issue(r)
<1>1. /\ card \in [Requests -> Cards] /\ phase[r] = "settled"
      /\ card' = [card EXCEPT ![r] = [run |-> req[r].run, decision |-> "pending",
                                      execution |-> "not_started"]]
      /\ UNCHANGED executed
  BY DEF IInv, TypeOK, CreateCard, Go, graph
<1>2. card[r].decision = "absent" /\ card[r].execution = "not_started"
  BY <1>1 DEF IInv, CardsAppearLate, CardPhases
<1>3. \A c \in Requests : /\ card'[c].decision = IF c = r THEN "pending" ELSE card[c].decision
                          /\ card'[c].execution = card[c].execution
  BY <1>1, <1>2
<1>4. QED
  BY <1>1, <1>2, <1>3 DEF Promise!Issue

\* A decision is made on an undecided card, and starts the tool if it approves.
LEMMA DecideStep ==
  ASSUME IInv, OneInv, NEW r \in Requests, Decide(r)
  PROVE  \E c \in Requests : Promise!Approve(c) \/ Promise!Reject(c)
<1> DEFINE e == IF Approving(r) THEN "running" ELSE "not_started"
<1>0. req[r].card \in Requests /\ req[r].kind \in {"approve", "reject"}
  BY DEF Decide, Go, IInv, DecisionsNameACard
<1>k. PICK k \in Requests : k = req[r].card
  BY <1>0
<1>1. /\ card \in [Requests -> Cards] /\ phase[r] = "checked" /\ UNCHANGED executed
      /\ card' = [card EXCEPT ![k].decision = req[r].kind,
                              ![k].execution = Flush(@, req[r].seen, e)]
  BY <1>k DEF IInv, TypeOK, Decide, Go, graph
<1>2. card[k].decision = "pending" /\ req[r].seen = card[k].execution
  BY <1>0, <1>k, <1>1 DEF OneInv, Relies, HoldsChoice, Chooses
<1>3. card[k].execution = "not_started"
  BY <1>2 DEF IInv, StatusFollowsDecision, Decided
<1>4. \A d \in Requests :
          /\ card'[d].decision = IF d = k THEN req[r].kind ELSE card[d].decision
          /\ card'[d].execution = IF d = k THEN e ELSE card[d].execution
  BY <1>1, <1>2 DEF Flush, Cards
<1>5. CASE req[r].kind = "approve"
  <2>1. e = "running"
    BY <1>5 DEF Approving
  <2>2. Promise!Approve(k)
    BY <1>1, <1>2, <1>4, <1>5, <2>1 DEF Promise!Approve
  <2>3. QED
    BY <2>2
<1>6. CASE req[r].kind = "reject"
  <2>1. e = "not_started"
    BY <1>6 DEF Approving
  <2>2. Promise!Reject(k)
    BY <1>1, <1>2, <1>3, <1>4, <1>6, <2>1 DEF Promise!Reject
  <2>3. QED
    BY <2>2
<1>7. QED
  BY <1>0, <1>5, <1>6

\* The delivery of an approval calls the tool of a running card, for the first time.
LEMMA ToolStep ==
  ASSUME IInv, OneInv, NEW r \in Requests, ApplyDecision(r)
  PROVE  UNCHANGED Promise!cardVars \/ \E c \in Requests : Promise!CallTool(c)
<1>1. /\ phase[r] = "answering" /\ UNCHANGED card
      /\ executed' = IF Approving(r) THEN executed \cup {<<r, req[r].view.of>>} ELSE executed
  BY DEF ApplyDecision, Go, database
<1>2. CASE ~Approving(r)
  BY <1>1, <1>2, PromiseKept
<1>3. CASE Approving(r)
  <2>1. PICK k \in Requests : k = req[r].card
    BY <1>3 DEF IInv, DecisionsNameACard, Approving
  <2>2. req[r].view = Approval(k) /\ \A x \in executed : x[2] # k
    BY <1>1, <1>3, <2>1 DEF OneInv, Relies, HoldsChoice, Chooses, Approving, Undelivered
  <2>3. card[k].execution = "running"
    BY <1>1, <1>3, <2>1 DEF OneInv, Relies, RunsApproval, Unsettled, Undelivered
  <2>4. executed' = executed \cup {<<r, k>>}
    BY <1>1, <1>3, <2>2 DEF Approval
  <2>5. ~CalledFor(k)
    <3>1. ASSUME NEW q \in Requests, <<q, k>> \in executed PROVE FALSE
      <4>1. <<q, k>>[2] # k
        BY <2>2, <3>1
      <4>2. QED
        BY <4>1
    <3>2. QED
      BY <3>1 DEF CalledFor
  <2>6. \A d \in Requests : CalledFor(d)' <=> d = k \/ CalledFor(d)
    BY <2>4 DEF CalledFor
  <2>7. Promise!CallTool(k)
    BY <1>1, <2>3, <2>5, <2>6 DEF Promise!CallTool, CalledFor
  <2>8. QED
    BY <2>7
<1>4. QED
  BY <1>2, <1>3

\* An outcome is recorded of a running card; a success, of a call that was made.
LEMMA OutcomeStep ==
  ASSUME IInv, OneInv, NEW r \in Requests, Settle(r)
  PROVE  \E c \in Requests, outcome \in Promise!Outcomes : Promise!Settle(c, outcome)
<1>1. PICK outcome \in Promise!Outcomes :
          /\ SetExecution(r, outcome) /\ UNCHANGED executed
          /\ phase[r] \in {"interrupted", "completed", "failing", "cancelling"}
          /\ outcome = "succeeded" => phase[r] \in {"interrupted", "completed"}
  BY DEF Settle, SettleBeforeNext, SettleAtEnd, SettleFailed, SettleCancelled, Go, graph,
     Promise!Outcomes
<1>2. Approving(r) /\ req[r].card \in Requests /\ card \in [Requests -> Cards]
  BY <1>1 DEF IInv, TypeOK, SettlersApprove, Settling, DecisionsNameACard, Approving
<1>k. PICK k \in Requests : k = req[r].card
  BY <1>2
<1>3. card[k].execution = "running" /\ req[r].seen = "running"
  BY <1>1, <1>2, <1>k DEF OneInv, Relies, RunsApproval, Unsettled, Delivered
<1>4. outcome = "succeeded" => \E x \in executed : x[2] = k
  BY <1>1, <1>2, <1>k DEF OneInv, Relies, RunsApproval, Delivered
<1>5. outcome = "succeeded" => CalledFor(k)
  <2>1. ASSUME NEW x \in executed, x[2] = k PROVE CalledFor(k)
    <3>1. x[1] \in Requests /\ x = <<x[1], k>>
      BY <2>1 DEF IInv, TypeOK
    <3>2. QED
      BY <3>1 DEF CalledFor
  <2>2. QED
    BY <1>4, <2>1
<1>6. card' = [card EXCEPT ![k].execution = outcome]
  BY <1>1, <1>3, <1>k DEF SetExecution, Flush, Promise!Outcomes
<1>7. \A d \in Requests :
          /\ card'[d].decision = card[d].decision
          /\ card'[d].execution = IF d = k THEN outcome ELSE card[d].execution
  BY <1>2, <1>6 DEF Cards
<1>8. Promise!Settle(k, outcome)
  BY <1>1, <1>3, <1>5, <1>7 DEF Promise!Settle, CalledFor
<1>9. QED
  BY <1>8

\* Every step of the service with one page is a step of the cards, or none.
LEMMA PromiseStep ==
  ASSUME OnePage, IInv, PageTyped, OneInv, [PageNext]_pageVars
  PROVE  [Promise!CardsNext]_(Promise!cardVars)
<1>1. CASE \E r \in Requests : Ask(r)
  <2>1. UNCHANGED <<card, executed>>
    BY <1>1, AskEffect DEF IInv, OneInv, database, graph
  <2>2. QED
    BY <2>1, PromiseKept
<1>2. CASE \E r \in Requests : ServePage(r)
  <2>1. PICK r \in Requests : ServePage(r)
    BY <1>2
  <2>2. Work(r)
    BY <2>1, WorkIsAll DEF ServePage, ShowInterrupt, ServeQuietly, Serve
  <2>3. CASE CreateCard(r)
    BY <2>3, IssueStep DEF Promise!CardsNext
  <2>4. CASE Decide(r)
    BY <2>4, DecideStep DEF Promise!CardsNext
  <2>5. CASE Settle(r)
    BY <2>5, OutcomeStep DEF Promise!CardsNext
  <2>6. CASE ApplyDecision(r)
    BY <2>6, ToolStep DEF Promise!CardsNext
  <2>7. CASE ~(WritesCard(r) \/ ApplyDecision(r))
    BY <2>2, <2>7, CardTableKept, ExecutedKept, PromiseKept
  <2>8. QED
    BY <2>3, <2>4, <2>5, <2>6, <2>7 DEF WritesCard, Settle
<1>3. CASE (\E x \in Restores : Restore(x)) \/ PageServed \/ UNCHANGED pageVars
  <2>1. UNCHANGED <<card, executed>>
    BY <1>3, RestoreReads DEF PageServed, AllServed, pageVars, vars
  <2>2. QED
    BY <2>1, PromiseKept
<1>4. QED
  BY <1>1, <1>2, <1>3 DEF PageNext, Fresh, Ask

\* One page, whatever it shows, reloads and clicks, and however often the agent fails:
\* no card is decided twice, no tool is called without an approval or twice, and no
\* success is recorded of a call that was never made.
THEOREM PageImplementsCards == OnePage => (PageSpec => CardsKeepTheirPromise)
<1>1. PageInit => Promise!CardsInit
  BY DEF PageInit, Init, Promise!CardsInit
<1>2. ASSUME OnePage PROVE PageSpec => CardsKeepTheirPromise
  <2>1. IInv /\ PageTyped /\ OneInv /\ [PageNext]_pageVars
            => [Promise!CardsNext]_(Promise!cardVars)
    BY <1>2, PromiseStep
  <2>2. QED
    BY <1>1, <1>2, <2>1, OnePageInvariance, PTL DEF PageSpec, CardsKeepTheirPromise,
       Promise!CardsSpec
<1>3. QED
  BY <1>2
-----------------------------------------------------------------------------
(* What the cards promise, of the tables of the service.  Without the      *)
(* hypothesis each of the three is violated.                               *)

\* A step of the cards keeps what is decided and what has succeeded, and records a success
\* only of a call that was made.
LEMMA CardsStep ==
  ASSUME IInv, [Promise!CardsNext]_(Promise!cardVars), NEW c \in Requests
  PROVE  /\ Decided(c) => card'[c].decision = card[c].decision
         /\ card[c].execution = "succeeded" => card'[c].execution = "succeeded"
         /\ CalledFor(c) => CalledFor(c)'
         /\ card'[c].execution = "succeeded" /\ card[c].execution # "succeeded" => CalledFor(c)
<1>1. CASE UNCHANGED Promise!cardVars
  <2>1. /\ card'[c].decision = card[c].decision /\ card'[c].execution = card[c].execution
        /\ CalledFor(c)' <=> CalledFor(c)
    BY <1>1 DEF Promise!cardVars, CalledFor
  <2>2. QED
    BY <2>1
<1>2. CASE Promise!CardsNext
  <2>1. PICK d \in Requests :
            \/ Promise!Issue(d) \/ Promise!Approve(d) \/ Promise!Reject(d) \/ Promise!CallTool(d)
            \/ \E outcome \in Promise!Outcomes : Promise!Settle(d, outcome)
    BY <1>2 DEF Promise!CardsNext
  <2>2. card[c].execution = "succeeded" => Decided(c)
    BY DEF IInv, StatusFollowsDecision
  <2>3. CASE Promise!Issue(d)
    BY <2>3 DEF Promise!Issue, Decided, CalledFor
  <2>4. CASE Promise!Approve(d)
    BY <2>2, <2>4 DEF Promise!Approve, Decided, CalledFor
  <2>5. CASE Promise!Reject(d)
    BY <2>5 DEF Promise!Reject, Decided, CalledFor
  <2>6. CASE Promise!CallTool(d)
    BY <2>6 DEF Promise!CallTool, Decided, CalledFor
  <2>7. CASE \E outcome \in Promise!Outcomes : Promise!Settle(d, outcome)
    BY <2>7 DEF Promise!Settle, Promise!Outcomes, Decided, CalledFor
  <2>8. QED
    BY <2>1, <2>3, <2>4, <2>5, <2>6, <2>7
<1>3. QED
  BY <1>1, <1>2

\* A decision, once stored, is never replaced by another one.
THEOREM PageDecidesOnce == OnePage => (PageSpec => DecisionIsFinal)
<1> DEFINE Final == \A c \in Requests : Decided(c) => card'[c].decision = card[c].decision
<1>1. ASSUME OnePage PROVE PageSpec => DecisionIsFinal
  <2>1. IInv /\ PageTyped /\ OneInv /\ [PageNext]_pageVars => [Final]_pageVars
    BY <1>1, PromiseStep, CardsStep
  <2>2. QED
    BY <1>1, <2>1, OnePageInvariance, PTL DEF PageSpec, DecisionIsFinal
<1>2. QED
  BY <1>1

\* A recorded success is never replaced by another outcome.
THEOREM PageKeepsSuccess == OnePage => (PageSpec => SuccessIsFinal)
<1> DEFINE Final == \A c \in Requests :
                       card[c].execution = "succeeded" => card'[c].execution = "succeeded"
<1>1. ASSUME OnePage PROVE PageSpec => SuccessIsFinal
  <2>1. IInv /\ PageTyped /\ OneInv /\ [PageNext]_pageVars => [Final]_vars
    BY <1>1, PromiseStep, CardsStep
  <2>2. QED
    BY <1>1, <2>1, OnePageInvariance, PTL DEF PageSpec, SuccessIsFinal
<1>2. QED
  BY <1>1

\* A success is recorded only of a call that was made.
THEOREM PageRecordsCalls == OnePage => (PageSpec => []SucceededMeansCalled)
<1>1. PageInit => SucceededMeansCalled
  BY DEF PageInit, Init, SucceededMeansCalled
<1>2. ASSUME OnePage PROVE PageSpec => []SucceededMeansCalled
  <2>1. IInv /\ PageTyped /\ OneInv /\ SucceededMeansCalled /\ [PageNext]_pageVars
            => SucceededMeansCalled'
    <3> SUFFICES ASSUME IInv, PageTyped, OneInv, SucceededMeansCalled, [PageNext]_pageVars,
                        NEW c \in Requests, card'[c].execution = "succeeded"
                 PROVE  CalledFor(c)'
      BY DEF SucceededMeansCalled, CalledFor
    <3>1. card[c].execution = "succeeded" => CalledFor(c)
      BY DEF SucceededMeansCalled, CalledFor
    <3>2. [Promise!CardsNext]_(Promise!cardVars)
      BY <1>2, PromiseStep
    <3>3. QED
      BY <3>1, <3>2, CardsStep
  <2>2. QED
    BY <1>1, <1>2, <2>1, OnePageInvariance, PTL DEF PageSpec
<1>3. QED
  BY <1>2
=============================================================================
