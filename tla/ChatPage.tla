------------------------------ MODULE ChatPage ------------------------------
(***************************************************************************)
(* The service driven by one chat page (src/frontend/src/App.vue): the     *)
(* page sends one request at a time (loading), disables the message box    *)
(* while a confirmation card or a form is shown, and decides only the card *)
(* it shows.  When the conversation is selected, in a new page or again in *)
(* this one, the page clears what it shows and asks the service for the    *)
(* pending cards; the answer comes later, or not at all, and until then    *)
(* the message box is enabled.  Every server step is ToolApproval's; this  *)
(* module adds what the page shows and which requests it makes.            *)
(***************************************************************************)
EXTENDS ToolApproval

CONSTANTS
    ReloadWhileLoading,  \* may the conversation be selected during a request?
    SendUnrestored,      \* may the user send before the pending card is restored?
    Restores             \* bound: selections whose answer is under way at once

ASSUME ReloadAssumption == ReloadWhileLoading \in BOOLEAN /\ SendUnrestored \in BOOLEAN

VARIABLES
    page,     \* shown card, shown form, the request loading waits for, and whether
              \* a selection of the conversation has been answered since it cleared the page
    restore   \* the selections under way, with the card the service found for them
pageVars == <<vars, page, restore>>

PageTypeOK ==
    /\ TypeOK
    /\ page \in [card : Requests \cup {None}, form : BOOLEAN,
                 loading : Requests \cup {None}, restored : BOOLEAN]
    /\ restore \in [Restores -> [at : {"none", "asked", "answered"},
                                 card : Requests \cup {None}]]

NotAsked == [at |-> "none", card |-> None]
Asked == [at |-> "asked", card |-> None]

PageInit ==
    /\ Init
    /\ page = [card |-> None, form |-> FALSE, loading |-> None, restored |-> TRUE]
    /\ restore = [x \in Restores |-> NotAsked]

(* Mutants: definitions below with a plausible bug in them, in no specification. *)

\* PendingCards without its decision filter.
AllCards == DOMAIN cardOrder

\* RestoredCard taking the list for the card.
RestoredList == cardOrder

\* SendFromPage with the sender left enabled while a card is shown.
SendOverCard(r) ==
    /\ page.loading = None
    /\ ~page.form
    /\ Receive(r, "send", None)
    /\ page' = [page EXCEPT !.loading = r]
    /\ UNCHANGED restore

\* DecideFromPage with a card that stays clickable.
ClickAgain(r, kind) ==
    /\ page.card # None
    /\ Receive(r, kind, page.card)
    /\ page' = [page EXCEPT !.loading = r]
    /\ UNCHANGED restore
-----------------------------------------------------------------------------
\* listPendingToolConfirmations returns them oldest first; the page takes [0].
PendingCards == {i \in DOMAIN cardOrder : card[cardOrder[i]].decision = "pending"}
RestoredCard ==
    IF PendingCards = {} THEN None
    ELSE cardOrder[CHOOSE i \in PendingCards : \A j \in PendingCards : i <= j]

\* No answer is under way, and the last selection was answered.  The code does not ask
\* for this: it is what the constant SendUnrestored says of the user.
RestoreDone == page.restored /\ \A x \in Restores : restore[x].at = "none"
MaySend == page.loading = None /\ (RestoreDone \/ SendUnrestored)

\* send(): the sender is disabled while a card or a form is shown.
SendFromPage(r) ==
    /\ MaySend
    /\ page.card = None
    /\ ~page.form
    /\ Receive(r, "send", None)
    /\ page' = [page EXCEPT !.loading = r]
    /\ UNCHANGED restore

\* resolveConfirmation(action): the card disappears at the click.
DecideFromPage(r, kind) ==
    /\ MaySend
    /\ page.card # None
    /\ Receive(r, kind, page.card)
    /\ page' = [page EXCEPT !.loading = r, !.card = None]
    /\ UNCHANGED restore

\* submitForm(): the form disappears at the click.
SubmitFromPage(r) ==
    /\ MaySend
    /\ page.form
    /\ Receive(r, "respond", None)
    /\ page' = [page EXCEPT !.loading = r, !.form = FALSE]
    /\ UNCHANGED restore

\* selectConversation: card and form are cleared, then three GETs are awaited.  The form
\* is not among what they restore.  A reload drops what the old page was waiting for; a
\* click on the conversation keeps loading.
MaySelect == page.loading = None \/ ReloadWhileLoading

Reload(x) ==
    /\ MaySelect
    /\ page' = [card |-> None, form |-> FALSE, loading |-> None, restored |-> FALSE]
    /\ restore' = [y \in Restores |-> IF y = x THEN Asked ELSE NotAsked]
    /\ UNCHANGED vars

SelectAgain(x) ==
    /\ MaySelect
    /\ restore[x].at = "none"
    /\ page' = [page EXCEPT !.card = None, !.form = FALSE, !.restored = FALSE]
    /\ restore' = [restore EXCEPT ![x] = Asked]
    /\ UNCHANGED vars

AnswerRestore(x) ==
    /\ restore[x].at = "asked"
    /\ restore' = [restore EXCEPT ![x] = [at |-> "answered", card |-> RestoredCard]]
    /\ UNCHANGED <<vars, page>>

ShowRestored(x) ==
    /\ restore[x].at = "answered"
    /\ page' = [page EXCEPT !.card = restore[x].card, !.restored = TRUE]
    /\ restore' = [restore EXCEPT ![x] = NotAsked]
    /\ UNCHANGED vars

\* One of the three GETs fails: the error is shown, and nothing is restored.
RestoreFails(x) ==
    /\ restore[x].at # "none"
    /\ restore' = [restore EXCEPT ![x] = NotAsked]
    /\ UNCHANGED <<vars, page>>

Restore(x) ==
    Reload(x) \/ SelectAgain(x) \/ AnswerRestore(x) \/ ShowRestored(x) \/ RestoreFails(x)

\* handleEvent and the finally block of the request the page waits for.
ShowInterrupt(r) ==
    /\ ParkRun(r)
    /\ page' = IF page.loading # r THEN page
               ELSE IF req[r].asks = "approval"
                    THEN [page EXCEPT !.card = r, !.loading = None]
                    ELSE [page EXCEPT !.card = None, !.form = TRUE, !.loading = None]
    /\ UNCHANGED restore

\* Any other server step; the stream's end clears loading.
ServeQuietly(r) ==
    /\ Serve(r) \/ Fault(r)
    /\ ~ParkRun(r)
    /\ page' = IF page.loading = r /\ phase'[r] \in {"done", "lost"}
               THEN [page EXCEPT !.loading = None] ELSE page
    /\ UNCHANGED restore

ServePage(r) == ShowInterrupt(r) \/ ServeQuietly(r)

\* The next unused request name: which one the page takes is immaterial.
Fresh ==
    LET idle == {r \in Requests : phase[r] = "idle"}
    IN  IF idle = {} THEN {} ELSE {CHOOSE r \in idle : TRUE}

PageServed == AllServed /\ UNCHANGED <<page, restore>>

PageNext ==
    \/ \E r \in Fresh : \/ SendFromPage(r)
                        \/ \E kind \in {"approve", "reject"} : DecideFromPage(r, kind)
                        \/ SubmitFromPage(r)
    \/ \E r \in Requests : ServePage(r)
    \/ \E x \in Restores : Restore(x)
    \/ PageServed

PageSpec ==
    /\ PageInit
    /\ [][PageNext]_pageVars
    /\ \A r \in Requests : WF_pageVars(ServePage(r))
-----------------------------------------------------------------------------
\* The confirmation cards as the user knows them.
Promise == INSTANCE ApprovalCards WITH
    Cards     <- Requests,
    decision  <- [c \in Requests |-> card[c].decision],
    execution <- [c \in Requests |-> card[c].execution],
    called    <- [c \in Requests |-> \E r \in Requests : <<r, c>> \in executed]

\* One page, whatever it shows, restores and clicks, gets what the cards promise, as
\* long as nothing is sent before the pending card is restored: no card is decided twice,
\* no rejected tool is called, no tool is called twice or under another card's approval,
\* no success is recorded of a call that was never made.
CardsKeepTheirPromise == Promise!CardsSpec

\* A decision, once stored, is never replaced by another one.
DecisionIsFinal ==
    [][\A c \in Requests : Decided(c) => card'[c].decision = card[c].decision]_pageVars

\* A protected tool is called at most once per interrupt.
ToolCalledAtMostOnce ==
    \A x, y \in executed : x[2] = y[2] => x[1] = y[1]

\* A card whose tool is running reaches an outcome.
ApprovedCardSettles ==
    \A c \in Requests :
        card[c].execution = "running" ~> card[c].execution \in Executions \ {"not_started", "running"}

\* A run that works is eventually over or waiting for the user.
RunStops == \A q \in Requests : run[q] = "running" ~> run[q] # "running"

\* Artifacts of a completed run are all attached to a reply: no later reply of
\* the conversation can pick them up.
CompletedRunLeavesNoLooseArtifact ==
    \A a \in Requests : artifact[a] = "loose" => run[req[a].run] # "completed"

\* The page shows only a card that is undecided and whose run still waits for
\* it: a click on what the user sees is never refused.
ShownCardIsAwaited ==
    page.card # None =>
        LatestAwaitingRun(card[page.card].run) /\ card[page.card].decision = "pending"
=============================================================================
