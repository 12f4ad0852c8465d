---------------------------- MODULE ApprovalCards ----------------------------
(***************************************************************************)
(* What the confirmation cards promise the user, with no requests, runs,   *)
(* commits or checkpoints: a card is issued once, decided once, a rejected *)
(* card's tool is never called, an approved card's tool is called at most  *)
(* once, and "succeeded" is recorded only of a call that was made.         *)
(* ChatPage shows that the service and the page together implement this.   *)
(***************************************************************************)
CONSTANT Cards

VARIABLES
    decision,    \* what the user decided on each card
    execution,   \* what is recorded of its tool call
    called       \* whether its tool was called

cardVars == <<decision, execution, called>>

Outcomes == {"succeeded", "failed", "cancelled"}

CardsTypeOK ==
    /\ decision \in [Cards -> {"absent", "pending", "approve", "reject"}]
    /\ execution \in [Cards -> {"not_started", "running"} \cup Outcomes]
    /\ called \in [Cards -> BOOLEAN]

CardsInit ==
    /\ decision = [c \in Cards |-> "absent"]
    /\ execution = [c \in Cards |-> "not_started"]
    /\ called = [c \in Cards |-> FALSE]

Issue(c) ==
    /\ decision[c] = "absent"
    /\ decision' = [decision EXCEPT ![c] = "pending"]
    /\ UNCHANGED <<execution, called>>

Approve(c) ==
    /\ decision[c] = "pending"
    /\ decision' = [decision EXCEPT ![c] = "approve"]
    /\ execution' = [execution EXCEPT ![c] = "running"]
    /\ UNCHANGED called

Reject(c) ==
    /\ decision[c] = "pending"
    /\ decision' = [decision EXCEPT ![c] = "reject"]
    /\ UNCHANGED <<execution, called>>

CallTool(c) ==
    /\ execution[c] = "running"
    /\ ~called[c]
    /\ called' = [called EXCEPT ![c] = TRUE]
    /\ UNCHANGED <<decision, execution>>

Settle(c, outcome) ==
    /\ execution[c] = "running"
    /\ outcome = "succeeded" => called[c]
    /\ execution' = [execution EXCEPT ![c] = outcome]
    /\ UNCHANGED <<decision, called>>

CardsNext ==
    \E c \in Cards : \/ Issue(c) \/ Approve(c) \/ Reject(c) \/ CallTool(c)
                     \/ \E outcome \in Outcomes : Settle(c, outcome)

CardsSpec == CardsInit /\ [][CardsNext]_cardVars
=============================================================================
