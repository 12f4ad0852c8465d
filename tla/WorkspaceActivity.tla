------------------------- MODULE WorkspaceActivity --------------------------
(***************************************************************************)
(* The workspaces, with one more thing remembered: how long ago each       *)
(* conversation was last touched, that is, when touch last returned for a  *)
(* message or a decision.  The documents promise a directory to be kept    *)
(* for the retention after that; the cleanup decides by the activity row.  *)
(***************************************************************************)
EXTENDS Workspace

VARIABLE asked   \* history: the time since the newest message or decision

Touched(c) == \E r \in Requests : Mine(r) = c /\ (InsertActivity(r) \/ KeepActivity(r))

Remembered == asked' = [c \in Conversations |->
                           IF Touched(c) THEN 0
                           ELSE IF Tick /\ asked[c] <= Retention THEN asked[c] + 1
                           ELSE asked[c]]

ActivityInit == Init /\ asked = [c \in Conversations |-> 0]
ActivityNext == Next /\ Remembered
ActivitySpec == ActivityInit /\ [][ActivityNext]_<<vars, asked>>
-----------------------------------------------------------------------------
\* README.md: a directory is kept for two days after the last activity, so a pass of the
\* cleanup lists none that was asked something since.  touch assigns the staff id the row
\* already has, which changes no column: no UPDATE is emitted, and last_activity_at stays
\* at the time of the first message.
KeptSinceLastActivity ==
    [][ListExpired => \A c \in Expired : asked[c] > Retention]_<<vars, asked>>
=============================================================================
