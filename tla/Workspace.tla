----------------------------- MODULE Workspace ------------------------------
(***************************************************************************)
(* The directories of the conversations in the shared sandbox, the rows    *)
(* that record their activity, the artifacts published from them, and who  *)
(* works on them at the same time: agent runs with their commands, the     *)
(* deletion of a conversation, and the hourly cleanup                      *)
(* (src/src/sandbox/, conversation_service.py, workspace_artifact.py).     *)
(*                                                                         *)
(* Ages: an activity row keeps last_activity_at; the model keeps the time  *)
(* since then, up to Retention + 1, which is all that `expired` compares,  *)
(* and for an artifact the time left until expires_at.                     *)
(*                                                                         *)
(* The sandbox pod is external: the set of paths that exist on it.         *)
(***************************************************************************)
EXTENDS RuntimePaths

CONSTANTS
    Requests,       \* the HTTP requests, each used once
    Artifacts,      \* artifact ids
    None,           \* no row, no conversation
    Retention,      \* workspace_retention_seconds, in ticks of the clock
    LogicalPaths,   \* the paths the agent publishes
    ShellPaths,     \* paths outside the aliases that a shell command may reach
    Unplaceable,    \* conversations that may have a staff id which _STAFF_ID refuses
    FaultKinds,     \* which of the faults below happen
    MaxFaults       \* bound: how many of them

ASSUME NoneAssumption == None \notin Conversations \cup 0 .. Retention + 1
ASSUME RetentionAssumption == Retention \in Nat \ {0}
ASSUME BoundsAssumption == MaxFaults \in Nat
ASSUME PathsAssumption == LogicalPaths \subseteq Seq(STRING)

\* outage: the sandbox is unreachable for a while.  rebuild: the pod is replaced
\* by an empty one.  restart: the process dies and starts again.  database: a
\* statement of the cleanup task fails.  removal: rm -rf ends with an error.
\* trespass: a command works outside the directories of its own conversation.
ASSUME FaultsAssumption ==
    FaultKinds \subseteq {"outage", "rebuild", "restart", "database", "removal", "trespass"}

VARIABLES
    conversation,   \* ai_agent_conversation
    refused,        \* those of the conversations with a staff id that _STAFF_ID refuses
    activity,       \* ai_agent_conversation_workspaces: age of last_activity_at
    artifact,       \* ai_agent_sandbox_artifacts
    pod,            \* external: the paths that exist in the sandbox
    podUp,          \* external: the sandbox answers
    request,        \* what each worker does
    sweep,          \* the cleanup task
    faults,         \* history: how many faults happened, and to whom
    overtaken       \* history: conversations whose removal met another user of
                    \* the directory, or whose deletion could not reach it

rows == <<conversation, activity, artifact>>
vars == <<conversation, refused, activity, artifact, pod, podUp, request, sweep,
          faults, overtaken>>
-----------------------------------------------------------------------------
Ages == 0 .. Retention + 1
NoArtifact == [of |-> None, path |-> Refused, left |-> 0]
Unused == [at |-> "idle", of |-> None, path |-> Refused]
Finished == [at |-> "done", of |-> None, path |-> Refused]
Asleep == [at |-> "asleep", listed |-> {}, now |-> None]

\* The awaits of send and confirm_tool, of a deletion, and of a command that
\* still runs in its thread after its request was cancelled.
RunPhases == {"inserting", "updating", "running", "executing", "publishing",
              "abandoned"}
DeletePhases == {"releasing", "released"}

TypeOK ==
    /\ conversation \in [Conversations -> {"absent", "live", "deleted"}]
    /\ refused \subseteq Unplaceable
    /\ activity \in [Conversations -> Ages \cup {None}]
    /\ \A a \in Artifacts :
           /\ artifact[a].of \in Conversations \cup {None}
           /\ artifact[a].left \in 0 .. Retention
    \* Every file lies in a conversation's directory, in the skills they share, or
    \* where a shell command strayed.
    /\ \A p \in pod : \/ \E c \in Conversations : IsStrictPrefix(Workspace(c), p)
                      \/ IsPrefix(SkillPackages, p)
                      \/ p \in ShellPaths
    /\ podUp \in BOOLEAN
    /\ \A r \in Requests :
           /\ request[r].at \in {"idle", "done"} \cup RunPhases \cup DeletePhases
           /\ request[r].of \in Conversations \cup {None}
    /\ sweep \in [at : {"asleep", "sweeping", "removed", "dead"},
                  listed : SUBSET Conversations, now : Conversations \cup {None}]
    /\ faults \in [total : 0 .. MaxFaults, database : BOOLEAN,
                   unremoved : SUBSET Conversations, trespassed : SUBSET Conversations]
    /\ overtaken \subseteq Conversations

\* What is lost in a fault is said by the action that has it.
Fault(kind) == kind \in FaultKinds /\ faults.total < MaxFaults
Counted == [faults EXCEPT !.total = @ + 1]

\* Mutant, in no specification: rm -rf of the staff member's directory.
RemoveStaff(c) ==
    /\ pod' = pod \ {p \in pod : IsPrefix(WorkspaceRoot \o <<Owner[c]>>, p)}
    /\ UNCHANGED faults

\* The paths of one conversation's directory.  _paths raises for a staff id it
\* does not accept, so nothing is done there.
Contents(c) == {p \in pod : IsPrefix(Workspace(c), p)}
HasDirectory(c) == Contents(c) # {}
Reachable(c) == podUp /\ c \notin refused

\* rm -rf: nobody looks at its exit code, so what it could not remove, and the
\* directories above that, are left behind as if they were gone.
RemoveWorkspace(c) ==
    \/ pod' = pod \ Contents(c) /\ UNCHANGED faults
    \/ /\ Fault("removal")
       /\ \E left \in SUBSET Contents(c) \ {{}} :
              /\ \A p \in left, q \in Contents(c) : IsPrefix(q, p) => q \in left
              /\ pod' = pod \ (Contents(c) \ left)
       /\ faults' = [Counted EXCEPT !.unremoved = @ \cup {c}]

InUse(c) == \E r \in Requests : request[r].of = c /\ request[r].at \in RunPhases
Deleting(c) == \E r \in Requests : request[r].of = c /\ request[r].at \in DeletePhases
Sweeping(c) == c \in sweep.listed

Go(r, from, to) ==
    /\ request[r].at = from
    /\ request' = [request EXCEPT ![r].at = to]
Free == {r \in Requests : request[r].at = "idle"}
Take(r, c, to) ==
    /\ Free # {} /\ r = CHOOSE q \in Free : TRUE   \* which one is immaterial
    /\ request' = [request EXCEPT ![r].at = to, ![r].of = c]
Leave(r) == request' = [request EXCEPT ![r] = Finished]

Mine(r) == request[r].of

Init ==
    /\ conversation = [c \in Conversations |-> "absent"]
    /\ refused \in SUBSET Unplaceable
    /\ activity = [c \in Conversations |-> None]
    /\ artifact = [a \in Artifacts |-> NoArtifact]
    /\ pod = {}
    /\ podUp = TRUE
    /\ request = [r \in Requests |-> Unused]
    /\ sweep = Asleep
    /\ faults = [total |-> 0, database |-> FALSE, unremoved |-> {}, trespassed |-> {}]
    /\ overtaken = {}
-----------------------------------------------------------------------------
(* Mutants: definitions below with a plausible bug, in no specification. *)

\* touch setting last_activity_at, with the rest of the cleanup as it is.
RefreshActivity(r) ==
    /\ request[r].at = "updating"
    /\ conversation[Mine(r)] = "live"
    /\ Go(r, "updating", "running")
    /\ activity' = [activity EXCEPT ![Mine(r)] = IF @ = None THEN @ ELSE 0]
    /\ UNCHANGED <<conversation, artifact, pod, podUp, sweep, faults>>

\* The cleanup forgetting a directory it could not remove.
SkipForgetting(c) ==
    /\ sweep.at = "sweeping" /\ c \in sweep.listed
    /\ ~Reachable(c)
    /\ activity' = [activity EXCEPT ![c] = None]
    /\ sweep' = [sweep EXCEPT !.listed = @ \ {c}]
    /\ UNCHANGED <<conversation, artifact, pod, podUp, request, faults>>

\* The try block around the whole list: one failure ends the task.
SkipAndStop(c) ==
    /\ sweep.at = "sweeping" /\ c \in sweep.listed
    /\ ~Reachable(c)
    /\ sweep' = [sweep EXCEPT !.at = "dead"]
    /\ UNCHANGED <<rows, pod, podUp, request, faults>>
-----------------------------------------------------------------------------
(* Conversations: POST and DELETE. *)

Create(c) ==
    /\ conversation[c] = "absent"
    /\ conversation' = [conversation EXCEPT ![c] = "live"]
    /\ UNCHANGED <<activity, artifact, pod, podUp, request, sweep, faults>>

\* delete: the workspace is released first, whatever comes of it.
Delete(r, c) ==
    /\ conversation[c] = "live"
    /\ Take(r, c, "releasing")
    /\ UNCHANGED <<rows, pod, podUp, sweep, faults>>

Release(r) ==
    /\ Go(r, "releasing", "released")
    /\ Reachable(Mine(r))
    /\ RemoveWorkspace(Mine(r))
    /\ UNCHANGED <<rows, podUp, sweep>>

\* conversation_workspace_release_failed: logged, and the deletion goes on.
ReleaseFails(r) ==
    /\ Go(r, "releasing", "released")
    /\ ~Reachable(Mine(r))
    /\ UNCHANGED <<rows, pod, podUp, sweep, faults>>

\* The database cascades to the activity row and the artifacts.
DropConversation(r) ==
    /\ request[r].at = "released"
    /\ Leave(r)
    /\ conversation' = [conversation EXCEPT ![Mine(r)] = "deleted"]
    /\ activity' = [activity EXCEPT ![Mine(r)] = None]
    /\ artifact' = [a \in Artifacts |-> IF artifact[a].of = Mine(r) THEN NoArtifact
                                        ELSE artifact[a]]
    /\ UNCHANGED <<pod, podUp, sweep, faults>>
-----------------------------------------------------------------------------
(* A message or a decision: touch, then the agent run. *)

\* _require_conversation, the message, and the read that begins touch.
Ask(r, c) ==
    /\ conversation[c] = "live"
    /\ Take(r, c, IF activity[c] = None THEN "inserting" ELSE "updating")
    /\ UNCHANGED <<rows, pod, podUp, sweep, faults>>

\* touch found no row: the insert fails on a row of a rival or on a conversation
\* that is gone, and the request with it.
InsertActivity(r) ==
    LET c == Mine(r)
    IN  /\ request[r].at = "inserting"
        /\ IF activity[c] = None /\ conversation[c] = "live"
           THEN /\ activity' = [activity EXCEPT ![c] = 0]
                /\ Go(r, "inserting", "running")
           ELSE Leave(r) /\ UNCHANGED activity
        /\ UNCHANGED <<conversation, artifact, pod, podUp, sweep, faults>>

\* touch found a row: staff_id keeps its value, so no UPDATE is emitted and the
\* onupdate of last_activity_at does not run.
KeepActivity(r) ==
    /\ request[r].at = "updating"
    /\ conversation[Mine(r)] = "live"
    /\ Go(r, "updating", "running")
    /\ UNCHANGED <<rows, pod, podUp, sweep, faults>>

\* execute: the command goes to a thread.
IssueCommand(r) ==
    /\ Go(r, "running", "executing")
    /\ UNCHANGED <<rows, pod, podUp, sweep, faults>>

\* mkdir -p work output && cd work && the command, which writes nothing or the
\* paths of the aliases in it, where map_command places them.
Made(c) == {Workspace(c) \o <<d>> : d \in {"work", "output"}}
CommandWrites(c) ==
    /\ \E written \in {{}, {PhysicalPath(c, p) : p \in LogicalPaths} \ {Refused}} :
           pod' = pod \cup Made(c) \cup written
    /\ UNCHANGED faults

\* Nothing confines a shell: by paths that are no alias, or "..", a command makes
\* and removes files elsewhere, in the directory of another conversation too.
CommandTrespasses(c) ==
    /\ Fault("trespass")
    /\ \E written \in SUBSET ShellPaths :
           /\ pod' = (pod \ ShellPaths) \cup Made(c) \cup written
           /\ faults' = [Counted EXCEPT !.trespassed = @ \cup
                            {d \in Conversations \ {c} :
                                 \E p \in written : IsPrefix(Workspace(d), p)}]

\* The command runs to its end in the thread even when nobody waits for it any more.
CommandLands(r) ==
    /\ request[r].at \in {"executing", "abandoned"}
    /\ IF request[r].at = "executing" THEN Go(r, "executing", "running") ELSE Leave(r)
    /\ IF Reachable(Mine(r)) THEN CommandWrites(Mine(r)) \/ CommandTrespasses(Mine(r))
                             ELSE UNCHANGED <<pod, faults>>
    /\ UNCHANGED <<rows, podUp, sweep>>

\* publish_artifact reads the file before it stores the row.
ReadForPublishing(r, path) ==
    LET output == NormalizeOutput(path)
    IN  /\ request[r].at = "running"
        /\ output # Refused
        /\ Reachable(Mine(r)) /\ Reached(Mine(r), output) \in pod
        /\ request' = [request EXCEPT ![r].at = "publishing", ![r].path = output]
        /\ UNCHANGED <<rows, pod, podUp, sweep, faults>>

StoreArtifact(r, a) ==
    /\ request[r].at = "publishing"
    /\ conversation[Mine(r)] = "live"
    /\ artifact[a] = NoArtifact
    /\ request' = [request EXCEPT ![r].at = "running", ![r].path = Refused]
    /\ artifact' = [artifact EXCEPT ![a] =
                        [of |-> Mine(r), path |-> request[r].path, left |-> Retention]]
    /\ UNCHANGED <<conversation, activity, pod, podUp, sweep, faults>>

\* The run ends, pauses or fails; a deleted conversation fails every insert.
EndRun(r) ==
    /\ request[r].at \in {"running", "publishing", "updating"}
    /\ request[r].at = "updating" => conversation[Mine(r)] # "live"
    /\ Leave(r)
    /\ UNCHANGED <<rows, pod, podUp, sweep, faults>>

\* The client goes away: the request ends, a command it waits for does not.
Disconnect(r) ==
    /\ request[r].at \in RunPhases \ {"abandoned"}
    /\ IF request[r].at = "executing" THEN Go(r, "executing", "abandoned") ELSE Leave(r)
    /\ UNCHANGED <<rows, pod, podUp, sweep, faults>>
-----------------------------------------------------------------------------
(* gke_workspace_cleanup_loop *)

\* expired: last_activity_at before the cutoff, read once for the whole pass.
Expired == {c \in Conversations : activity[c] # None /\ activity[c] > Retention}

ListExpired ==
    /\ sweep.at = "asleep"
    /\ sweep' = [sweep EXCEPT !.at = "sweeping", !.listed = Expired]
    /\ UNCHANGED <<rows, pod, podUp, request, faults>>

SweepRemove(c) ==
    /\ sweep.at = "sweeping" /\ c \in sweep.listed
    /\ Reachable(c)
    /\ RemoveWorkspace(c)
    /\ sweep' = [sweep EXCEPT !.at = "removed", !.now = c]
    /\ UNCHANGED <<rows, podUp, request>>

\* gke_workspace_cleanup_failed: the row stays for the next pass.
SweepSkip(c) ==
    /\ sweep.at = "sweeping" /\ c \in sweep.listed
    /\ ~Reachable(c)
    /\ sweep' = [sweep EXCEPT !.listed = @ \ {c}]
    /\ UNCHANGED <<rows, pod, podUp, request, faults>>

\* A row that is gone by now is not missed.
SweepForget ==
    /\ sweep.at = "removed"
    /\ activity' = [activity EXCEPT ![sweep.now] = None]
    /\ sweep' = [at |-> "sweeping", listed |-> sweep.listed \ {sweep.now}, now |-> None]
    /\ UNCHANGED <<conversation, artifact, pod, podUp, request, faults>>

SweepSleeps ==
    /\ sweep.at = "sweeping" /\ sweep.listed = {}
    /\ sweep' = Asleep
    /\ UNCHANGED <<rows, pod, podUp, request, faults>>

\* The query fails outside the try block; or the row cannot be deleted, and the
\* handler's own use of the row, expired by the rollback, may fail as well.
SweepFails ==
    /\ Fault("database") /\ faults' = [Counted EXCEPT !.database = TRUE]
    /\ \/ /\ sweep.at = "asleep"
          /\ sweep' = [sweep EXCEPT !.at = "dead"]
       \/ /\ sweep.at = "removed"
          /\ \/ sweep' = [at |-> "dead", listed |-> {}, now |-> None]
             \/ sweep' = [at |-> "sweeping", listed |-> sweep.listed \ {sweep.now},
                          now |-> None]
    /\ UNCHANGED <<rows, pod, podUp, request>>

Sweep ==
    \/ ListExpired \/ SweepForget \/ SweepSleeps
    \/ \E c \in Conversations : SweepRemove(c) \/ SweepSkip(c)
-----------------------------------------------------------------------------
(* The world around them. *)

Tick ==
    LET Older(age) == IF age > Retention THEN age ELSE age + 1
    IN  /\ activity' = [c \in Conversations |-> IF activity[c] = None THEN None
                                               ELSE Older(activity[c])]
        /\ artifact' = [a \in Artifacts |->
               IF artifact[a].left = 0 THEN artifact[a]
               ELSE [artifact[a] EXCEPT !.left = @ - 1]]
        /\ UNCHANGED <<conversation, pod, podUp, request, sweep, faults>>

PodDown ==
    /\ podUp /\ Fault("outage") /\ faults' = Counted
    /\ podUp' = FALSE
    /\ UNCHANGED <<rows, pod, request, sweep>>

PodBack ==
    /\ ~podUp
    /\ podUp' = TRUE
    /\ UNCHANGED <<rows, pod, request, sweep, faults>>

PodRebuilt ==
    /\ Fault("rebuild") /\ faults' = Counted
    /\ pod' = {}
    /\ UNCHANGED <<rows, podUp, request, sweep>>

\* The process restarts: its requests and threads are gone, the loop begins anew.
Restart ==
    /\ Fault("restart") /\ faults' = Counted
    /\ request' = [r \in Requests |-> IF request[r].at = "idle" THEN Unused ELSE Finished]
    /\ sweep' = Asleep
    /\ UNCHANGED <<rows, pod, podUp>>

Serve(r) ==
    \/ \E c \in Conversations : Delete(r, c) \/ Ask(r, c)
    \/ Release(r) \/ ReleaseFails(r) \/ DropConversation(r)
    \/ InsertActivity(r) \/ KeepActivity(r)
    \/ IssueCommand(r) \/ CommandLands(r)
    \/ \E path \in LogicalPaths : ReadForPublishing(r, path)
    \/ \E a \in Artifacts : StoreArtifact(r, a)
    \/ EndRun(r) \/ Disconnect(r)

Step ==
    \/ \E c \in Conversations : Create(c)
    \/ \E r \in Requests : Serve(r)
    \/ Sweep \/ SweepFails
    \/ Tick \/ PodDown \/ PodBack \/ PodRebuilt \/ Restart

\* The history: a removal under way while someone uses the directory, or a
\* deletion that cannot reach it.  The staff id of a conversation never changes.
Met(c) ==
    \/ InUse(c) /\ (Sweeping(c) \/ Deleting(c))
    \/ Deleting(c) /\ ~Reachable(c)

Remember ==
    /\ UNCHANGED refused
    /\ overtaken' = overtaken \cup {c \in Conversations : Met(c)'}

Next == Step /\ Remember

\* The task is scheduled like any other, its calls return, an outage ends.
Spec == Init /\ [][Next]_vars /\ WF_sweep(Sweep) /\ WF_podUp(PodBack)
-----------------------------------------------------------------------------
\* artifacts: what the endpoints list.  download_artifact reads the sandbox now, and
\* answers 410 when it cannot.
Current(a) == artifact[a].left > 0
Downloadable(a) ==
    /\ Current(a) /\ Reachable(artifact[a].of)
    /\ Reached(artifact[a].of, NormalizeOutput(artifact[a].path)) \in pod

\* What may leave a directory behind.
Excused(c) == c \in overtaken \cup faults.unremoved \cup faults.trespassed

\* A directory without an activity row is one no cleanup will ever find.  It is left
\* behind only when a removal met another user of the directory, a deletion could not
\* reach it, rm failed, or a command of another conversation wrote there; every other
\* order of runs, sweeps and deletions keeps the row with it.
OrphanOnlyWhenOvertaken ==
    \A c \in Conversations : HasDirectory(c) /\ activity[c] = None => Excused(c)

\* Whatever way its path was written, a file that can be downloaded lies below the output
\* directory of the artifact's own conversation, which was not deleted in the meantime.
DownloadsAreOutput ==
    \A a \in Artifacts : Downloadable(a) =>
        /\ conversation[artifact[a].of] = "live"
        /\ IsStrictPrefix(Workspace(artifact[a].of) \o <<"output">>,
                          Reached(artifact[a].of, NormalizeOutput(artifact[a].path)))

\* A step that is no fault (a rebuild empties the pod, a shell command may remove anything)
\* takes files of at most one conversation away: deleting or expiring one leaves the others
\* alone.
RemovalIsLocal ==
    [][faults' = faults =>
           \A c, d \in Conversations :
               ~(Contents(c) \subseteq pod') /\ ~(Contents(d) \subseteq pod') => c = d]_vars

\* The cleanup works from a list it read earlier; still it removes a directory only
\* when the activity row, if there is one, is past the retention at that moment.
SweepRespectsRow ==
    [][\A c \in Conversations :
           SweepRemove(c) => activity[c] = None \/ activity[c] > Retention]_vars

\* A directory whose row has expired is removed, outages of the sandbox and conversations
\* it refuses included; excepted are a statement of the cleanup that failed, and what may
\* leave a directory behind.
ExpiredRowIsSwept ==
    \A c \in Conversations :
        (c \in Expired /\ HasDirectory(c)) ~> (~HasDirectory(c) \/ faults.database \/ Excused(c))

=============================================================================
