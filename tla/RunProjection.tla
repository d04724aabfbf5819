--------------------------- MODULE RunProjection ---------------------------
(***************************************************************************)
(* The materialised projections of an Agent Run: how one Run Event moves   *)
(* the status column of agent_task_runs and of conversation_turns.         *)
(*                                                                         *)
(* A Run Event is abstracted to its kind.  Status events are named after   *)
(* the status they ask for; every event that asks for "running" (tool,     *)
(* plan, approval-resolved, recovery and plain status events) is one kind, *)
(* except the "Agent started" marker, which startup recovery tells apart.  *)
(***************************************************************************)
EXTENDS Integers, Sequences

(* agent_task_runs.status values that no projection may leave.             *)
TerminalStatuses == {"completed", "failed", "timed_out", "cancelled"}

(* TaskRunStatus: the status column of agent_task_runs.                    *)
TaskStatuses == TerminalStatuses \cup
    {"queued", "running", "cancelling", "waiting_approval",
     "awaiting_user_input", "paused"}

(* The status column of conversation_turns; the first three are finished.  *)
FinishedTurns == {"success", "error", "cancelled"}
TurnStatuses  == FinishedTurns \cup {"running", "paused", "awaiting_user_input"}

(* Events a producer may submit.  "delta" shares the journal's batch,      *)
(* "preview" is the replaceable live snapshot that never reaches SQLite,   *)
(* "block" stands for the other events that leave the task row alone.      *)
EventKinds == TerminalStatuses \cup
    {"delta", "preview", "block", "started", "running", "queued",
     "cancelling", "waiting_approval", "awaiting_user_input"}

(* Rows of agent_run_events: a checkpoint adds "paused", previews never do. *)
DurableKinds == (EventKinds \ {"preview"}) \cup {"paused"}

ClosesRun(k)   == k \in TerminalStatuses
IsDurable(k)   == k # "preview"
IsDeferred(k)  == k = "delta"

(* The turn status that a terminal task status materialises as.            *)
TaskStatusAsTurn(status) == status      \* mutant of TurnOf
TurnOf(status) ==
    CASE status = "completed" -> "success"
      [] status = "cancelled" -> "cancelled"
      [] OTHER                -> "error"

(* The status an event asks for; LeavesTask events ask for none.           *)
LeavesTask(k) == k \in {"delta", "preview", "block"}
AskedStatus(k) == IF k = "started" THEN "running" ELSE k

(* Status events of phase AwaitingUserInput: the suspension's own, and the *)
(* cancelling event with which a suspended run is stopped.                 *)
AwaitsUser(k) == k \in {"awaiting_user_input", "cancelling"}

(* Events that may take a run out of awaiting_user_input.                  *)
OverridesByProgress(k) == k # "queued"      \* mutant of OverridesBarrier
OverridesBarrier(k) == ClosesRun(k) \/ AwaitsUser(k)

(* update_progress_from_event: an event of the user-input phase is ignored *)
(* once every interaction is resolved, a barrier is preserved against      *)
(* ordinary progress, and the SQL guard keeps a terminal row as it is.     *)
ProjectTask(task, k, barrier) ==
    IF \/ LeavesTask(k)
       \/ task \in TerminalStatuses
       \/ AwaitsUser(k) /\ ~barrier
       \/ task = "awaiting_user_input" /\ ~OverridesBarrier(k)
    THEN task
    ELSE AskedStatus(k)

(* finalize_open_conversation_turn: only the terminal that the task row    *)
(* carries finishes the turn, and a finished turn keeps its status.        *)
ProjectTurn(turn, k, projected) ==
    IF ClosesRun(k) /\ projected = k /\ turn \notin FinishedTurns
    THEN TurnOf(k)
    ELSE turn

(* One committed batch projects its events in order: the rows before the   *)
(* first event and after each of them.                                     *)
Projections(task, turn, events, barrier) ==
    LET row[i \in 0..Len(events)] ==
          IF i = 0 THEN [task |-> task, turn |-> turn]
          ELSE LET k == events[i].kind
                   t == ProjectTask(row[i-1].task, k, barrier)
               IN  [task |-> t, turn |-> ProjectTurn(row[i-1].turn, k, t)]
    IN  row

ProjectBatch(task, turn, events, barrier) ==
    Projections(task, turn, events, barrier)[Len(events)]
=============================================================================
