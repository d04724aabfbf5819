-------------------------- MODULE MCRunEventOutbox --------------------------
(***************************************************************************)
(* Instances of RunEventOutbox for TLC: the kinds of events each run lets  *)
(* the producers submit, and what the documentation claims of the code.    *)
(***************************************************************************)
EXTENDS RunEventOutboxRefinement

(* Streaming: deferred and immediate events, approvals, previews, and two  *)
(* terminals.                                                              *)
StreamKinds  == {"delta", "running", "waiting_approval", "preview", "completed",
                 "timed_out"}

(* Sessions: the statuses of a run that asks the user, is stopped, paused. *)
SessionKinds == {"delta", "running", "completed", "timed_out", "cancelling",
                 "cancelled", "awaiting_user_input"}
----------------------------------------------------------------------------
(* docs/AGENT_STREAMING_PROTOCOL.md: "a diagnostic snapshot must never     *)
(* poison the authoritative run".  With no failed transaction and no       *)
(* saturation, the outbox fails a run closed only if the run itself could  *)
(* not be paused.                                                          *)
PreviewNeverPoisons ==
    [][ pc = "claim" /\ task # "failed" /\ task' = "failed" =>
          \/ faults > 0 \/ failureRequest
          \/ barrier \/ task \notin PausableStatuses \/ turn \in FinishedTurns ]_vars

(* docs/AGENT_STREAMING_PROTOCOL.md: a fail-closed outcome ends the actor  *)
(* and "reopening then reconstructs the closed state from durable          *)
(* storage": a run that failed closed stays closed in SQLite.              *)
FailClosedStaysClosed ==
    [][(completion = "failed" /\ RunClosed) => RunClosed']_vars

(* finalize.rs: "Never let that stale executor overwrite the resumed ...   *)
(* state": once the user has answered, the run is not moved back behind    *)
(* the barrier.                                                            *)
AnsweredStaysResumed ==
    [][ answered /\ task # "awaiting_user_input" /\ task' = "awaiting_user_input"
        => barrier ]_vars

(* stop.rs: "No model/tool future remains alive while the outbox drains    *)
(* and commits the resumable checkpoint."  The stop of a running turn does *)
(* not take the lifecycle lock that launches take.                         *)
CheckpointIsFenced ==
    [][task # "paused" /\ task' = "paused" => executor = "ended"]_vars
=============================================================================
