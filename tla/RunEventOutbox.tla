-------------------------- MODULE RunEventOutbox --------------------------
(***************************************************************************)
(* The Run Event outbox of one Agent Run (run_event_outbox.rs): producers  *)
(* submit unsequenced events to a bounded queue; one actor sequences them, *)
(* commits them with the task and turn projections in one SQLite           *)
(* transaction, and only then delivers them to the live window.            *)
(*                                                                         *)
(* The actor's awaits are its steps: a receive, a transaction and a        *)
(* delivery are separate actions, and producers, the executor and the host *)
(* commands interleave between them.                                       *)
(***************************************************************************)
EXTENDS RunProjection

CONSTANTS
    Capacity,         \* RUN_EVENT_OUTBOX_CAPACITY: commands the queue holds
    MaxBatch,         \* LIVE_JOURNAL_MAX_BATCH: events of one transaction
    Kinds,            \* the kinds of events the producers submit
    MaxSequence,      \* bound: commands accepted over the run's life
    MaxFaults,        \* bound: SQLite transactions that fail
    MaxProgress,      \* bound: direct progress writes by the executor
    MaxInteractions   \* bound: user-input requests raised by a tool

ASSUME ConstantsAssumption ==
    /\ Capacity \in Nat \ {0}
    /\ MaxBatch \in Nat \ {0}
    /\ Kinds \subseteq EventKinds
    /\ MaxSequence \in Nat
    /\ MaxFaults \in Nat
    /\ MaxProgress \in Nat
    /\ MaxInteractions \in Nat

VARIABLES
    \* SQLite: agent_run_events (append order), and the two status columns
    ledger, task, turn,
    barrier,             \* the run has an unresolved interaction request
    answered,            \* ... or one whose consumed answer may be replayed
    \* AgentRunEventOutbox: shared between producers and the actor
    queue, terminalSubmitted, submissionsPaused, accepted, failureRequest,
    \* the actor: program counter, its continuation after a transaction,
    \* the last sequence it assigned and the events it holds
    pc, after, sequence, pending,
    \* what others observe of it
    durability, completion, pauseReply, delivered,
    \* the host: executor task, its cancellation token, and the command that
    \* holds the run's lifecycle lock
    executor, cancelled, lifecycle,
    \* bounds
    faults, progress, interactions

durableVars == <<ledger, task, turn, barrier, answered>>
sharedVars  == <<queue, terminalSubmitted, submissionsPaused, accepted,
                 failureRequest>>
actorVars   == <<pc, after, sequence, pending>>
seenVars    == <<durability, completion, pauseReply, delivered>>
hostVars    == <<executor, cancelled, lifecycle>>
boundVars   == <<faults, progress, interactions>>
vars == <<durableVars, sharedVars, actorVars, seenVars, hostVars, boundVars>>

Row(n, k) == [seq |-> n, kind |-> k]
Rows      == [seq : Nat, kind : DurableKinds]

(* Deliveries: durable rows, previews, and the ephemeral failure terminal. *)
Deliveries == [seq : Nat, kind : DurableKinds \cup {"preview", "outbox_failed"}]

FirstOf(a, b) == a      \* mutant of Max2
Max2(a, b) == IF a < b THEN b ELSE a

(* agent_run_event_head: MAX(event_seq), 0 for a run with no rows.         *)
DurableHead == IF ledger = <<>> THEN 0 ELSE ledger[Len(ledger)].seq

LedgerTerminal == \E i \in 1..Len(ledger) : ClosesRun(ledger[i].kind)

(* ... and whether the run is closed: a true terminal row, or a terminal   *)
(* task row.                                                               *)
TaskClosed == task \in TerminalStatuses      \* mutant of RunClosed
RunClosed == LedgerTerminal \/ task \in TerminalStatuses

Live == pc \notin {"absent", "stopped"}

(* A stop or pause command waits for its flush, has flushed, or waits for  *)
(* the answer to its checkpoint.                                           *)
PauseUnderWay == pauseReply \in {"flushing", "flushed", "waiting"}
----------------------------------------------------------------------------
(* A freshly launched run: committed launch, outbox opened, executor       *)
(* spawned.                                                                *)
Init ==
    /\ ledger = <<>> /\ task = "queued" /\ turn = "running"
    /\ barrier = FALSE /\ answered = FALSE
    /\ queue = <<>> /\ terminalSubmitted = FALSE /\ submissionsPaused = FALSE
    /\ accepted = 0 /\ failureRequest = FALSE
    /\ pc = "recv" /\ after = "loop" /\ sequence = 0 /\ pending = <<>>
    /\ durability = [ok |-> TRUE, seq |-> 0] /\ completion = "open"
    /\ pauseReply = "none" /\ delivered = <<>>
    /\ executor = "running" /\ cancelled = FALSE /\ lifecycle = "free"
    /\ faults = 0 /\ progress = 0 /\ interactions = 0

(* A new actor goes on numbering where the ledger ends.                    *)
FromZero == 0      \* mutant of InitialSequence
InitialSequence == DurableHead

(* AgentRunEventOutboxes::open on a run with no live outbox: a new actor   *)
(* starting at the durable head, or a closed handle with no actor.         *)
OpenOutbox(commands) ==
    /\ queue' = commands
    /\ terminalSubmitted' = (RunClosed \/ commands # <<>>)
    /\ submissionsPaused' = FALSE
    /\ accepted' = InitialSequence + Len(commands)
    /\ failureRequest' = FALSE
    /\ pc' = IF RunClosed THEN "stopped" ELSE "recv"
    /\ after' = "loop" /\ sequence' = InitialSequence /\ pending' = <<>>
    /\ durability' = [ok |-> TRUE, seq |-> InitialSequence]
    /\ completion' = IF RunClosed THEN "terminal" ELSE "open"
    /\ delivered' = <<>>

Open ==
    /\ ~Live
    /\ executor = "ended" /\ ~PauseUnderWay    \* nobody holds the old outbox
    /\ ~(pc = "stopped" /\ RunClosed /\ completion = "terminal")
    /\ OpenOutbox(<<>>)
    /\ pauseReply' = "none"
    /\ UNCHANGED <<durableVars, hostVars, boundVars>>
----------------------------------------------------------------------------
(*                               Producers                                 *)

QueueFull == Len(queue) = Capacity

(* enqueue_validated: the checks under the terminal_submitted lock.        *)
SubmissionNotPaused == Live /\ ~submissionsPaused      \* mutant
SubmissionOpen == Live /\ ~terminalSubmitted /\ ~submissionsPaused

(* "asked": a tool of this executor suspended the turn for user input;     *)
(* "finishing": it has written the turn's outcome and owes the terminal.   *)
ExecutorStates == {"running", "asked", "finishing", "ended"}

(* Who holds the lock of acquire_run_lifecycle: a launch that resumes the  *)
(* run, or the stop of a suspended run before its cancelling event,        *)
(* waiting for it to be durable, and after the interactions are cancelled; *)
(* a repeated stop submits no cancelling event and waits for none.         *)
LifecycleStates == {"free", "launch", "stop", "restop", "stopping", "ending"}

(* resolve_desktop_pending_approvals_for_stopped_run looks for approvals    *)
(* that were requested and not resolved.                                   *)
UnresolvedApproval ==
    \E i \in 1..Len(ledger) :
        /\ ledger[i].kind = "waiting_approval"
        /\ \A j \in i+1..Len(ledger) : ledger[j].kind # "running"

(* Which events can still be produced, by the executor or by the stop.     *)
MayProduce(k) ==
    \/ executor = "running" /\ k \notin {"awaiting_user_input", "cancelling"}
    \/ executor = "asked" /\ k # "cancelling" /\ (ClosesRun(k) => k = "timed_out")
    \/ executor = "finishing" /\ k \in {"completed", "cancelled", "timed_out"}
    \/ executor = "ended" /\ lifecycle = "stop" /\ k = "cancelling"
    \/ executor = "ended" /\ lifecycle = "ending" /\ k = "cancelled"
    \/ pauseReply = "flushed" /\ UnresolvedApproval /\ k = "running"

(* A durable command that finds the queue full closes the outbox.          *)
SaturateQueue ==
    /\ terminalSubmitted' = TRUE
    /\ failureRequest' = TRUE
    /\ cancelled' = TRUE
    /\ UNCHANGED <<queue, accepted>>

EnqueueUncounted(command) ==      \* mutant of Enqueue
    /\ queue' = Append(queue, command)
    /\ UNCHANGED <<accepted, failureRequest>>

(* accepted_high_water is the target that a flush waits for.               *)
Enqueue(command) ==
    /\ queue' = Append(queue, command)
    /\ accepted' = accepted + 1
    /\ UNCHANGED failureRequest

(* submit: a true terminal closes the outbox as it is accepted.  On a      *)
(* timeout the host submits the terminal while the executor still winds    *)
(* down; every other terminal is the executor's last event.                *)
Submit(k) ==
    /\ SubmissionOpen
    /\ accepted < MaxSequence
    /\ IsDurable(k) /\ MayProduce(k)
    /\ IF QueueFull
       THEN /\ SaturateQueue
            /\ lifecycle' = IF k = "cancelling" THEN "free" ELSE lifecycle
            /\ UNCHANGED executor
       ELSE /\ Enqueue(k)
            /\ terminalSubmitted' = ClosesRun(k)
            /\ executor' = IF ClosesRun(k) /\ k # "timed_out"
                           THEN "ended" ELSE executor
            /\ cancelled' = (cancelled \/ k = "timed_out")
            /\ lifecycle' = IF k = "cancelling" THEN "stopping" ELSE lifecycle
    /\ UNCHANGED <<durableVars, submissionsPaused, actorVars, seenVars, boundVars>>

(* publish_ephemeral: a preview that finds the queue full is dropped.      *)
PublishEphemeral ==
    /\ SubmissionOpen
    /\ accepted < MaxSequence
    /\ executor = "running"
    /\ IF QueueFull
       THEN UNCHANGED <<queue, accepted, failureRequest>>
       ELSE Enqueue("preview")
    /\ UNCHANGED <<durableVars, terminalSubmitted, submissionsPaused, actorVars,
                   seenVars, hostVars, boundVars>>

(* The stop of a running turn and the pause command share their steps: the *)
(* session's executor is cancelled, aborted and awaited, ...               *)
PausableStatuses == {"queued", "running", "waiting_approval"}

FenceExecutor ==
    /\ lifecycle = "free" /\ ~PauseUnderWay
    /\ executor # "ended" \/ (Live /\ task \in PausableStatuses)
    /\ executor' = "ended"
    /\ cancelled' = (cancelled \/ executor # "ended")
    /\ pauseReply' = "flushing"
    /\ UNCHANGED <<durableVars, sharedVars, actorVars, durability, completion,
                   delivered, lifecycle, boundVars>>

(* ... the outbox flushed, ...                                             *)
Flushed == durability.ok /\ durability.seq >= accepted

FlushedForPause ==
    /\ pauseReply = "flushing" /\ Flushed
    /\ pauseReply' = "flushed"
    /\ UNCHANGED <<durableVars, sharedVars, actorVars, durability, completion,
                   delivered, hostVars, boundVars>>

(* ... every unresolved approval denied through the outbox (see            *)
(* MayProduce), and the checkpoint enqueued, which suspends submission.    *)
PauseWithCheckpoint ==
    /\ pauseReply = "flushed" /\ SubmissionOpen
    /\ accepted < MaxSequence
    /\ submissionsPaused' = TRUE
    /\ IF QueueFull
       THEN SaturateQueue /\ pauseReply' = "failed"
       ELSE /\ Enqueue("pause")
            /\ pauseReply' = "waiting"
            /\ UNCHANGED <<terminalSubmitted, cancelled>>
    /\ UNCHANGED <<durableVars, actorVars, durability, completion, delivered,
                   executor, lifecycle, boundVars>>

(* The flush fails, or submission is closed or already suspended.          *)
PauseRejected ==
    /\ \/ pauseReply = "flushing" /\ pc = "stopped" /\ ~Flushed
       \/ pauseReply = "flushed" /\ ~SubmissionOpen
    /\ pauseReply' = "failed"
    /\ UNCHANGED <<durableVars, sharedVars, actorVars, durability, completion,
                   delivered, hostVars, boundVars>>

(* The pause command, but not the stop, re-reads the run first and gives   *)
(* up if it waits for the user or is no longer active.                     *)
PauseAbandoned ==
    /\ pauseReply = "flushed"
    /\ barrier \/ task \notin PausableStatuses
    /\ pauseReply' = "refused"
    /\ UNCHANGED <<durableVars, sharedVars, actorVars, durability, completion,
                   delivered, hostVars, boundVars>>
----------------------------------------------------------------------------
(*                               The actor                                 *)

(* The actor's own counter.                                                *)
SameSequence == sequence      \* mutant of NextSequence
NextSequence == sequence + 1

(* insert_agent_run_events.                                                *)
LastRowOnly(rows) == Append(ledger, rows[Len(rows)])      \* mutant
WithRows(rows) == ledger \o rows

(* fail_closed begins by closing submission and cancelling the run.        *)
FailWithoutClosing ==      \* mutant of BeginFailClosed
    pc' = "claim" /\ pending' = <<>> /\ cancelled' = TRUE
        /\ UNCHANGED terminalSubmitted
DropBatchAndGoOn ==      \* mutant of BeginFailClosed
    pc' = "recv" /\ pending' = <<>> /\ UNCHANGED <<terminalSubmitted, cancelled>>

BeginFailClosed ==
    /\ pc' = "claim"
    /\ pending' = <<>>
    /\ terminalSubmitted' = TRUE
    /\ cancelled' = TRUE

(* Receive an event that reaches SQLite.  Deferred events wait for the     *)
(* batch to fill or the flush tick; any other event commits the batch.     *)
RecvDurable ==
    /\ pc = "recv" /\ ~failureRequest /\ queue # <<>>
    /\ Head(queue) \notin {"preview", "pause"}
    /\ queue' = Tail(queue)
    /\ sequence' = NextSequence
    /\ pending' = Append(pending, Row(NextSequence, Head(queue)))
    /\ IF ~IsDeferred(Head(queue)) \/ Len(pending) + 1 >= MaxBatch
       THEN /\ pc' = "commit"
            /\ after' = IF ClosesRun(Head(queue)) THEN "terminal" ELSE "loop"
       ELSE UNCHANGED <<pc, after>>
    /\ UNCHANGED <<durableVars, terminalSubmitted, submissionsPaused, accepted,
                   failureRequest, seenVars, hostVars, boundVars>>

(* Receive a preview: earlier durable events are committed first, then it  *)
(* is delivered with a sequence number that SQLite never sees.             *)
RecvPreview ==
    /\ pc = "recv" /\ ~failureRequest /\ queue # <<>>
    /\ Head(queue) = "preview"
    /\ queue' = Tail(queue)
    /\ sequence' = NextSequence
    /\ IF pending # <<>>
       THEN pc' = "commit" /\ after' = "preview" /\ UNCHANGED seenVars
       ELSE /\ delivered' = Append(delivered, Row(NextSequence, "preview"))
            /\ durability' = [ok |-> TRUE, seq |-> NextSequence]
            /\ UNCHANGED <<pc, after, completion, pauseReply>>
    /\ UNCHANGED <<durableVars, terminalSubmitted, submissionsPaused, accepted,
                   failureRequest, pending, hostVars, boundVars>>

RecvPause ==
    /\ pc = "recv" /\ ~failureRequest /\ queue # <<>>
    /\ Head(queue) = "pause"
    /\ queue' = Tail(queue)
    /\ IF pending # <<>>
       THEN pc' = "commit" /\ after' = "pause" /\ UNCHANGED sequence
       ELSE pc' = "pause" /\ sequence' = NextSequence /\ UNCHANGED after
    /\ UNCHANGED <<durableVars, terminalSubmitted, submissionsPaused, accepted,
                   failureRequest, pending, seenVars, hostVars, boundVars>>

(* The flush tick; the biased select polls it after the queue.             *)
FlushDueWhenFull == Len(pending) >= MaxBatch      \* mutant of FlushDue
FlushDue == pending # <<>>

FlushTick ==
    /\ pc = "recv" /\ ~failureRequest /\ queue = <<>> /\ FlushDue
    /\ pc' = "commit" /\ after' = "loop"
    /\ UNCHANGED <<durableVars, sharedVars, sequence, pending, seenVars,
                   hostVars, boundVars>>

(* commit_run_event_batch: rows and projections in one transaction.        *)
CommitBatch ==
    /\ pc = "commit" /\ ~RunClosed
    /\ ledger' = WithRows(pending)
    /\ \E s \in TaskStatuses, t \in TurnStatuses :
          /\ [task |-> s, turn |-> t] = ProjectBatch(task, turn, pending, barrier)
          /\ task' = s /\ turn' = t
    /\ pc' = "deliver"
    /\ UNCHANGED <<barrier, answered, sharedVars, after, sequence, pending,
                   seenVars, hostVars, boundVars>>

(* SQLite fails, or the transaction is refused because the run is closed:  *)
(* the batch is lost and the outbox fails closed.                          *)
CommitFails ==
    /\ pc \in {"commit", "pause"}
    /\ ~RunClosed
    /\ faults < MaxFaults
    /\ faults' = faults + 1
    /\ BeginFailClosed
    /\ UNCHANGED <<durableVars, queue, submissionsPaused, accepted, failureRequest,
                   after, sequence, seenVars, executor, lifecycle, progress,
                   interactions>>

CommitRefused ==
    /\ pc = "commit" /\ RunClosed
    /\ BeginFailClosed
    /\ UNCHANGED <<durableVars, queue, submissionsPaused, accepted, failureRequest,
                   after, sequence, seenVars, executor, lifecycle, boundVars>>

(* commit_pause_checkpoint: checkpoint, paused event and both projections  *)
(* in one transaction, only at the exact next sequence of a run that can   *)
(* still be paused.                                                        *)
CanCheckpoint ==
    /\ task \in PausableStatuses
    /\ ~barrier
    /\ ~RunClosed
    /\ sequence = DurableHead + 1
    /\ turn \notin FinishedTurns

CommitCheckpoint ==
    /\ pc = "pause" /\ CanCheckpoint
    /\ ledger' = Append(ledger, Row(sequence, "paused"))
    /\ task' = ProjectTask(task, "paused", barrier) /\ turn' = "paused"
    /\ pending' = <<Row(sequence, "paused")>>
    /\ pc' = "deliver" /\ after' = "paused"
    /\ UNCHANGED <<barrier, answered, sharedVars, sequence, seenVars, hostVars,
                   boundVars>>

CheckpointRefused ==
    /\ pc = "pause" /\ ~CanCheckpoint
    /\ BeginFailClosed
    /\ UNCHANGED <<durableVars, queue, submissionsPaused, accepted, failureRequest,
                   after, sequence, seenVars, executor, lifecycle, boundVars>>

(* Delivery after a transaction, and what the actor goes on to do.         *)
DropReply(reply) == UNCHANGED pauseReply      \* mutant of AnswerPause
AnswerPause(reply) ==
    pauseReply' = IF pauseReply = "waiting" THEN reply ELSE pauseReply

DeliverBatch ==
    /\ pc = "deliver" /\ after \in {"loop", "terminal", "drain"}
    /\ delivered' = delivered \o pending
    /\ pending' = <<>>
    /\ durability' = [ok |-> TRUE, seq |-> sequence]
    /\ pc' = CASE after = "loop"     -> "recv"
               [] after = "terminal" -> "stopped"
               [] after = "drain"    -> "drain"
    /\ completion' = IF after = "terminal" THEN "terminal" ELSE completion
    /\ UNCHANGED <<durableVars, sharedVars, after, sequence, pauseReply, hostVars,
                   boundVars>>

DeliverBeforePreview ==
    /\ pc = "deliver" /\ after = "preview"
    /\ delivered' = Append(delivered \o pending, Row(sequence, "preview"))
    /\ pending' = <<>>
    /\ durability' = [ok |-> TRUE, seq |-> sequence]
    /\ pc' = "recv"
    /\ UNCHANGED <<durableVars, sharedVars, after, sequence, completion,
                   pauseReply, hostVars, boundVars>>

DeliverBeforePause ==
    /\ pc = "deliver" /\ after = "pause"
    /\ delivered' = delivered \o pending
    /\ pending' = <<>>
    /\ durability' = [ok |-> TRUE, seq |-> sequence]
    /\ pc' = "pause"
    /\ sequence' = NextSequence
    /\ UNCHANGED <<durableVars, sharedVars, after, completion, pauseReply,
                   hostVars, boundVars>>

DeliverCheckpoint ==
    /\ pc = "deliver" /\ after = "paused"
    /\ delivered' = delivered \o pending
    /\ pending' = <<>>
    /\ durability' = [ok |-> TRUE, seq |-> sequence]
    /\ AnswerPause("ok")
    /\ pc' = "recv"
    /\ UNCHANGED <<durableVars, sharedVars, after, sequence, completion, hostVars,
                   boundVars>>

(* Saturation: the receiver is closed and the accepted prefix drained.     *)
(* Previews are dropped, a queued checkpoint is rejected without a number. *)
BeginDrain ==
    /\ pc = "recv" /\ failureRequest
    /\ pc' = "drain"
    /\ UNCHANGED <<durableVars, sharedVars, after, sequence, pending, seenVars,
                   hostVars, boundVars>>

DrainCommand ==
    /\ pc = "drain" /\ queue # <<>>
    /\ queue' = Tail(queue)
    /\ sequence' = IF Head(queue) = "pause" THEN sequence ELSE NextSequence
    /\ IF Head(queue) \in {"pause", "preview"}
       THEN UNCHANGED <<pending, pc, after>>
       ELSE /\ pending' = Append(pending, Row(NextSequence, Head(queue)))
            /\ IF Len(pending) + 1 >= MaxBatch
               THEN pc' = "commit" /\ after' = "drain"
               ELSE UNCHANGED <<pc, after>>
    /\ UNCHANGED <<durableVars, terminalSubmitted, submissionsPaused, accepted,
                   failureRequest, seenVars, hostVars, boundVars>>

DrainEnds ==
    /\ pc = "drain" /\ queue = <<>>
    /\ IF pending # <<>>
       THEN /\ pc' = "commit" /\ after' = "drain"
            /\ UNCHANGED <<pending, terminalSubmitted, cancelled>>
       ELSE BeginFailClosed /\ UNCHANGED after
    /\ UNCHANGED <<durableVars, queue, submissionsPaused, accepted, failureRequest,
                   sequence, seenVars, executor, lifecycle, boundVars>>

(* fail_closed ends by failing everyone who waits on this outbox.          *)
FailFlushersOnly ==      \* mutant of FailWaiters
    /\ durability' = [durability EXCEPT !.ok = FALSE]
    /\ AnswerPause("failed")
    /\ UNCHANGED completion

FailWaiters ==
    /\ durability' = [durability EXCEPT !.ok = FALSE]
    /\ completion' = "failed"
    /\ AnswerPause("failed")

(* fail_run_event_outbox_if_open: claim the failure in one transaction.    *)
ClaimFailure ==
    /\ pc = "claim" /\ ~RunClosed
    /\ task' = "failed"
    /\ pc' = "deliver" /\ after' = "failed"
    /\ UNCHANGED <<ledger, turn, barrier, answered, sharedVars, sequence,
                   pending, seenVars, hostVars, boundVars>>

(* The failure terminal is numbered above everything this actor assigned.  *)
DeliverFailure ==
    /\ pc = "deliver" /\ after = "failed"
    /\ delivered' = Append(delivered,
            Row(Max2(DurableHead, sequence) + 1, "outbox_failed"))
    /\ FailWaiters
    /\ pc' = "stopped"
    /\ UNCHANGED <<durableVars, sharedVars, after, sequence, pending, hostVars,
                   boundVars>>

(* Someone else closed the run first: their outcome stands, and this actor *)
(* publishes no second terminal.                                           *)
ClaimLost ==
    /\ pc = "claim" /\ RunClosed
    /\ durability' = [ok |-> TRUE, seq |-> DurableHead]
    /\ completion' = "terminal"
    /\ AnswerPause("failed")
    /\ pc' = "stopped"
    /\ UNCHANGED <<durableVars, sharedVars, after, sequence, pending, delivered,
                   hostVars, boundVars>>

(* The claim itself cannot be stored: the waiters fail, nothing is sent.   *)
ClaimFails ==
    /\ pc = "claim" /\ faults < MaxFaults
    /\ faults' = faults + 1
    /\ FailWaiters
    /\ pc' = "stopped"
    /\ UNCHANGED <<durableVars, sharedVars, after, sequence, pending, delivered,
                   hostVars, progress, interactions>>

Actor ==
    \/ RecvDurable \/ RecvPreview \/ RecvPause \/ FlushTick
    \/ CommitBatch \/ CommitFails \/ CommitRefused
    \/ CommitCheckpoint \/ CheckpointRefused
    \/ DeliverBatch \/ DeliverBeforePreview \/ DeliverBeforePause
    \/ DeliverCheckpoint
    \/ BeginDrain \/ DrainCommand \/ DrainEnds
    \/ ClaimFailure \/ DeliverFailure \/ ClaimLost \/ ClaimFails
----------------------------------------------------------------------------
(*                    The executor and the host commands                   *)

(* The turn loop writes task progress directly, past the outbox and past   *)
(* the terminal guard of the projections.                                  *)
ExecutorProgress ==
    /\ executor # "ended" /\ progress < MaxProgress
    /\ task' = IF executor = "asked" THEN "awaiting_user_input" ELSE "running"
    /\ progress' = progress + 1
    /\ UNCHANGED <<ledger, turn, barrier, answered, sharedVars, actorVars,
                   seenVars, hostVars, faults, interactions>>

(* The executor stores its answer and the turn's outcome before it submits *)
(* the terminal event: success, or cancelled once it saw the token.        *)
ExecutorFinalizesTurn ==
    /\ executor = "running"
    /\ executor' = "finishing"
    /\ turn' = IF cancelled THEN "cancelled" ELSE "success"
    /\ UNCHANGED <<ledger, task, barrier, answered, sharedVars, actorVars,
                   seenVars, cancelled, lifecycle, boundVars>>

(* The executor returns at its next cancellation point, or because the     *)
(* turn waits for the user; the finalizer has nothing to publish then.     *)
ExecutorReturns ==
    /\ executor = "asked" \/ (executor # "ended" /\ cancelled)
    /\ executor' = "ended"
    /\ UNCHANGED <<durableVars, sharedVars, actorVars, seenVars, cancelled,
                   lifecycle, boundVars>>

(* request_user_input: create the request, then suspend turn and task.     *)
CreateInteraction ==
    /\ executor = "running" /\ ~barrier
    /\ interactions < MaxInteractions
    /\ interactions' = interactions + 1
    /\ barrier' = TRUE
    /\ UNCHANGED <<ledger, task, turn, answered, sharedVars, actorVars,
                   seenVars, hostVars, faults, progress>>

(* cancel_interaction, supersede_interaction and fail_interaction close a  *)
(* request without the lifecycle lock and leave the run's rows alone.  A   *)
(* tool whose request is gone before it could suspend the run goes to wait *)
(* all the same; one whose suspension was refused has gone on.             *)
WithdrawInteraction ==
    /\ barrier
    /\ barrier' = FALSE
    /\ executor' \in IF executor = "running" THEN {"running", "asked"}
                                             ELSE {executor}
    /\ UNCHANGED <<ledger, task, turn, answered, sharedVars, actorVars,
                   seenVars, cancelled, lifecycle, boundVars>>

SuspendForInteraction ==
    /\ executor = "running" /\ barrier
    /\ task \in {"queued", "running"}
    /\ executor' = "asked"
    /\ task' = "awaiting_user_input" /\ turn' = "awaiting_user_input"
    /\ UNCHANGED <<ledger, barrier, answered, sharedVars, actorVars, seenVars,
                   cancelled, lifecycle, boundVars>>

(* resume_agent_turn_with_interaction_response: consume the answer, or     *)
(* replay one whose launch a restart interrupted, and re-queue the run.    *)
AnswerInteraction ==
    /\ barrier \/ answered
    /\ lifecycle = "free"
    /\ task = "awaiting_user_input" /\ turn = "awaiting_user_input"
    /\ barrier' = FALSE /\ answered' = TRUE
    /\ task' = "queued" /\ turn' = "running"
    /\ lifecycle' = "launch"
    /\ UNCHANGED <<ledger, sharedVars, actorVars, seenVars, executor, cancelled,
                   boundVars>>

(* agent_stop on a suspended run: fence its executor, submit a cancelling  *)
(* event unless an earlier stop did, ...                                   *)
BeginStop ==
    /\ lifecycle = "free"
    /\ task \in {"awaiting_user_input", "cancelling"}
    /\ executor' = "ended"
    /\ cancelled' = (cancelled \/ executor # "ended")
    /\ lifecycle' = IF task = "cancelling" THEN "restop" ELSE "stop"
    /\ UNCHANGED <<durableVars, sharedVars, actorVars, seenVars, boundVars>>

StopFindsClosed ==
    /\ lifecycle = "stop" /\ terminalSubmitted
    /\ lifecycle' = "stopping"
    /\ UNCHANGED <<durableVars, sharedVars, actorVars, seenVars, executor,
                   cancelled, boundVars>>

(* ... flush, and only then cancel the interactions; a flush that fails    *)
(* ends the command.                                                       *)
CancelInteractions ==
    /\ lifecycle = "restop" \/ (lifecycle = "stopping" /\ Flushed)
    /\ barrier' = FALSE /\ answered' = FALSE
    /\ lifecycle' = "ending"
    /\ UNCHANGED <<ledger, task, turn, sharedVars, actorVars, seenVars, executor,
                   cancelled, boundVars>>

StopAbandoned ==
    /\ \/ lifecycle = "stop" /\ submissionsPaused
       \/ lifecycle = "stopping" /\ pc = "stopped" /\ ~Flushed
    /\ lifecycle' = "free"
    /\ UNCHANGED <<durableVars, sharedVars, actorVars, seenVars, executor,
                   cancelled, boundVars>>

(* finalize_desktop_agent_stop: submit the cancelled terminal, cross the   *)
(* terminal barrier, and finish the turn from the outcome that won.        *)
StopEnds ==
    /\ lifecycle = "ending" /\ completion # "open"
    /\ lifecycle' = "free"
    /\ turn' = CASE completion = "failed" /\ task = "failed"      -> "error"
                 [] completion = "terminal" /\ task = "cancelled" -> "cancelled"
                 [] OTHER                                         -> turn
    /\ UNCHANGED <<ledger, task, barrier, answered, sharedVars, actorVars,
                   seenVars, executor, cancelled, boundVars>>

(* resume_agent_turn_from_checkpoint re-queues a paused run ...            *)
RequeueTurnOnly == turn' = "running" /\ UNCHANGED task      \* mutant of Requeue
Requeue == task' = "queued" /\ turn' = "running"

ResumeFromCheckpoint ==
    /\ task = "paused" /\ lifecycle = "free"
    /\ Requeue
    /\ lifecycle' = "launch"
    /\ UNCHANGED <<ledger, barrier, answered, sharedVars, actorVars, seenVars,
                   executor, cancelled, boundVars>>

(* ... and the launch then reopens submission, fences the old executor and *)
(* spawns the new one.                                                     *)
ResumeSubmissions ==
    /\ lifecycle = "launch" /\ Live /\ ~terminalSubmitted
    /\ submissionsPaused' = FALSE
    /\ lifecycle' = "free"
    /\ executor' = "running" /\ cancelled' = FALSE
    /\ pauseReply' = IF PauseUnderWay THEN pauseReply ELSE "none"
    /\ UNCHANGED <<durableVars, queue, terminalSubmitted, accepted, failureRequest,
                   actorVars, durability, completion, delivered, boundVars>>

(* The launch re-reads the task row and gives up unless it is still queued. *)
LaunchSuperseded ==
    /\ lifecycle = "launch" /\ task # "queued"
    /\ lifecycle' = "free"
    /\ UNCHANGED <<durableVars, sharedVars, actorVars, seenVars, executor, cancelled,
                   boundVars>>

(* The launch finds the outbox closed, waits for its terminal barrier and  *)
(* finishes the turn from a terminal task row.                             *)
ResumeRejected ==
    /\ lifecycle = "launch" /\ terminalSubmitted /\ pc = "stopped"
    /\ RunClosed \/ executor # "ended"
    /\ lifecycle' = "free"
    /\ executor' = "ended"
    /\ cancelled' = (cancelled \/ executor # "ended")
    /\ turn' = IF task \in TerminalStatuses THEN TurnOf(task) ELSE turn
    /\ UNCHANGED <<ledger, task, barrier, answered, sharedVars, actorVars,
                   seenVars, boundVars>>

(* A stop whose checkpoint failed fails the run if it is still open, and   *)
(* finishes the turn of a failed run.                                      *)
ReconcileFailedStop ==
    /\ pauseReply = "failed"
    /\ pauseReply' = "none"
    /\ task' = IF RunClosed THEN task ELSE "failed"
    /\ turn' = IF task' = "failed" THEN "error" ELSE turn
    /\ UNCHANGED <<ledger, barrier, answered, sharedVars, actorVars,
                   durability, completion, delivered, hostVars, boundVars>>

(* finalize_desktop_agent_turn, once the terminal barrier has resolved.  A *)
(* failed outbox finishes the turn from the task row it claimed; a         *)
(* committed timeout is written back over a late progress write.           *)
FinalizeTurn ==
    /\ executor = "ended" /\ pc = "stopped" /\ pauseReply = "none"
    /\ \/ /\ completion = "failed" /\ task = "failed" /\ turn # "error"
          /\ turn' = "error" /\ UNCHANGED task
       \/ /\ completion = "terminal" /\ task = "running"
          /\ \E i \in 1..Len(ledger) : ledger[i].kind = "timed_out"
          /\ task' = "timed_out" /\ UNCHANGED turn
    /\ UNCHANGED <<ledger, barrier, answered, sharedVars, actorVars, seenVars,
                   hostVars, boundVars>>

Producer == \/ \E k \in Kinds : Submit(k)
            \/ "preview" \in Kinds /\ PublishEphemeral

Host ==
    \/ FenceExecutor \/ FlushedForPause \/ PauseWithCheckpoint \/ PauseRejected
    \/ PauseAbandoned \/ ReconcileFailedStop
    \/ ResumeFromCheckpoint \/ ResumeSubmissions \/ ResumeRejected
    \/ LaunchSuperseded
    \/ CreateInteraction \/ WithdrawInteraction \/ SuspendForInteraction
    \/ AnswerInteraction
    \/ BeginStop \/ StopFindsClosed \/ CancelInteractions \/ StopAbandoned
    \/ StopEnds
    \/ ExecutorProgress \/ ExecutorFinalizesTurn \/ ExecutorReturns
    \/ FinalizeTurn \/ Open

Next == Producer \/ Actor \/ Host

Spec == Init /\ [][Next]_vars

(* The runtime keeps polling the actor task and a command whose flush is   *)
(* over, the flush interval keeps ticking, and a cancelled executor        *)
(* reaches a cancellation point.                                           *)
Fairness ==
    /\ WF_vars(Actor)
    /\ WF_vars(FlushedForPause \/ PauseRejected)
    /\ WF_vars(ExecutorReturns)

FairSpec == Spec /\ Fairness
----------------------------------------------------------------------------
TypeFlags ==
    /\ barrier \in BOOLEAN /\ answered \in BOOLEAN
    /\ terminalSubmitted \in BOOLEAN /\ submissionsPaused \in BOOLEAN
    /\ failureRequest \in BOOLEAN /\ cancelled \in BOOLEAN

TypeNumbers ==
    /\ accepted \in Nat /\ sequence \in Nat
    /\ faults \in Nat /\ progress \in Nat /\ interactions \in Nat

TypeRows ==
    /\ ledger \in Seq(Rows) /\ pending \in Seq(Rows)
    /\ delivered \in Seq(Deliveries)
    /\ queue \in Seq(EventKinds \cup {"pause"})
    /\ durability \in [ok : BOOLEAN, seq : Nat]

TypeStates ==
    /\ task \in TaskStatuses /\ turn \in TurnStatuses
    /\ pc \in {"absent", "recv", "commit", "pause", "deliver", "drain", "claim",
               "stopped"}
    /\ after \in {"loop", "terminal", "preview", "pause", "paused", "drain",
                  "failed"}
    /\ completion \in {"open", "terminal", "failed"}
    /\ pauseReply \in {"none", "flushing", "flushed", "waiting", "ok", "failed",
                      "refused"}
    /\ executor \in ExecutorStates /\ lifecycle \in LifecycleStates

(* The values the state of one run ranges over.                            *)
TypeOK == TypeFlags /\ TypeNumbers /\ TypeRows /\ TypeStates
----------------------------------------------------------------------------
(*                              Properties                                 *)

Increasing(rows) ==
    \A i \in 1..Len(rows), j \in 1..Len(rows) : i < j => rows[i].seq < rows[j].seq

(* The rows of agent_run_events carry strictly increasing sequence numbers *)
(* in commit order, and a true terminal is the last row the run ever gets: *)
(* one terminal wins however producers, a saturated queue, failed          *)
(* transactions, stop commands and reopened actors interleave.             *)
LedgerOrdered ==
    /\ Increasing(ledger)
    /\ \A i \in 1..Len(ledger) : ClosesRun(ledger[i].kind) => i = Len(ledger)

(* The live stream of one actor is strictly increasing, so a client that   *)
(* advances only to the exact next number never meets a number twice; the  *)
(* internally generated failure terminal in particular lies above every    *)
(* preview and every number lost with a failed batch.                      *)
DeliveredInOrder == Increasing(delivered)

(* Commit before delivery: a durable event the window has seen is in the   *)
(* ledger, under the same number, whatever failed afterwards.              *)
DeliveredIsDurable ==
    \A i \in 1..Len(delivered) :
        delivered[i].kind \in DurableKinds =>
            \E j \in 1..Len(ledger) : ledger[j] = delivered[i]

(* At most one terminal reaches the window and nothing follows it.         *)
TerminalEndsStream ==
    \A i \in 1..Len(delivered) :
        ClosesRun(delivered[i].kind) \/ delivered[i].kind = "outbox_failed"
            => i = Len(delivered)

(* flush is a processed-through barrier: a number reported as durable is   *)
(* below every event still waiting for its transaction, and a flush that   *)
(* returns leaves nothing accepted before it in the queue or the batch.    *)
FlushBarrier ==
    durability.ok =>
        /\ \A i \in 1..Len(pending) : durability.seq < pending[i].seq
        /\ durability.seq >= accepted => queue = <<>> /\ pending = <<>>

(* A checkpoint is a clean boundary: while a run is durably paused and no  *)
(* resume is under way, its outbox holds no event that could still be      *)
(* committed behind the checkpoint, and the checkpoint is the last row.    *)
PausedIsQuiescent ==
    task = "paused" /\ Live /\ lifecycle # "launch" =>
        /\ ledger[Len(ledger)].kind = "paused"
        /\ queue = <<>>
        /\ pc # "deliver" => pending = <<>>

(* An actor stops only after it closed submission: no producer is told     *)
(* that an event was accepted when nobody is left to commit it.            *)
StoppedIsClosed == pc = "stopped" => terminalSubmitted /\ pending = <<>>

(* While the user has not answered and the executor has gone to wait, only *)
(* a terminal or the durable cancelling event of a stop takes the run out  *)
(* of awaiting_user_input: events accepted before the question, and        *)
(* committed after it, do not.                                             *)
StoresStop == \E i \in Len(ledger)+1..Len(ledger') : ledger'[i].kind = "cancelling"

BarrierHolds ==
    [][ /\ task = "awaiting_user_input" /\ executor \in {"asked", "ended"}
        /\ barrier /\ barrier'
        => \/ task' \in {"awaiting_user_input"} \cup TerminalStatuses
           \/ StoresStop ]_vars

(* Durable history is append-only, and frozen by a true terminal.          *)
LedgerAppendOnly ==
    [][ /\ Len(ledger') >= Len(ledger)
        /\ SubSeq(ledger', 1, Len(ledger)) = ledger
        /\ LedgerTerminal => ledger' = ledger ]_vars

(* Every accepted terminal, saturation or failed transaction resolves the  *)
(* terminal barrier that finalizers wait on.                               *)
TerminalBarrierResolves == terminalSubmitted /\ Live ~> completion # "open"

(* A stop or pause command never hangs: its flush returns or fails, and    *)
(* its checkpoint is answered, whatever the actor meets meanwhile.         *)
PauseIsAnswered ==
    \A wait \in {"flushing", "waiting"} : pauseReply = wait ~> pauseReply # wait

(* A deferred event does not wait for later traffic: the actor's batch is  *)
(* committed or the run fails closed.                                      *)
DeferredIsFlushed == pending # <<>> ~> pending = <<>>
----------------------------------------------------------------------------
(*      Inductive invariants: CoreInv behind LedgerOrdered and             *)
(*      StoppedIsClosed, StreamInv behind the three properties of the      *)
(*      live stream, FlushInv behind FlushBarrier                          *)

NoTerminal(rows) == \A i \in 1..Len(rows) : ~ClosesRun(rows[i].kind)
TerminalLast(rows) == \A i \in 1..Len(rows) : ClosesRun(rows[i].kind) => i = Len(rows)

NoneCloses(commands) == \A i \in 1..Len(commands) : ~ClosesRun(commands[i])

(* Every number of the rows is above n, or at most n.                      *)
Above(rows, n) == \A i \in 1..Len(rows) : n < rows[i].seq
UpTo(rows, n) == \A i \in 1..Len(rows) : rows[i].seq <= n

(* The numbers of the batch lie between the ledger and the counter, so the *)
(* next transaction extends an increasing ledger; a preview received       *)
(* behind the batch has a number of its own above it.                      *)
BatchNumbered ==
    /\ DurableHead <= sequence
    /\ Increasing(pending)
    /\ UpTo(pending, sequence)
    /\ pc # "deliver" => Above(pending, DurableHead)
    /\ after = "preview" /\ pc \in {"commit", "deliver"} =>
            UpTo(pending, sequence - 1)

(* The actor gives up its batch before it claims a failure or stops.       *)
BatchDropped ==
    /\ pc \in {"absent", "pause", "claim", "stopped"} => pending = <<>>
    /\ pc = "deliver" /\ after = "failed" => pending = <<>>
    /\ pc = "commit" => after # "failed"

(* Submission is closed from the moment a terminal is accepted or a queue  *)
(* saturates until the actor is gone.                                      *)
ClosedOnFailure ==
    /\ failureRequest => terminalSubmitted
    /\ pc \in {"claim", "stopped"} => terminalSubmitted
    /\ pc = "deliver" /\ after = "failed" => terminalSubmitted
    /\ pc \in {"commit", "deliver"} /\ after = "terminal" => terminalSubmitted
    /\ pc = "drain" => failureRequest
    /\ pc \in {"commit", "deliver"} /\ after = "drain" => failureRequest

(* A terminal waits in the queue only while submission is closed without a *)
(* failure request, and it is the last event of the batch it joins.        *)
TerminalPlaced ==
    /\ ~terminalSubmitted \/ failureRequest => NoneCloses(queue)
    /\ TerminalLast(pending)
    /\ ~(pc \in {"commit", "deliver"} /\ after = "terminal") => NoTerminal(pending)

CoreInv == BatchNumbered /\ BatchDropped /\ ClosedOnFailure /\ TerminalPlaced

(* What the window has seen lies below the batch and the counter, a batch  *)
(* under delivery is durable, and no terminal is delivered by an actor     *)
(* that goes on.                                                           *)
Precedes(seen, rows) ==
    \A i \in 1..Len(seen), j \in 1..Len(rows) : seen[i].seq < rows[j].seq
Stored(rows) == \A j \in 1..Len(rows) : \E i \in 1..Len(ledger) : ledger[i] = rows[j]
NoEnd(seen) ==
    \A i \in 1..Len(seen) : ~ClosesRun(seen[i].kind) /\ seen[i].kind # "outbox_failed"

StreamInv ==
    /\ pc # "stopped" =>
            UpTo(delivered, sequence) /\ Precedes(delivered, pending) /\ NoEnd(delivered)
    /\ pc = "pause" => UpTo(delivered, sequence - 1)
    /\ after = "preview" /\ pc \in {"commit", "deliver"} =>
            UpTo(delivered, sequence - 1)
    /\ pc = "deliver" => Stored(pending)

(* Every accepted command is queued, numbered, or a checkpoint that waits  *)
(* behind the batch for its number.                                        *)
AcceptedCounted ==
    /\ accepted >= sequence + Len(queue)
    /\ after = "pause" /\ pc \in {"commit", "deliver"} =>
            accepted > sequence + Len(queue)

(* The number reported as durable lies below the batch.                    *)
MarkBelowBatch ==
    durability.ok =>
        /\ durability.seq <= sequence
        /\ pc = "pause" => durability.seq < sequence
        /\ Above(pending, durability.seq)

FlushInv == AcceptedCounted /\ MarkBelowBatch
=============================================================================
