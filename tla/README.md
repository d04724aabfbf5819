# Ask Myself: Agent Runs, their window, schedule and subagents in TLA+

Ask Myself is a desktop assistant (Tauri: a Rust core, a Rust host, a React window).
Its central promise concerns the *Agent Run*: one turn of a model and its tools, which
streams to the window, is stored in SQLite event by event, may be paused, may wait for the
user, may be stopped, and must survive a crash of the app with one well-defined outcome.
Around it are the window that rebuilds a run from lossy live events and the stored ledger, the
scheduler that launches runs on its own, and the subagents a run delegates to. This directory
models that machinery, checks it with TLC and proves its central invariants with TLAPS. Paths
below are relative to `src/`.

## 1. Inventory

| Component | State it keeps | Operations | Correct when |
|---|---|---|---|
| Run Event outbox, `crates/core/src/run_event_outbox.rs` | bounded queue, terminal flag and suspension flag, accepted counter, actor (counter, batch), three watch channels | `open`, `submit`, `publish_ephemeral`, `enqueue_pause_checkpoint`, `resume_submissions`, `flush`, `wait_for_terminal_commit`; the actor loop, its saturation drain, `fail_closed` | events are numbered, stored, then shown, in one order; one terminal; nobody waits for ever |
| Task and turn projections, `task_run.rs`, `db.rs` | rows of `agent_run_events`, `agent_task_runs`, `conversation_turns` | `commit_run_event_batch`, `commit_pause_checkpoint`, `fail_run_event_outbox_if_open` | the rows and the ledger tell the same story; late events do not lift the user barrier |
| Startup recovery, `run_event_outbox.rs` 243-700, `main.rs` | SQLite only | plan, restore a suspension, repair a terminal, close an interrupted run, converge the scheduler | every mix of rows a crash can leave is settled |
| Session host, `apps/desktop/src-tauri/src/desktop_agent_session/`, `commands/agent_chat.rs`, `commands/workflows.rs` | running executors, cancellation tokens | launch, stop, pause, resume, finalize, timeout | stop and pause are clean boundaries whatever the executor is doing |
| Session registry, `runtime.rs`, `agent_session.rs` | conversation to executor, one lock per run | register, take, take_for_run, acquire_run_lifecycle | at most one executor per run; commands serialised |
| User interactions, `interaction.rs` | requests and responses, resume tokens | create, present, answer, cancel, expire, acknowledge | a run resumes once, after its last required answer |
| Resume checkpoints, `workflow_automation/resume.rs` | checkpoint rows, idempotency keys | claim and requeue | a paused run is re-queued once |
| Turn loop, `agent/turn_loop.rs` and neighbours | budgets, attempts, loop guard, plan | model attempt, tool batch, output recovery, finalization | a turn ends, within its budgets, with one outcome |
| Workflow scheduler, `workflow_automation/`, `workflow_scheduler.rs` | definitions with revision and `next_run_at`, occurrences with lease and attempt, runs, approvals | save, list due, run now, claim, request and resolve approval, start, launch failure, transition | an occurrence runs once, under the saved revision and its approval; overlap and source locks hold; no due slot is passed over |
| Frontend stream, `apps/desktop/src/lib/streamStore.ts`, `lib/streaming/` | cursor, buffered events, watchdog generation, queries in flight | dispatch, gap recovery, watchdog, launch handshake, hydration | the window shows each durable event once, in order, and stops when the run has ended |
| Delegation, `delegation_scheduler.rs`, `subagent_lifecycle.rs`, `subagent_tool/` | lane semaphores, budget counters, batch slots, lifecycle handles, task rows | spawn, spawn a batch, judge, wait, cancel, close, observe | limits and reserves hold, credits balance, every worker and batch settles, the records agree |
| Tool approvals, `approval.rs` | pending prompts | request, resolve, deny on stop | a stopped run leaves no open prompt |
| Database executor, `db_executor.rs` | read and write lanes | submit a closure, shut down | bounded, and every caller is answered |
| Media jobs, `media_generation/` (not wired to the app) | durable job rows | submit, poll, cancel, recover | a paid job is neither lost nor sent twice |
| Everything else (`PROJECT.json`, components) | | | knowledge base, tools, settings, UI: no protocol of their own, or pure I/O |

How they interact. The executor (turn loop), the stream bridge and the finalizer are
*producers*: they call `submit` and go on. One actor task per run drains the queue; each of
its SQLite transactions is an await, during which producers, host commands and the
executor's own direct row writes proceed. Finalizers, stops and pauses wait on the actor's
watch channels. Launches, answers and stops of *suspended* runs hold the run's lifecycle
lock; the stop of a *running* turn does not. After a crash only SQLite is left.

The window receives what the actor delivers, unless it is lost (a reload, an overloaded
bridge); three procedures of the window then read the ledger page by page, across awaits, and
apply what they read to the same projection. The scheduler's tick, the `Run now` command, the
approval command, the launch task and startup recovery each work in transactions of their own
on the same three tables. A subagent call passes a lane semaphore, a budget check, a batch
semaphore and its execution, each an await at which its parent, a batch policy, a deadline or a
user can cancel it.

What is hard: four kinds of writers of the same two status columns (actor, executor,
interaction transactions, finalizers); numbers used up by previews that SQLite never sees;
a queue that closes itself when full; a failure whose claim may fail too; aborts between
two commits; crashes between any two of them; pages older than the live events they are merged
with; launches that come back after their lease; permits and credits to give back on every
early exit. `PROJECT.json` lists each under `hazards`
with its line and the properties aimed at it.

## 2. Modules

| Module | Models | Lines it follows |
|---|---|---|
| `RunProjection` | pure: event kinds, `closes_run`, and what an event does to the task and turn status | `agent_run.rs`, `task_run.rs` 190-645 |
| `RunEventOutbox` | the outbox, its actor, the executor and the host commands on one run | `run_event_outbox.rs` 164-240, 773-1464; `task_run.rs`; `stop.rs`, `finalize.rs`, `agent_chat.rs`, `workflows.rs`, `interaction.rs`, `resume.rs` |
| `RunLedger` | abstract: what the outbox promises | |
| `RunEventOutboxRefinement` | the mapping, and `ImplementsLedger` | |
| `RunRecovery` | crash, startup recovery, the scheduler's row | `run_event_outbox.rs` 243-700, `main.rs` 605-614 |
| `StreamStore` | the window's projection of a run, fed by what `RunEventOutbox` delivers | `lib/streamStore.ts`, `lib/streaming/ordering.ts`, `runReconciliation.ts`, `durableReplay.ts`, `runEventLifecycle.ts`, `lib/useChatSession.ts` 700-747; `db.rs` 631-660 |
| `WorkflowScheduler` | definitions, occurrences, runs, approvals, launches | `workflow_automation/scheduling.rs`, `approvals.rs`, `mod.rs`; `commands/workflows.rs`; `run_event_outbox.rs` 601-673 |
| `Delegation` | the workers, the judge and the batch of one turn | `delegation_scheduler.rs`, `subagent_lifecycle.rs`, `subagent_tool/` |
| `MCRunEventOutbox`, `MCRunRecovery`, `MCStreamStore`, `MCWorkflowScheduler`, `MCDelegation` | instances for TLC; the claims of the documentation | |
| `RunEventOutbox_proof`, `RunEventOutboxStream_proof`, `RunEventOutboxPause_proof`, `RunEventOutboxRefinement_proof` | theorems about the outbox: its ledger, its stream, its projections and checkpoints, its refinement of `RunLedger` | |
| `RunRecovery_proof`, `StreamStore_proof`, `WorkflowScheduler_proof`, `Delegation_proof` | theorems about the module each is named after | |

### State and actions

Durable state: `ledger` (`agent_run_events` in commit order), `task`, `turn` (the status
columns), `barrier` (an unresolved interaction request exists), `answered` (an answer was
consumed and no stop has cancelled it). Shared between producers and
actor: `queue`, `terminalSubmitted`, `submissionsPaused`, `accepted`
(`accepted_high_water`), `failureRequest` (the failure channel that saturation uses). Actor:
`pc`, `after` (what it does once the current transaction is delivered), `sequence`,
`pending`. Seen by others: `durability` and `completion` (watch channels), `pauseReply` (the
one-shot reply of a checkpoint, with the steps of the command before it), `delivered` (what
this actor sent to the window). Host: `executor`, `cancelled`, `lifecycle` (holder of
`acquire_run_lifecycle`).

* Producers: `Submit(k)`, `PublishEphemeral`. A durable event that finds the queue full
  closes the outbox (`SaturateQueue`); a preview is dropped.
* Actor, a step per await: `RecvDurable`, `RecvPreview`, `RecvPause`, `FlushTick`;
  `CommitBatch`, `CommitCheckpoint` and how they fail (`CommitFails`, `CommitRefused`,
  `CheckpointRefused`); `DeliverBatch`, `DeliverBeforePreview`, `DeliverBeforePause`,
  `DeliverCheckpoint`; `BeginDrain`, `DrainCommand`, `DrainEnds`; and `fail_closed`:
  `ClaimFailure` with `DeliverFailure`, `ClaimLost`, `ClaimFails`.
* Stop of a running turn, and pause: `FenceExecutor` (abort and await), `FlushedForPause`,
  denials of open approvals (`MayProduce`), `PauseWithCheckpoint`; `PauseRejected`,
  `PauseAbandoned`, `ReconcileFailedStop`.
* Stop of a suspended run: `BeginStop`, the cancelling event, `StopFindsClosed`,
  `CancelInteractions`, the cancelled terminal, `StopEnds`; `StopAbandoned`.
* Question and answer: `CreateInteraction`, `SuspendForInteraction`, `AnswerInteraction`
  (again, if a restart has put an answered run back behind the barrier), and
  `WithdrawInteraction`, the commands that close a request and leave the run's rows alone.
* Launch of a resumed run: `ResumeFromCheckpoint` or `AnswerInteraction`, then
  `ResumeSubmissions`, `LaunchSuperseded` or `ResumeRejected`; `Open` for a run whose actor
  is gone.
* Executor: `ExecutorProgress` (row writes that bypass the outbox),
  `ExecutorFinalizesTurn`, `ExecutorReturns`; the host's `FinalizeTurn`.

`RunRecovery` adds `phase`, `workflow` (the scheduler's row), `owed` (a task of this process
will finalize the run), and: `Crash`; one startup transaction (`NothingToRecover`,
`RepairTerminal`, `RestoreSuspension`, `PlanInterrupted`); `CloseInterrupted` with the
actor's ordinary steps (`ActorCloses`), `ConvergeTerminal`; `AbortStartup`.

`StreamStore`: `log` (the run's events by number), `wire` (sent, not yet delivered or lost),
`stream` (the conversation's `InternalStreamState`: cursor `last`, buffer `pending`, timer,
streaming, bound to its handle, anything visible), `reader` (what gap recovery, watchdog and
hydration remember across their awaits), `queries` and `runsQuery` (the reconciler's
`inFlight`), and the histories `shown`, `hidden`, `late`. `Emit` and `Reload` are external;
`Dispatch` is one live event; `GapPage`, `GapRetry`, `GapIsStale` the loop of `recoverGap`;
`WatchdogFires`, `ReadRuns`, `WatchdogRuns`, `WatchdogNextPage`, `WatchdogIsStale`,
`WatchdogOutcome` the watchdog; `BeginHydration`, `HydrationNextPage`, `AdmitHydration`,
`CommitHydration` the restore; `ReadPage` the native read, `DeadlinePasses`,
`PageQueryFails`, `RunsQueryFails` its faults; and `BindTurnHandle`, `SendError`,
`StartStream`, `Heartbeat`, `MarkResumableSuspension`.

`WorkflowScheduler`: `autos`, `occs`, `runs` (the three tables), `dues` (what a tick or `Run
now` holds and has yet to claim), `launch` (where the launch task of each run is), `clock`,
`requests` (bound), `overtaken` (history). One action per transaction: `SaveAutomation`,
`ListDue`, `RunNow`, `Claim` (prepare, decide and queue or use up), `RequestApproval`,
`Approve`, `Deny`, `Start`, `StartRefused`, `LaunchFailed`, `RunEnds`, `Restart`; and time:
`Fire`, `LeaseExpires`, `BackoffEnds`.

`Delegation`: `pc` (where each call is between its awaits), `outcome`, `verdict`, `line` and
`batchLine` (waiters of the semaphores, which tokio serves in order), the budget counters,
`handle`, `waits` (a parent in `wait_subagent`), `tokens` (cancelled), `row`, the batch
(`batch`, `joined`, `results`), and the histories `lost` (a row whose last write failed) and
`leaked` (a credit never given back). A call goes through `Spawn` or `SpawnBatch`, `Begin`,
`Enqueue`, `Grant`, `Charge`, `TakeSlot`, `Start`, `ExecutionEnds`, `Account`, `Decide`,
`Finish`, `Notify`, with the refusal, failure or cancellation of each step as an action of its
own; the parent collects the batch, waits, cancels and closes.

### Abstractions

* An event is its kind. Payloads, redaction and validation are data; `submit` validates
  before it enqueues, so the actor's own validation cannot fail on them.
* The interaction requests of a run are two Booleans: some are unresolved, or none; and an
  answer was consumed. A request does not expire by itself: `request_user_input` gives it no
  deadline. `WithdrawInteraction` reaches the same states and more.
* A Status event of phase `AwaitingUserInput` is one of the kinds `AwaitsUser`: the
  executor's `awaiting_user_input` and the `cancelling` of a stop. `ProjectTask` ignores both
  when nothing is unresolved, as `task_run.rs` 431-439 does.
* A SQLite transaction is one step that happens or fails without effect.
* The stop of a running turn and the pause command share their steps. Neither is made to
  hold the lifecycle lock in the model, which the pause does: the model allows more
  interleavings than the pause has, and exactly those of the stop. `PauseAbandoned` is the
  pause's, `ReconcileFailedStop` the stop's continuation.
* `accepted` grows in the step that enqueues. In the code the counter follows the enqueue; a
  flush that falls in between began before the submission returned.
* `flush` waits for the value of `accepted` at its call; the model compares with the current
  one, which while submissions go on only delays a return, and says more of one that happens.
* `ExecutorProgress` stands for every unguarded call of `update_agent_task_run_progress` in
  the turn loop: `running`, or `awaiting_user_input` by an executor that has suspended.
* The actor's `recv` never returns `None`: the actor's context holds the outbox and so a
  sender.
* `StreamStore`: one run per conversation, whose task row exists; live events arrive in order
  or are lost; the watchdog, two minutes of silence, fires only when nothing is on the wire; a
  completed run's message can be loaded when its terminal is known. The backend is the stream
  `DeliveredInOrder`, `DeliveredIsDurable` and `TerminalEndsStream` promise (the last is the
  assumption on `Plans` that nothing follows the end of a run). `late` marks a recovery whose
  page was read before the live events it vouches for, or from a cursor that the projection,
  replaced in between, has not reached (`Outdated`; a run suspended and resumed is enough).
  `_watchdogGeneration` belongs to the state object and counts from zero in a new one; the
  model keeps how it compares with the generation a watchdog fired in, not by how much it is
  behind, so a replaced state may meet the old number at any reset (more often than the code).
  The task row is taken to stay final once a run has ended; finding 2 shows that a late
  progress write can set it back to `running`, and then the watchdog would wait on.
* `WorkflowScheduler`: a fire time is a number, a lease and a backoff are Booleans that time
  ends; definitions with isolated patches share one source root; the reads of
  `mark_workflow_automation_launch_failed_for_retry` are atomic with its transaction; a
  restart finds every running run interrupted.
* `Delegation`: one level of delegation; a call's reserved tokens are `Credit`, what it used a
  member of `Usage`; a batch registers its handles in one step; `notify_waiters` is one step
  with the write before it except in `finish`, where the code awaits in between.

### Constants and bounds

`Capacity` and `MaxBatch` are the code's 512 and 32 (TLC: 2 and 2, so that a queue fills, a
batch fills, a batch waits behind a preview or a checkpoint, and a prefix is drained in two
transactions). `MaxSequence` bounds accepted commands (3 or 4: a preview, a deferred event, a
checkpoint and an event after the resume; or a pause, a resume and a second pause).
`MaxFaults` bounds failed transactions (2 lets the batch fail and then the claim of that
failure; that is all one actor can meet). `MaxProgress`, `MaxInteractions`, `MaxCrashes`
bound the executor's direct writes, questions (1 each) and crashes (a crash during
recovery is also `AbortStartup`); `recovery` has two crashes, so that a restored suspension is stopped or
answered and cut off again. The type invariant, the ledger and the stream properties do not depend
on the bounds: they are proved for all values.

`StreamStore`: `Plans` are three runs (stored and unstored progress with both ends, a
suspension with its resumption), `PageSize` 1 so that every suffix of two rows takes two
pages, `MaxAttempts` 2 (4 in the code) so that there is a first and a last attempt,
`MaxFaults` 1, `MaxReloads` 1. `WorkflowScheduler`: two definitions, the first saved again
with opposite policies, `MaxAttempts` 3 (4 in the code), one fire time after the first,
one `Run now`, one due in hand, which the tick and `Due now` may both have listed and claim
one after the other, three runs. Run by hand as well, with no violation: one definition with a second fire time
(464,760 states), two definitions with a second fire time, two attempts and two runs
(1,112,972), and two definitions with two dues in hand and two attempts (1,992,289). `Delegation`: four setups, described in `MCDelegation`; by hand also the shared
lane with a judge (186,378 states).

## 3. Runs

`CHECK_DEADLOCK FALSE` throughout: a run that has ended stops.

| Run | Checks | States |
|---|---|---|
| `outbox_stream` | `LedgerOrdered`, `DeliveredInOrder`, `DeliveredIsDurable`, `TerminalEndsStream`, `FlushBarrier`, `PausedIsQuiescent`, `StoppedIsClosed`, `ImplementsLedger`, `TerminalBarrierResolves`, `PauseIsAnswered`, `DeferredIsFlushed`, with previews, approvals, checkpoints, two terminals, saturation, up to two failed transactions | 180,475 |
| `outbox_session` | `TypeOK`, `LedgerOrdered`, `LedgerAppendOnly`, `BarrierHolds`, with questions, answers, withdrawn requests, both kinds of stop, pauses, resumes and direct progress writes | 1,711,959 |
| `recovery` | `LedgerOrdered`, `RecoveredIsSettled`, `PauseSurvivesCrash`, `RecoveryHonoursStop`, `RecoveryCompletes`, with two crashes at any point | 405,497 |
| `stream` | `TypeOK`, `ShownInOrder`, `NothingSkippedInTime`, `NeverRollsBack`, `EndedIsSettled`, `GapIsResolved`, with lost events, a failed or late query, a reload or a continued stream | 294,715 |
| `scheduler` | `TypeOK`, `OneExecution`, `OverlapIsSkipped`, `OneIsolatedWriter`, `StartsAreAuthorised`, `CursorLeavesNothingBehind` | 963,837 |
| `delegation` | `TypeOK`, `CreditsReserved`, `BudgetBalances`, `ParallelBounded`, `OneStory`, `WaitIsWoken`, `HandleSettles`, `BatchSettles` | 100,810 |
| `claim_*` (6) | one statement of the documentation or of a comment each, which the code does not keep: section 4 | |

What the properties say:

* `LedgerOrdered`, `LedgerAppendOnly`: the numbers of the stored rows increase, a true
  terminal is the last row, rows are never changed.
* `DeliveredInOrder`, `DeliveredIsDurable`, `TerminalEndsStream`: the window never sees a
  number twice or out of order, nothing it saw is lost, nothing follows a terminal or the
  internally generated failure.
* `FlushBarrier`: a flush that returns leaves nothing accepted before it uncommitted.
* `PausedIsQuiescent`: nothing is committed behind a checkpoint until the run is resumed. It is
  a promise of runs whose tools ask no question (`outbox_stream` has none): an unguarded pause
  row of a run that also waits for the user is what finding 4 is about.
* `StoppedIsClosed`: no event is accepted that no actor is left to commit.
* `BarrierHolds`: events accepted before a question do not lift the wait for its answer. A stop
  does, and it is the commit of its `cancelling` event that does (`StoresStop`), which may fall
  before or after the host's own steps; an executor that has not yet gone to wait may still
  write its progress.
* `ImplementsLedger`: the outbox implements `RunLedger`: durable history is made of prefixes
  of what was accepted, a loss takes everything behind it and closes the outbox, a terminal
  closes it for good, and nothing stays in flight for ever. An event is in flight from the
  queue to its commit; once the actor fails closed, what it holds counts as lost.
* `TerminalBarrierResolves`, `PauseIsAnswered`, `DeferredIsFlushed`, `RecoveryCompletes`:
  finalizers, stops and pauses, deferred events, and startup do not wait for ever.
* `RecoveredIsSettled`, `PauseSurvivesCrash`, `RecoveryHonoursStop`: what a restart leaves. A
  stop is honoured if it is the latest decision in the ledger (`StopIsLatest`): a suspension
  stored behind the `cancelling` event is what `suspended_run_action` goes by. And only of
  rows the startup query classifies: when both still say `awaiting_user_input` it does not, and
  the stop is lost (end of section 4).
* `ShownInOrder`, `NothingSkippedInTime`, `NeverRollsBack`: the window shows no event twice or
  out of order, moves its cursor over no durable event (unless a page older than the live
  events vouched for them: finding 6), and no restore takes back what was shown.
* `EndedIsSettled`, `GapIsResolved`: a stream whose run has ended stops, and a gap is filled,
  skipped with the ledger's consent or reported, whatever was lost.
* `OneExecution`, `StartsAreAuthorised`: an occurrence is executed once, and only under the
  saved revision, while enabled, with its approval. `OverlapIsSkipped`, `OneIsolatedWriter`:
  the policies hold over queued, waiting and running runs alike. `CursorLeavesNothingBehind`:
  `next_run_at` passes no slot whose occurrence is not used up. For misfire policy
  `run_latest` that is not promised, so the property is about `skip`; and it is stated up to
  the first `Run now` of a definition. With overlap `allow` and two `Run now` that wait
  together, each gives back the cursor it found, and the second start moves it past a slot that
  no tick listed (15 steps; the bounds of `scheduler` allow one `Run now`).
* `CreditsReserved`, `BudgetBalances`, `ParallelBounded`: limits, reserves and counters of the
  turn through every refusal, rollback and end. `OneStory`: execution, row and handle agree.
  `WaitIsWoken`, `HandleSettles`, `BatchSettles`: nobody sleeps through an end, and every
  worker and batch comes to one.

Fairness. `WF(Actor)`: the runtime polls a spawned actor whose await is ready, SQLite answers
or fails, the flush interval ticks. The `select!` is biased, so the flush tick is an action
only when the queue is empty; nothing stronger is assumed for it.
`WF(FlushedForPause \/ PauseRejected)`: a command blocked on the durability channel is woken
when it changes. `WF(ExecutorReturns)`: a cancelled or suspended executor reaches a
cancellation point. Nothing is assumed of the user, of producers, or of a command's decision
to go on. In `RunRecovery` the startup sequence is weakly fair (it is awaited in `main`).
`StreamStore`: the event loop runs timers and continuations and the database answers
(`Recover`), what was sent and not lost arrives (`Dispatch`), the launch command returns
(`BindTurnHandle`); nothing of the user, of the backend's next event or of heartbeats.
`Delegation`: each call that was made goes on (threads run, a provider answers or fails), and
the parent's loop over its batch runs; nothing of spawning, waiting or cancelling.
`WorkflowScheduler` states safety only: whether a due occurrence ever runs depends on ticks,
leases and the user's approvals.

Mutants: `PROJECT.json` names for each property a plausible bug (a counter that does not
move, a failure numbered from the ledger alone, a batch dropped without closing the outbox, a
waiter not failed, a turn status not written at recovery, ...), which the property catches.

## 4. Findings

Six statements of the documentation or of comments that the code does not keep; each
`claim_*` run gives a counterexample.

1. `claim_preview`. "A diagnostic snapshot must never poison the authoritative run"
   (`docs/AGENT_STREAMING_PROTOCOL.md`). A preview uses up a number that SQLite never sees;
   a checkpoint right after it does not carry the ledger's next number, is refused, and the
   run fails closed.
2. `claim_fail_closed`. "Reopening then reconstructs the closed state from durable storage"
   (same document). The failure is only in the task row, and an unguarded progress write of
   the executor that is being cancelled sets that row back to `running`.
3. `claim_answered`. "Never let that stale executor overwrite the resumed ... state"
   (`finalize.rs`). The suspended executor's own plan checkpoint writes
   `awaiting_user_input` after the answer has re-queued the run.
4. `claim_fenced`. "No model/tool future remains alive while the outbox drains and commits
   the resumable checkpoint" (`stop.rs`). The stop of a running turn does not hold the
   lifecycle lock; an answer can launch the next executor before the checkpoint commits.
5. `claim_workflow`. "This releases occurrence/source locks after a restart"
   (`run_event_outbox.rs`). A crash between the terminal transaction and the finalizer's
   transition of the scheduler's row leaves rows that the startup query does not select.
6. `claim_complete`. "Strict live dispatch alone never guesses that a gap was ephemeral", and
   live events after the query's high water wait for another pass
   (`docs/AGENT_STREAMING_PROTOCOL.md`). A gap recovery reads the live events it will vouch for
   and then joins a page query already in flight (`runReconciliation.ts` 397), whose read may
   be older; a durable event committed in between is taken for an ephemeral number and never
   shown.

Seen while modelling, without a run of its own: `mark_workflow_automation_launch_failed_for_retry`
(`scheduling.rs` 1168-1247) compares neither lease nor attempt nor revision. A launch that
had lost its occurrence and fails late puts an occurrence that is running, or was superseded by
a save, back to `retry_wait` and moves the definition's cursor: the occurrence can be executed
twice, and a slot of the new revision skipped (`docs/SCHEDULED_TASKS.md`: "Concurrent ticks
must not launch the same occurrence twice"). `OneExecution` and `CursorLeavesNothingBehind`
hold for everything else; the history variable `overtaken` names the exception. And
`execute_subagent_worker` returns without settling its credit when the owner of the
conversation cannot be read (`stages.rs` 669); `BudgetBalances` counts it as `leaked`.

A stop can be lost in a crash, although "callers can persist a cancelling Run Event before
mutating the interaction rows, so a crash cannot lose the stop intent" (`interaction.rs`
1108-1110). That event carries phase `AwaitingUserInput` (`agent_chat.rs` 2419-2426), and
`task_run.rs` 431-439 ignores such an event when the run has no unresolved interaction. The rows
of a suspended run whose request was withdrawn, or whose answer was consumed before a crash put
the run back behind the barrier, therefore do not show the stop; after a crash before the
cancelled terminal the startup query (`run_event_outbox.rs` 308-322) does not select the run, and
it goes on waiting. `RecoveryHonoursStop` names this case as its exception; without the exception
TLC refutes it in ten states, by way of `WithdrawInteraction`.

## 5. Proofs

Every safety property that a passing run checks is proved for all values of the constants,
except `CursorLeavesNothingBehind`.

Assumptions: `ConstantsAssumption` of the outbox (capacity and batch size positive, bounds
natural, kinds among the event kinds), and those of `StreamStore`, `WorkflowScheduler` and
`Delegation` on their plans, policies, calls, setups and credits; all are evaluated by TLC in
the runs of those modules. No proof depends on a bound being small.

How the proofs are laid out. Each module states an inductive invariant as a conjunction of
named parts, checks it with one lemma per action (or one lemma that sorts the actions by what
they do to the part in question, and one per sort), and ends in theorems that combine the
non-temporal facts. The library's induction theorems take an operator and cannot be used here;
where a definition recurses over a batch, a page or a set of calls, the modules prove
`SetInduction` (induction for a *set* of numbers, from well-foundedness), with it that the
recursive function unfolds (`ProjectionsUnfold`, `EventsUnfold`, `CreditSumUnfolds`), and from there what the
step needs.

`RunEventOutbox_proof` proves `TypeCorrect` (`TypeOK`), `LedgerIsOrdered`
(`LedgerOrdered`), `StoppedActorIsClosed` (`StoppedIsClosed`) and `HistoryIsAppendOnly`
(`LedgerAppendOnly`). `LedgerOrdered` is not inductive: whether the next transaction keeps it
depends on what the actor holds. `CoreInv` says it in four parts: `BatchNumbered` (the batch
lies between the ledger's head and the counter), `BatchDropped` (the batch is given up before
a failure is claimed), `ClosedOnFailure` (submission is closed from saturation or an accepted
terminal until the actor is gone, so no second terminal gets into the queue),
`TerminalPlaced` (a terminal waits only in a closed queue, and is last in its batch). There
is one lemma per action; the two interesting ones are `CommitBatch`, where the batch becomes
the ledger's suffix, and `Open`, where a new actor starts from the ledger's head.

`RunEventOutboxStream_proof` proves `StreamIsInOrder`, `StreamIsDurable`, `StreamEndsOnce`
(`DeliveredInOrder`, `DeliveredIsDurable`, `TerminalEndsStream`) from `StreamInv` (what was
delivered lies below the batch and the counter, a batch under delivery is durable, an actor
that goes on has delivered no terminal), and `FlushIsBarrier` (`FlushBarrier`) from
`FlushInv` (`AcceptedCounted`: every accepted command is queued, numbered, or a checkpoint
waiting behind the batch; `MarkBelowBatch`).

`RunEventOutboxPause_proof` proves `BarrierIsKept` (`BarrierHolds`), by induction over the
batch that a transaction projects: each event leaves a waiting task row alone unless it is a
terminal or `cancelling`. `CheckpointIsClean` is `PausedIsQuiescent` for runs without a
question (`interactions = 0`), from `PauseInv`: a pause fences the executor before it flushes,
its command is the last one the outbox accepts until the answer, and only its own transaction
stores a `paused` event.

`RunEventOutboxRefinement_proof` proves `OutboxImplementsLedger`: as long as no tool has asked
the user, the outbox implements `RunLedger` (the safety part of `ImplementsLedger`: initial
states map to initial states, every step to a step or a stutter). What is in flight is the
uncommitted batch, then a checkpoint the actor holds, then the events of the queue; the lemmas
`EventsAppended` and `EventsTaken` say what a command does to the latter as it joins and leaves
the queue, so that receiving is a stutter, a transaction is a `Commit` of a prefix, and every
loss a `Close`. The step that needs an invariant of its own is the drain of a saturated queue: it
refuses a queued checkpoint and goes on, which loses a suffix only because the checkpoint is the
last command of the queue (`CheckpointIsLast`). Once a question has been asked that is false: the
launch that follows the answer reopens submission behind a queued checkpoint (section 4), hence
the hypothesis.

`RunRecovery_proof` extends both: `LedgerSurvivesCrashes` (`LedgerOrdered` over crashes and
restarts), `StartupSettles` (`RecoveredIsSettled`), `CheckpointSurvives`
(`PauseSurvivesCrash`) and `StopIsHonoured` (`RecoveryHonoursStop`). What the startup
classification finds was left by a program stopped anywhere, so the invariant relates the rows
at *every* moment: `TerminalAgrees` and `CheckpointUncancelled` the task row to the ledger's
last row, and `StopInv` a stop to everybody who could suspend or launch the run again. It has
four parts: the stop holds the lifecycle lock with the executor fenced until its event is
durable (`StopFences`), one such event is on its way at a time (`StopOnce`), while it is the
run waits for the user or has ended, so no checkpoint gets ahead of it (`StopPlaced`), and once
it is the ledger's latest decision the run is not paused (`StopStands`). The case that
`RecoveryHonoursStop` leaves out cannot be proved away: TLC refutes it (section 4).

`StreamStore_proof` proves `StoreTyped` (`TypeOK`), `ShownOrdered` (`ShownInOrder`),
`NoEventSkipped` (`NothingSkippedInTime`) and `RestoresGoForward` (`NeverRollsBack`) from
`StoreInv`. Its heart is what a page, a query and a reader know (`GoodPage`, `GoodQuery`,
`GoodReader`): the rows collected so far are complete between where the reader began and its
cursor, and a mark taken with the first page bounds what the ledger held when it was read. They
stay true while the backend goes on writing and live events go on arriving, which is what makes
a page that is applied after an await safe; `late` is exactly where they do not suffice.

`WorkflowScheduler_proof` proves `TypeCorrect` (`TypeOK`), `OverlapPolicyHolds`
(`OverlapIsSkipped`), `WritersExcludeEachOther` (`OneIsolatedWriter`), `OnlyAuthorisedStarts`
(`StartsAreAuthorised`) and `OccurrenceRunsOnce` (`OneExecution`). `Linked` says that rows
refer to rows that exist, `ClaimsAreCurrent` that what a launch or an approval holds belongs to
the saved revision of an enabled definition (a save supersedes the rest in its own
transaction), `ReadyIsApproved` that a launch that may start has its approval,
`StartedIsConsumed` that a started run has used up its occurrence.

`Delegation_proof` proves, for every set of calls and every limit: `DelegationTyped` (`TypeOK`,
with `InLine`: whoever waits stands in its line, so the semaphore that serves the first has
one), `CreditsAreReserved` (`CreditsReserved`: the second validation is what carries the step
`Charge`, and a rollback frees at most what its call had taken), `BooksBalance`
(`BudgetBalances`, from `LeakedEnded`: a call that keeps its credit never gets back to work;
every step pays, takes back, settles or leaves the books alone, and `CreditSumSplits` says that
a sum of credits does not depend on the order of the calls, so a saturating subtraction never
saturates), `ParallelIsBounded` (`ParallelBounded`, from `IParallel`: no semaphore has more
holders than slots, and the slots of the lanes add up to `max_parallel`), `RecordsTellOneStory`
(`OneStory`, from `IStory`: at each point between execution and notification, what outcome,
row, verdict and handle already say) and `WaitersAreWoken` (`WaitIsWoken`).

What the attempts changed. `BarrierHolds`, the stop's survival, `CursorLeavesNothingBehind`
and the history `late` had held on the small instances in a form that is not true beyond them
or had said it of a state the code may be in; TLC confirmed each counterexample on a larger
instance, and section 3 gives the statement that holds.

Only model-checked: `TerminalBarrierResolves`, `PauseIsAnswered`, `DeferredIsFlushed`,
`RecoveryCompletes`, `EndedIsSettled`, `GapIsResolved`, `HandleSettles`, `BatchSettles` and the
fairness of `ImplementsLedger`, since liveness is out of the prover's reach; `ImplementsLedger`
with a question under way, where it does not hold; and `CursorLeavesNothingBehind`, whose
inductive invariant has yet to be found.

## 6. Not modelled, and the plan

By intent: retrieval, embeddings, parsing, providers' wire protocols, tools' side effects,
migrations, settings, catalogs and presentation. They are data processing or I/O; a run sees
them as events and return values. They are also most of the repository: of some 290,000
implementation lines the state machines above are a few thousand, the provider adapters, tools
(`llm/`, `tools/`, `office`, `browser`), migrations and settings schemas and the React views
the rest. The map therefore names a small share of the lines, all of them lines that a
definition translates. `media_generation/` has a protocol but no caller in the application.

Of the modelled components, `PROJECT.json` says for each what is left out.

Next modules, most important first:

1. `AgentInteraction`: the request state machine with siblings, expiry, replayed responses
   and resume tokens; replaces the Boolean `barrier` (a refinement to it), with the
   idempotency keys of resume checkpoints.
2. `RunLifecycle`: the session registry with several runs of a conversation, `take` against
   `register`, the lifecycle locks; the composition of `RunEventOutbox` with
   `WorkflowScheduler` (a stop between the terminal commit and the scheduler's transition).
3. `TurnBudget`: model attempts, fallback routes, output recovery, loop guard: termination
   and one outcome.
4. `DatabaseExecutor`: the two lanes, admission and shutdown.

Next theorem: `CursorLeavesNothingBehind`, with the invariant that ties each cursor a waiting
occurrence will give back to the slots listed before it.
