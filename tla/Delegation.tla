----------------------------- MODULE Delegation -----------------------------
(***************************************************************************)
(* The delegated executions of one agent turn: the workers that            *)
(* spawn_subagent and spawn_subagent_batch start and the calls of          *)
(* judge_subagent_results.  Every call passes the DelegationScheduler,     *)
(* which validates it, makes it wait for a slot of its lane and charges it *)
(* once it has one; a worker of a batch then waits for one of the batch's  *)
(* own slots.  A worker also has a handle in the SubagentLifecycleRuntime, *)
(* which the parent waits on, cancels and closes, and a durable subtask    *)
(* row.                                                                    *)
(*                                                                         *)
(* Every worker is a thread of its own; an action is what a call does      *)
(* between two of its awaits or locks.  The semaphores are those of tokio, *)
(* which serve in the order of arrival.                                    *)
(***************************************************************************)
EXTENDS Integers, Sequences, FiniteSets

CONSTANTS
    Explorers,      \* workers of any role but verifier
    Verifiers,      \* workers of the role verifier
    Judges,         \* calls of judge_subagent_results
    Controlled,     \* bound: the workers the parent waits on, cancels and closes one by one
    Setups,         \* turns: the limits, the arguments of spawn_subagent_batch, the calls
                    \* made, and how many operations of the database or the system fail
    Credit,         \* reserved_tokens of each call
    Usage           \* bound: the tokens an execution uses

Workers == Explorers \cup Verifiers
Calls == Workers \cup Judges
Limits == [parallel : 1..12, calls : Nat, tokens : Nat, reserve : BOOLEAN,
           queueDeadline : BOOLEAN, runDeadline : BOOLEAN]
Requests == [workers : SUBSET Workers, parallel : 1..12, cancelRemaining : BOOLEAN,
             quorum : Nat,
             policy : {"all", "quorum", "first_success", "deadline", "parent_decides"}]

ASSUME CallAssumption ==
    /\ Explorers \cap Verifiers = {} /\ Workers \cap Judges = {}
    /\ Controlled \subseteq Workers
    /\ IsFiniteSet(Calls)
ASSUME LimitAssumption ==
    /\ Setups \subseteq [limits : Limits, request : Requests, calls : SUBSET Calls, faults : Nat]
    /\ \A setup \in Setups : setup.request.workers \subseteq setup.calls
    /\ Credit \in [Calls -> Nat] /\ Usage \subseteq Nat

VARIABLES
    limits,         \* DelegationBudgetState.limits; an absent limit is one never reached
    request,        \* the arguments of spawn_subagent_batch
    pc,             \* where each call is
    outcome,        \* how its execution ended
    verdict,        \* the status settle_worker_lifecycle has chosen for it
    line,           \* the calls that wait for each semaphore of the scheduler
    batchLine,      \* the workers that wait for a slot of the batch
    calls, verifications, judgements, reserved, spent,      \* DelegationBudgetState
    handle,         \* the lifecycle status of each worker
    tokens,         \* the workers whose own cancel token is cancelled
    waits,          \* where the parent's wait_subagent is, for each worker
    row,            \* the status of each call's agent_subtask_runs row
    batch,          \* where spawn_subagent_batch is
    joined,         \* the workers whose result it has collected
    results,        \* the workers whose result observe_subagent_batch reports
    stopped,        \* the cancel token of the turn
    faults,         \* bound: how many operations may still fail
    lost,           \* history: calls whose final row could not be written
    leaked          \* history: calls that ended without giving their credit back

budget == <<calls, verifications, judgements, reserved, spent>>
group == <<batch, joined, results, request>>
vars == <<limits, pc, outcome, verdict, line, batchLine, budget, handle, tokens, waits, row,
          group, stopped, faults, lost, leaked>>

Batch == request.workers

Ended == {"completed", "failed", "cancelled"}
Live == {"queued", "running", "cancelling"}
Semaphores == {"shared", "exploration", "verification", "judge"}
Holding == {"granted", "charged", "starting", "executing", "accounting"}
Charged == Holding \ {"granted"}
InSlot == {"starting", "executing", "accounting"}
Ran == {"ok", "error", "cancelled", "timed_out"}

(* The budget counters, tokens, rows and handles keep to their values; in  *)
(* particular no counter of the shared budget drops below zero.            *)
TypeOK ==
    /\ \E setup \in Setups : limits = setup.limits /\ request = setup.request
    /\ pc \in [Calls -> Holding \cup {"absent", "idle", "launching", "preparing", "queued",
                  "returning", "settling", "notifying", "done"}]
    /\ outcome \in [Calls -> Ran \cup {"none", "unstarted"}]
    /\ verdict \in [Workers -> Ended \cup {"none"}]
    /\ line \in [Semaphores -> Seq(Calls)] /\ batchLine \in Seq(Workers)
    /\ {calls, verifications, judgements, reserved, spent} \subseteq Nat
    /\ handle \in [Workers -> Ended \cup Live \cup {"none", "closed"}]
    /\ waits \in [Workers -> {"no", "armed", "asleep", "woken"}]
    /\ row \in [Calls -> {"none", "queued", "running", "completed", "failed", "cancelled",
                           "timed_out"}]
    /\ batch \in {"none", "waiting", "draining", "returned"}
    /\ results \subseteq Batch /\ joined \subseteq Batch
    /\ tokens \subseteq Workers /\ lost \subseteq Calls /\ leaked \subseteq Calls
    /\ stopped \in BOOLEAN /\ faults \in Nat

Init ==
    /\ \E setup \in Setups :
          /\ limits = setup.limits /\ request = setup.request /\ faults = setup.faults
          /\ pc = [c \in Calls |-> IF c \in setup.calls THEN "idle" ELSE "absent"]
    /\ outcome = [c \in Calls |-> "none"]
    /\ verdict = [w \in Workers |-> "none"]
    /\ line = [s \in Semaphores |-> <<>>] /\ batchLine = <<>>
    /\ calls = 0 /\ verifications = 0 /\ judgements = 0 /\ reserved = 0 /\ spent = 0
    /\ handle = [w \in Workers |-> "none"] /\ waits = [w \in Workers |-> "no"]
    /\ row = [c \in Calls |-> "none"]
    /\ batch = "none" /\ results = {} /\ joined = {}
    /\ tokens = {} /\ lost = {} /\ leaked = {} /\ stopped = FALSE

-----------------------------------------------------------------------------
(* Definitions.                                                            *)

LaneOf(c) == IF c \in Judges THEN "judge"
             ELSE IF c \in Verifiers THEN "verification" ELSE "exploration"

(* Verification and adjudication have lanes of their own when a share is   *)
(* reserved for them and the limits leave room for it.                     *)
Dedicated == limits.reserve /\ limits.parallel >= 3 /\ limits.calls >= 3

SemaphoreFor(c) == IF Dedicated THEN LaneOf(c) ELSE "shared"

SlotsBeyondLimit(s) ==      \* mutant of Slots
    IF s = "shared" THEN limits.parallel + 1
    ELSE IF s = "exploration" THEN limits.parallel - 2 ELSE 1

Slots(s) == CASE s = "shared" -> limits.parallel
              [] s = "exploration" -> limits.parallel - 2
              [] OTHER -> 1

HoldersToTheEnd(s) ==      \* mutant of Holders
    {c \in Calls : SemaphoreFor(c) = s
                     /\ pc[c] \in Holding \cup {"returning", "settling", "notifying", "done"}}

Holders(s) == {c \in Calls : SemaphoreFor(c) = s /\ pc[c] \in Holding}

(* effective_parallel of the batch, and who occupies its slots             *)
BatchSlots == IF request.parallel < limits.parallel THEN request.parallel ELSE limits.parallel
BatchHolders == {w \in Batch : pc[w] \in InSlot}

(* A control lane that has not been used keeps one call for itself.        *)
Unused(n) == IF Dedicated /\ n = 0 THEN 1 ELSE 0

ReservedForOthers(lane) ==
    CASE lane = "exploration" -> Unused(verifications) + Unused(judgements)
      [] lane = "verification" -> Unused(judgements)
      [] lane = "judge" -> Unused(verifications)

ValidateAdmission(c) ==
    /\ calls < limits.calls - ReservedForOthers(LaneOf(c))
    /\ LaneOf(c) = "exploration" => spent < limits.tokens

SaturatingSub(n, k) == IF n > k THEN n - k ELSE 0

Cancelled(c) == stopped \/ c \in tokens

(* Where a call goes when its execution is over or never began: a judge    *)
(* returns to the parent, a worker settles its handle.                     *)
After(c) == IF c \in Judges THEN "done" ELSE "returning"

(* record_batch_result: what a worker of the batch does last               *)
RecordResult(w) == results' = IF w \in Batch THEN results \cup {w} ELSE results

(* A future that is dropped leaves the queue of its semaphore.             *)
Leave(q, c) ==
    IF \E i \in 1..Len(q) : q[i] = c
    THEN LET i == CHOOSE i \in 1..Len(q) : q[i] = c
         IN  SubSeq(q, 1, i - 1) \o SubSeq(q, i + 1, Len(q))
    ELSE q

Go(c, to) == pc' = [pc EXCEPT ![c] = to]
Fails == faults > 0 /\ faults' = faults - 1

(* notify_waiters wakes every wait that is registered, whatever its worker. *)
WakeAll == waits' = [w \in Workers |-> IF waits[w] = "no" THEN "no" ELSE "woken"]

(* finish_subtask_run_best_effort: a failed write is logged and not        *)
(* repeated; n operations may still fail.                                  *)
CloseRow(c, status, n) ==
    \/ /\ row' = [row EXCEPT ![c] = status]
       /\ faults' = n
       /\ UNCHANGED lost
    \/ /\ n > 0 /\ faults' = n - 1
       /\ lost' = lost \cup {c}
       /\ UNCHANGED row

(* A call that has a row ends before its execution began.                  *)
EndUnstarted(c) ==
    /\ Go(c, After(c))
    /\ outcome' = [outcome EXCEPT ![c] = "unstarted"]
    /\ CloseRow(c, "failed", faults)
    /\ UNCHANGED <<limits, verdict, handle, tokens, waits, group, stopped, leaked>>

RollBack(c) ==
    /\ calls' = SaturatingSub(calls, 1)
    /\ verifications' = IF LaneOf(c) = "verification" THEN SaturatingSub(verifications, 1)
                        ELSE verifications
    /\ judgements' = IF LaneOf(c) = "judge" THEN SaturatingSub(judgements, 1) ELSE judgements
    /\ reserved' = SaturatingSub(reserved, Credit[c])
    /\ UNCHANGED spent

-----------------------------------------------------------------------------
(* A worker is registered and its thread started.                          *)

Spawn(w) ==
    /\ w \in Workers \ Batch /\ pc[w] = "idle"
    /\ Go(w, "launching")
    /\ handle' = [handle EXCEPT ![w] = "queued"]
    /\ WakeAll
    /\ UNCHANGED <<limits, outcome, verdict, line, batchLine, budget, tokens, row, group,
                   stopped, faults, lost, leaked>>

(* The thread cannot be started: the handle is failed and closed again.    *)
SpawnFails(w) ==
    /\ w \in Workers \ Batch /\ pc[w] = "idle" /\ Fails
    /\ Go(w, "done")
    /\ handle' = [handle EXCEPT ![w] = "closed"]
    /\ WakeAll
    /\ UNCHANGED <<limits, outcome, verdict, line, batchLine, budget, tokens, row, group,
                   stopped, lost, leaked>>

SpawnBatch ==
    /\ batch = "none" /\ Batch # {}
    /\ batch' = "waiting"
    /\ pc' = [c \in Calls |-> IF c \in Batch THEN "launching" ELSE pc[c]]
    /\ handle' = [w \in Workers |-> IF w \in Batch THEN "queued" ELSE handle[w]]
    /\ WakeAll
    /\ UNCHANGED <<limits, outcome, verdict, line, batchLine, budget, tokens, row, joined,
                   results, request, stopped, faults, lost, leaked>>

LaunchFailsUnrecorded(w) ==      \* mutant of LaunchFails
    /\ w \in Batch /\ pc[w] = "launching" /\ Fails
    /\ Go(w, "done")
    /\ UNCHANGED <<limits, outcome, verdict, line, batchLine, budget, handle, tokens, waits,
                   row, group, stopped, lost, leaked>>

(* The thread of a worker of the batch cannot be started.  The batch gets  *)
(* an error artifact; nobody settles the handle.                           *)
LaunchFails(w) ==
    /\ w \in Batch /\ pc[w] = "launching" /\ Fails
    /\ Go(w, "done")
    /\ RecordResult(w)
    /\ UNCHANGED <<limits, outcome, verdict, line, batchLine, budget, handle, tokens, waits,
                   row, batch, joined, request, stopped, lost, leaked>>

(* set_status(Running): it looks for an end, not for a cancellation.       *)
Begin(w) ==
    /\ w \in Workers /\ pc[w] = "launching"
    /\ Go(w, "preparing")
    /\ handle' = [handle EXCEPT ![w] = IF @ \in Ended THEN @ ELSE "running"]
    /\ WakeAll
    /\ UNCHANGED <<limits, outcome, verdict, line, batchLine, budget, tokens, row, group,
                   stopped, faults, lost, leaked>>

(* The activity of the worker cannot be started.                           *)
BeginFails(w) ==
    /\ w \in Workers /\ pc[w] = "launching" /\ Fails
    /\ Go(w, "done")
    /\ handle' = [handle EXCEPT ![w] = IF @ \in Ended THEN @ ELSE "failed"]
    /\ WakeAll
    /\ RecordResult(w)
    /\ UNCHANGED <<limits, outcome, verdict, line, batchLine, budget, tokens, row, batch,
                   joined, request, stopped, lost, leaked>>

-----------------------------------------------------------------------------
(* Admission.                                                              *)

(* Preflight fails, because no call is left or for a reason of its own, or *)
(* the row cannot be created.                                              *)
PrepareFails(w) ==
    /\ w \in Workers /\ pc[w] = "preparing"
    /\ IF calls >= limits.calls THEN UNCHANGED faults ELSE Fails
    /\ Go(w, "returning")
    /\ outcome' = [outcome EXCEPT ![w] = "unstarted"]
    /\ UNCHANGED <<limits, verdict, line, batchLine, budget, handle, tokens, waits, row, group,
                   stopped, lost, leaked>>

Asks(c) == pc[c] = IF c \in Judges THEN "idle" ELSE "preparing"

(* The row is created.  Phase one: validate and wait for the lane; nothing *)
(* is charged.                                                             *)
Enqueue(c) ==
    /\ Asks(c) /\ ValidateAdmission(c)
    /\ Go(c, "queued")
    /\ line' = [line EXCEPT ![SemaphoreFor(c)] = Append(@, c)]
    /\ row' = [row EXCEPT ![c] = "queued"]
    /\ UNCHANGED <<limits, outcome, verdict, batchLine, budget, handle, tokens, waits, group,
                   stopped, faults, lost, leaked>>

EnqueueRefused(c) ==
    /\ Asks(c) /\ ~ValidateAdmission(c)
    /\ EndUnstarted(c)
    /\ UNCHANGED <<line, batchLine, budget>>

(* The semaphore hands a slot to the first in its line.                    *)
Grant(c) ==
    /\ pc[c] = "queued" /\ c = Head(line[SemaphoreFor(c)])
    /\ Cardinality(Holders(SemaphoreFor(c))) < Slots(SemaphoreFor(c))
    /\ Go(c, "granted")
    /\ line' = [line EXCEPT ![SemaphoreFor(c)] = Tail(@)]
    /\ UNCHANGED <<limits, outcome, verdict, batchLine, budget, handle, tokens, waits, row,
                   group, stopped, faults, lost, leaked>>

(* The select of admit takes the cancellation, also when the slot has just *)
(* been handed over, or the deadline.                                      *)
LeaveLane(c) ==
    /\ \/ pc[c] \in {"queued", "granted"} /\ Cancelled(c)
       \/ pc[c] = "queued" /\ limits.queueDeadline
    /\ line' = [line EXCEPT ![SemaphoreFor(c)] = Leave(@, c)]
    /\ EndUnstarted(c)
    /\ UNCHANGED <<batchLine, budget>>

Pay(c) ==
    /\ Go(c, IF c \in Batch THEN "charged" ELSE "starting")
    /\ batchLine' = IF c \in Batch THEN Append(batchLine, c) ELSE batchLine
    /\ calls' = calls + 1
    /\ verifications' = verifications + (IF LaneOf(c) = "verification" THEN 1 ELSE 0)
    /\ judgements' = judgements + (IF LaneOf(c) = "judge" THEN 1 ELSE 0)
    /\ reserved' = reserved + Credit[c]
    /\ UNCHANGED <<limits, outcome, verdict, line, spent, handle, tokens, waits, row, group,
                   stopped, faults, lost, leaked>>

ChargeAsValidatedBefore(c) == pc[c] = "granted" /\ Pay(c)      \* mutant of Charge

(* Phase two: with a slot in hand, validate again and pay.                 *)
Charge(c) == pc[c] = "granted" /\ ValidateAdmission(c) /\ Pay(c)

ChargeRefused(c) ==
    /\ pc[c] = "granted" /\ ~ValidateAdmission(c)
    /\ EndUnstarted(c)
    /\ UNCHANGED <<line, batchLine, budget>>

TakeSlot(w) ==
    /\ w \in Batch /\ pc[w] = "charged" /\ w = Head(batchLine)
    /\ Cardinality(BatchHolders) < BatchSlots
    /\ Go(w, "starting")
    /\ batchLine' = Tail(batchLine)
    /\ UNCHANGED <<limits, outcome, verdict, line, budget, handle, tokens, waits, row, group,
                   stopped, faults, lost, leaked>>

LeaveBatchUnpaid(w) ==      \* mutant of LeaveBatch
    /\ w \in Batch /\ pc[w] = "charged"
    /\ Cancelled(w) \/ limits.queueDeadline
    /\ batchLine' = Leave(batchLine, w)
    /\ EndUnstarted(w)
    /\ UNCHANGED <<line, budget>>

(* Cancelled or out of time while waiting for the batch: the charge is     *)
(* taken back.                                                             *)
LeaveBatch(w) ==
    /\ w \in Batch /\ pc[w] = "charged"
    /\ Cancelled(w) \/ limits.queueDeadline
    /\ batchLine' = Leave(batchLine, w)
    /\ RollBack(w)
    /\ EndUnstarted(w)
    /\ UNCHANGED line

-----------------------------------------------------------------------------
(* Execution.                                                              *)

Start(c) ==
    /\ pc[c] = "starting"
    /\ Go(c, "executing")
    /\ row' = [row EXCEPT ![c] = "running"]
    /\ UNCHANGED <<limits, outcome, verdict, line, batchLine, budget, handle, tokens, waits,
                   group, stopped, faults, lost, leaked>>

(* mark_started fails: the charge is taken back.                           *)
StartFails(c) ==
    /\ pc[c] = "starting" /\ faults > 0
    /\ Go(c, After(c))
    /\ outcome' = [outcome EXCEPT ![c] = "unstarted"]
    /\ CloseRow(c, "failed", faults - 1)
    /\ RollBack(c)
    /\ UNCHANGED <<limits, verdict, line, batchLine, handle, tokens, waits, group, stopped,
                   leaked>>

(* The parent's row cannot be read: the worker returns with its charge and *)
(* its credit; dropping its SubtaskRecorder closes the row.                *)
OwnerLookupFails(w) ==
    /\ w \in Workers /\ pc[w] = "executing" /\ faults > 0
    /\ Go(w, "returning")
    /\ outcome' = [outcome EXCEPT ![w] = "error"]
    /\ CloseRow(w, "failed", faults - 1)
    /\ leaked' = leaked \cup {w}
    /\ UNCHANGED <<limits, verdict, line, batchLine, budget, handle, tokens, waits, group,
                   stopped>>

(* await_subagent_worker_completion looks at the cancellation before the   *)
(* executor; the judge's select prefers neither.                           *)
ExecutionEnds(c) ==
    /\ pc[c] = "executing"
    /\ \/ (c \in Workers => ~Cancelled(c)) /\ outcome' = [outcome EXCEPT ![c] = "ok"]
       \/ outcome' = [outcome EXCEPT ![c] = "error"]
       \/ Cancelled(c) /\ outcome' = [outcome EXCEPT ![c] = "cancelled"]
       \/ limits.runDeadline /\ outcome' = [outcome EXCEPT ![c] = "timed_out"]
    /\ Go(c, "accounting")
    /\ UNCHANGED <<limits, verdict, line, batchLine, budget, handle, tokens, waits, row, group,
                   stopped, faults, lost, leaked>>

FinishCallTwice(c, used) ==      \* mutant of FinishCall
    /\ reserved' = reserved - 2 * Credit[c]
    /\ spent' = spent + used
    /\ UNCHANGED <<calls, verifications, judgements>>

FinishCall(c, used) ==
    /\ reserved' = SaturatingSub(reserved, Credit[c])
    /\ spent' = spent + used
    /\ UNCHANGED <<calls, verifications, judgements>>

RowStatus(c) ==
    IF outcome[c] = "ok" THEN "completed"
    ELSE IF outcome[c] = "error" \/ c \in Judges THEN "failed" ELSE outcome[c]

(* The call's usage replaces its credit, its row is closed, and its slots  *)
(* are free.  A failed execution that reported no usage is billed its      *)
(* credit.                                                                 *)
Account(c) ==
    /\ pc[c] = "accounting"
    /\ \E used \in Usage :
          FinishCall(c, IF outcome[c] # "ok" /\ (used = 0 \/ c \in Judges) THEN Credit[c]
                        ELSE used)
    /\ CloseRow(c, RowStatus(c), faults)
    /\ Go(c, After(c))
    /\ UNCHANGED <<limits, outcome, verdict, line, batchLine, handle, tokens, waits, group,
                   stopped, leaked>>

-----------------------------------------------------------------------------
(* A worker settles its handle and reports to its batch.                   *)

VerdictOfToken(w) ==      \* mutant of VerdictOf
    IF Cancelled(w) THEN "cancelled" ELSE IF outcome[w] = "ok" THEN "completed" ELSE "failed"

VerdictOf(w) ==
    IF outcome[w] = "ok" THEN "completed" ELSE IF Cancelled(w) THEN "cancelled" ELSE "failed"

Decide(w) ==
    /\ w \in Workers /\ pc[w] = "returning"
    /\ Go(w, "settling")
    /\ verdict' = [verdict EXCEPT ![w] = VerdictOf(w)]
    /\ UNCHANGED <<limits, outcome, line, batchLine, budget, handle, tokens, waits, row, group,
                   stopped, faults, lost, leaked>>

FinishQuietly(w) ==      \* mutant of Finish
    /\ w \in Workers /\ pc[w] = "settling"
    /\ Go(w, "done")
    /\ handle' = [handle EXCEPT ![w] = verdict[w]]
    /\ RecordResult(w)
    /\ UNCHANGED <<limits, outcome, verdict, line, batchLine, budget, tokens, waits, row, batch,
                   joined, request, stopped, faults, lost, leaked>>

(* finish writes the status under the lock,                                *)
Finish(w) ==
    /\ w \in Workers /\ pc[w] = "settling"
    /\ Go(w, "notifying")
    /\ handle' = [handle EXCEPT ![w] = verdict[w]]
    /\ UNCHANGED <<limits, outcome, verdict, line, batchLine, budget, tokens, waits, row, group,
                   stopped, faults, lost, leaked>>

(* and wakes the waits after it; then the worker reports to its batch.     *)
Notify(w) ==
    /\ w \in Workers /\ pc[w] = "notifying"
    /\ Go(w, "done")
    /\ WakeAll
    /\ RecordResult(w)
    /\ UNCHANGED <<limits, outcome, verdict, line, batchLine, budget, handle, tokens, row,
                   batch, joined, request, stopped, faults, lost, leaked>>

-----------------------------------------------------------------------------
(* The parent: its batch, its waits, its cancellations.                    *)

IsSatisfied(runs) ==
    LET successes == Cardinality({w \in runs : outcome[w] = "ok"})
    IN CASE request.policy \in {"all", "deadline"} -> runs = Batch
         [] request.policy = "quorum" -> successes >= request.quorum
         [] request.policy = "first_success" -> successes > 0
         [] request.policy = "parent_decides" -> runs # {}

(* The parent stops collecting, and cancels the rest if it was asked to.   *)
Release(runs) ==
    IF runs # Batch /\ request.cancelRemaining
    THEN batch' = "draining" /\ tokens' = tokens \cup Batch
    ELSE batch' = "returned" /\ UNCHANGED tokens

Collect(w) ==
    /\ w \in Batch \ joined /\ pc[w] = "done"
    /\ joined' = joined \cup {w}
    /\ \/ /\ batch = "waiting"
          /\ IF IsSatisfied(joined') \/ joined' = Batch THEN Release(joined')
             ELSE UNCHANGED <<batch, tokens>>
       \/ /\ batch = "draining"
          /\ batch' = IF joined' = Batch THEN "returned" ELSE batch
          /\ UNCHANGED tokens
    /\ UNCHANGED <<limits, pc, outcome, verdict, line, batchLine, budget, handle, waits, row,
                   results, request, stopped, faults, lost, leaked>>

(* The deadline of the policy, the 500 ms a cancelled batch is given, or   *)
(* the end of a stopped turn                                               *)
StopCollecting ==
    /\ \/ batch = "waiting" /\ request.policy = "deadline" /\ Release(joined)
       \/ batch = "draining" /\ batch' = "returned" /\ UNCHANGED tokens
       \/ batch = "waiting" /\ stopped /\ batch' = "returned" /\ UNCHANGED tokens
    /\ UNCHANGED <<limits, pc, outcome, verdict, line, batchLine, budget, handle, waits, row,
                   joined, results, request, stopped, faults, lost, leaked>>

(* observe_subagent_batch with cancelRemaining                             *)
CancelBatch ==
    /\ batch = "returned" /\ ~(Batch \subseteq tokens)
    /\ tokens' = tokens \cup Batch
    /\ UNCHANGED <<limits, pc, outcome, verdict, line, batchLine, budget, handle, waits, row,
                   group, stopped, faults, lost, leaked>>

CancelWorker(w) ==
    /\ w \in Controlled /\ handle[w] \in Live
    /\ handle' = [handle EXCEPT ![w] = "cancelling"]
    /\ tokens' = tokens \cup {w}
    /\ WakeAll
    /\ UNCHANGED <<limits, pc, outcome, verdict, line, batchLine, budget, row, group, stopped,
                   faults, lost, leaked>>

CloseHandle(w) ==
    /\ w \in Controlled /\ handle[w] \in Ended
    /\ handle' = [handle EXCEPT ![w] = "closed"]
    /\ WakeAll
    /\ UNCHANGED <<limits, pc, outcome, verdict, line, batchLine, budget, tokens, row, group,
                   stopped, faults, lost, leaked>>

(* wait registers for the next notification before it reads the status.    *)
WaitRegisters(w) ==
    /\ w \in Controlled
    /\ waits[w] = "woken" \/ (waits[w] = "no" /\ handle[w] \in Live)
    /\ waits' = [waits EXCEPT ![w] = "armed"]
    /\ UNCHANGED <<limits, pc, outcome, verdict, line, batchLine, budget, handle, tokens, row,
                   group, stopped, faults, lost, leaked>>

(* It returns when the worker has ended or its handle is gone.             *)
WaitReads(w) ==
    /\ waits[w] = "armed"
    /\ waits' = [waits EXCEPT ![w] = IF handle[w] \in Live THEN "asleep" ELSE "no"]
    /\ UNCHANGED <<limits, pc, outcome, verdict, line, batchLine, budget, handle, tokens, row,
                   group, stopped, faults, lost, leaked>>

WaitTimesOut(w) ==
    /\ waits[w] = "asleep"
    /\ waits' = [waits EXCEPT ![w] = "no"]
    /\ UNCHANGED <<limits, pc, outcome, verdict, line, batchLine, budget, handle, tokens, row,
                   group, stopped, faults, lost, leaked>>

StopTurn ==
    /\ ~stopped
    /\ stopped' = TRUE
    /\ UNCHANGED <<limits, pc, outcome, verdict, line, batchLine, budget, handle, tokens,
                   waits, row, group, faults, lost, leaked>>

(* The future of a stopped turn is aborted, and a judge's call with it; the *)
(* SubtaskRecorder it drops closes the row.                                *)
JudgeAborted(c) ==
    /\ c \in Judges /\ stopped
    /\ pc[c] \in Holding \cup {"queued"}
    /\ Go(c, "done")
    /\ outcome' = [outcome EXCEPT ![c] = IF pc[c] \in Charged THEN "error" ELSE "unstarted"]
    /\ leaked' = IF pc[c] \in Charged THEN leaked \cup {c} ELSE leaked
    /\ CloseRow(c, "failed", faults)
    /\ line' = [line EXCEPT ![SemaphoreFor(c)] = Leave(@, c)]
    /\ UNCHANGED <<limits, verdict, batchLine, budget, handle, tokens, waits, group, stopped>>

-----------------------------------------------------------------------------

Step(c) ==
    \/ Begin(c) \/ PrepareFails(c) \/ Enqueue(c) \/ EnqueueRefused(c)
    \/ Grant(c) \/ Charge(c) \/ ChargeRefused(c) \/ TakeSlot(c) \/ Start(c)
    \/ ExecutionEnds(c) \/ Account(c)
    \/ Decide(c) \/ Finish(c) \/ Notify(c)

Parent ==
    \/ SpawnBatch \/ StopCollecting \/ CancelBatch \/ StopTurn
    \/ \E w \in Workers : \/ Spawn(w) \/ Collect(w) \/ CancelWorker(w) \/ CloseHandle(w)
                          \/ WaitRegisters(w) \/ WaitReads(w) \/ WaitTimesOut(w)

Disturbance(c) ==
    \/ SpawnFails(c) \/ LaunchFails(c) \/ BeginFails(c) \/ LeaveLane(c) \/ LeaveBatch(c)
    \/ StartFails(c) \/ OwnerLookupFails(c) \/ JudgeAborted(c)

Next ==
    \/ \E c \in Calls : Step(c) \/ Disturbance(c)
    \/ Parent

(* Threads run; an execution ends (its provider answers or fails); the     *)
(* parent's loop over its batch runs.                                      *)
Fairness ==
    /\ \A c \in Calls : WF_vars(pc[c] # "idle" /\ Step(c))
    /\ WF_vars(\E w \in Workers : Collect(w))

Spec == Init /\ [][Next]_vars /\ Fairness

-----------------------------------------------------------------------------
(* Properties.                                                             *)

(* The call limit of the turn is never exceeded, and explorers never use   *)
(* up the call that verification and adjudication keep while they have not *)
(* been used: however many calls passed the first validation together,     *)
(* and whatever was taken back in between.                                 *)
CreditsReserved == calls + Unused(verifications) + Unused(judgements) <= limits.calls

(* The calls that hold a credit, and those of S that were charged and not  *)
(* taken back.                                                             *)
Open == {c \in Calls : pc[c] \in Charged} \cup leaked
Counted(S) == {c \in S : pc[c] \in Charged \/ outcome[c] \in Ran}

CreditSum[S \in SUBSET Calls] ==
    IF S = {} THEN 0
    ELSE LET c == CHOOSE c \in S : TRUE IN Credit[c] + CreditSum[S \ {c}]

(* tokens_reserved is the sum of the credits of the calls that hold one,   *)
(* and the counters count exactly the calls that were charged and not      *)
(* taken back, through every rollback, refusal and end.                    *)
BudgetBalances ==
    /\ reserved = CreditSum[Open]
    /\ calls = Cardinality(Counted(Calls))
    /\ verifications = Cardinality(Counted(Verifiers))
    /\ judgements = Cardinality(Counted(Judges))

(* Never more calls at work than max_parallel, nor more of the batch than  *)
(* its own limit.                                                          *)
ParallelBounded ==
    /\ Cardinality({c \in Calls : pc[c] \in Holding}) <= limits.parallel
    /\ Cardinality({w \in Batch : pc[w] \in InSlot}) <= BatchSlots

(* The three records of a worker tell the same story: its handle says      *)
(* completed exactly if its execution returned an answer, its row agrees,  *)
(* and no row is left open once its call is over, but for a row whose last *)
(* write failed.                                                           *)
OneStory ==
    \A c \in Calls :
       /\ pc[c] = "done" => row[c] \notin {"queued", "running"} \/ c \in lost
       /\ c \in Workers /\ handle[c] \in Ended =>
             /\ handle[c] = "completed" <=> outcome[c] = "ok"
             /\ c \notin lost => (row[c] = "completed" <=> handle[c] = "completed")

(* A parent that sleeps in wait_subagent does not sleep through the end of *)
(* its worker: the notification is still to come.                          *)
WaitIsWoken ==
    \A w \in Workers :
       waits[w] = "asleep" /\ handle[w] \notin Live => pc[w] = "notifying"

(* Every worker that has begun comes to an end that its handle shows,      *)
(* whatever queues it passes: lanes, batch slots, cancellations, deadlines *)
(* and failures leave nobody waiting for ever.                             *)
HandleSettles ==
    \A w \in Workers : pc[w] = "preparing" ~> handle[w] \in Ended \cup {"closed"}

(* A batch returns to its parent, and observe_subagent_batch comes to      *)
(* report every worker of it, also those that never started and those the  *)
(* parent did not wait for.                                                *)
BatchSettles == batch = "waiting" ~> batch = "returned" /\ results = Batch
=============================================================================
