-------------------------- MODULE RunRecovery_proof --------------------------
(***************************************************************************)
(* Theorems about crashes and the startup reconciliation, for every number *)
(* of crashes, capacity, batch size and bound and every set of event kinds:*)
(* the ledger stays ordered, startup settles every run, no checkpoint is   *)
(* lost by a restart, and no run that startup classifies has its stop      *)
(* taken back.                                                             *)
(*                                                                         *)
(* What the classification at startup finds in SQLite was left there by    *)
(* the outbox, the executor and the host: TerminalAgrees and               *)
(* CheckpointUncancelled relate the task row to the ledger at every moment *)
(* at which a crash may fall, StopStands a durable stop to a later         *)
(* checkpoint, which StopPlaced keeps away while the stop is on its way.   *)
(***************************************************************************)
EXTENDS RunRecovery, RunEventOutboxStream_proof, RunEventOutboxPause_proof

(* A terminal task row shows the terminal of the ledger.                   *)
TerminalAgrees ==
    LedgerTerminal /\ task \in TerminalStatuses => task = ledger[Len(ledger)].kind

(* A run whose last row is a checkpoint is not being stopped.              *)
CheckpointUncancelled ==
    ledger # <<>> /\ ledger[Len(ledger)].kind = "paused" => task # "cancelling"

(* A cancelling event that is accepted and not yet durable.                *)
StopInFlight ==
    /\ Live
    /\ \/ \E i \in 1..Len(queue) : queue[i] = "cancelling"
       \/ pc # "deliver" /\ \E i \in 1..Len(pending) : pending[i].kind = "cancelling"

(* A stop has fenced the executor before it submits its event, and holds   *)
(* the lifecycle lock until that event is durable.                         *)
StopFences ==
    /\ lifecycle \in {"stop", "restop", "stopping", "ending"} => executor = "ended"
    /\ StopInFlight => lifecycle = "stopping"

(* One stop is on its way at a time.                                       *)
StopOnce ==
    Live =>
        /\ \A i \in 1..Len(queue), j \in 1..Len(queue) :
              queue[i] = "cancelling" /\ queue[j] = "cancelling" => i = j
        /\ pc # "deliver" /\ (\E i \in 1..Len(pending) : pending[i].kind = "cancelling")
              => \A j \in 1..Len(queue) : queue[j] # "cancelling"

(* While it is, the run waits for the user or has ended: no checkpoint can *)
(* be committed ahead of the stop.                                         *)
StopPlaced ==
    lifecycle = "stop" \/ StopInFlight =>
        task \in {"awaiting_user_input"} \cup TerminalStatuses

(* A run that was stopped after its last suspension is not paused.         *)
StopStands == StopIsLatest => task # "paused"

StopInv == StopFences /\ StopOnce /\ StopPlaced /\ StopStands
RowsInv == BatchUnpaused /\ TerminalAgrees /\ CheckpointUncancelled

----------------------------------------------------------------------------
(*                       What the ledger says                              *)

(* A non-empty set of row numbers has a greatest member.                   *)
LEMMA GreatestNumber ==
    ASSUME NEW n \in Nat, NEW S \in SUBSET (1..n), S # {}
    PROVE  \E x \in S : \A y \in S : x >= y
  <1> DEFINE T == {m \in 0..n : \A y \in S : y <= m}
  <1>1. n \in T
      OBVIOUS
  <1>0. T \in SUBSET Nat /\ T # {}
      BY <1>1
  <1>2. PICK m \in T : \A k \in T : m <= k
    <2> HIDE DEF T
    <2> QED
        BY <1>0, LeastNumber
  <1>3. PICK y \in S : TRUE
      OBVIOUS
  <1>4. m \in Nat /\ m <= n /\ y \in 1..n /\ y <= m
      BY <1>2, <1>3
  <1>5. ASSUME m \notin S PROVE FALSE
    <2>1. ASSUME NEW z \in S PROVE z <= m - 1
      <3>1. z \in 1..n /\ z <= m /\ z # m
          BY <1>2, <1>5, <2>1
      <3> QED
          BY <1>4, <3>1
    <2>2. m - 1 \in 0..n
        BY <1>4
    <2>3. m - 1 \in T
        BY <2>1, <2>2
    <2> QED
        BY <1>2, <1>4, <2>3
  <1>6. \A z \in S : m >= z
    <2>1. ASSUME NEW z \in S PROVE m >= z
      <3>1. z \in 1..n /\ z <= m
          BY <1>2
      <3> QED
          BY <1>4, <3>1
    <2> QED
        BY <2>1
  <1> QED
      BY <1>5, <1>6

(* latest_resumable_boundary finds the last suspension.                    *)
LEMMA LatestSuspension ==
    ASSUME ledger \in Seq(Rows), Suspensions # {}
    PROVE  /\ Max(Suspensions) \in Suspensions
           /\ \A b \in Suspensions : b <= Max(Suspensions)
  <1>1. Len(ledger) \in Nat /\ Suspensions \in SUBSET (1..Len(ledger))
      BY DEF Suspensions
  <1>2. \E x \in Suspensions : \A y \in Suspensions : x >= y
      BY <1>1, GreatestNumber
  <1>3. /\ Max(Suspensions) \in Suspensions
        /\ \A y \in Suspensions : Max(Suspensions) >= y
      BY <1>2 DEF Max
  <1>4. ASSUME NEW b \in Suspensions PROVE b <= Max(Suspensions)
    <2>1. b \in 1..Len(ledger) /\ Max(Suspensions) \in 1..Len(ledger)
        BY <1>1, <1>3
    <2>2. Max(Suspensions) >= b
        BY <1>3
    <2> HIDE DEF Suspensions
    <2> QED
        BY <1>1, <2>1, <2>2
  <1> QED
      BY <1>3, <1>4

(* first_true_terminal is the last row of an ordered ledger.               *)
LEMMA FirstTerminalIsLast ==
    ASSUME ledger \in Seq(Rows), LedgerOrdered, LedgerTerminal
    PROVE  /\ FirstTerminal = ledger[Len(ledger)].kind
           /\ FirstTerminal \in TerminalStatuses
           /\ ledger # <<>>
  <1> DEFINE S == {i \in 1..Len(ledger) : ClosesRun(ledger[i].kind)}
  <1>1. PICK i \in 1..Len(ledger) : ClosesRun(ledger[i].kind)
      BY DEF LedgerTerminal
  <1>2. \A j \in S : j = Len(ledger)
      BY DEF LedgerOrdered
  <1>3. i \in S /\ i = Len(ledger)
      BY <1>1, <1>2
  <1>4. \A j \in S : Len(ledger) <= j
      BY <1>2
  <1>5. Min(S) = Len(ledger)
      BY <1>2, <1>3, <1>4 DEF Min
  <1>6. FirstTerminal = ledger[Len(ledger)].kind
      BY <1>5 DEF FirstTerminal
  <1> QED
      BY <1>1, <1>3, <1>6 DEF ClosesRun

(* The rows of the ledger after a batch.                                   *)
LEMMA RowsAfterBatch ==
    ASSUME CommitBatch, TypeOK
    PROVE  /\ Len(ledger') = Len(ledger) + Len(pending)
           /\ Len(ledger) \in Nat /\ Len(pending) \in Nat
           /\ \A i \in 1..Len(ledger) : ledger'[i] = ledger[i]
           /\ \A i \in 1..Len(pending) : ledger'[Len(ledger) + i] = pending[i]
  <1>1. ledger' = ledger \o pending
      BY DEF CommitBatch, WithRows
  <1>2. ledger \in Seq(Rows) /\ pending \in Seq(Rows)
      BY DEF TypeOK, TypeRows
  <1> QED
      BY <1>1, <1>2

(* A row of the extended ledger is an old one or one of the batch.         *)
LEMMA RowOrigin ==
    ASSUME CommitBatch, TypeOK, NEW i \in 1..Len(ledger')
    PROVE  \/ i \in 1..Len(ledger) /\ ledger'[i] = ledger[i]
           \/ /\ i - Len(ledger) \in 1..Len(pending)
              /\ ledger'[i] = pending[i - Len(ledger)]
  <1>1. /\ Len(ledger') = Len(ledger) + Len(pending)
        /\ Len(ledger) \in Nat /\ Len(pending) \in Nat
      BY RowsAfterBatch
  <1>2. CASE i <= Len(ledger)
    <2>1. i \in 1..Len(ledger)
        BY <1>1, <1>2
    <2> QED
        BY <2>1, RowsAfterBatch
  <1>3. CASE i > Len(ledger)
    <2>1. i - Len(ledger) \in 1..Len(pending) /\ Len(ledger) + (i - Len(ledger)) = i
        BY <1>1, <1>3
    <2> QED
        BY <2>1, RowsAfterBatch
  <1> QED
      BY <1>1, <1>2, <1>3

(* Every step of the outbox keeps checkpoints out of its batches.          *)
LEMMA BatchUnpausedStep ==
    ASSUME TypeOK, CoreInv, BatchUnpaused, [Next]_vars
    PROVE  BatchUnpaused'
  <1> USE DEF BatchUnpaused, sharedVars, actorVars, durableVars, seenVars, hostVars,
              boundVars
  <1>0. pending \in Seq(Rows) /\ queue \in Seq(EventKinds \cup {"pause"})
      BY DEF TypeOK, TypeRows
  <1>1. ASSUME NEW n \in Nat, NEW k, k \in EventKinds \cup {"pause"},
               k \notin {"preview", "pause"}, pending' = Append(pending, Row(n, k)),
               pc # "deliver", pc' = "commit" => after' # "paused"
        PROVE  BatchUnpaused'
    <2> DEFINE row == Row(n, k)
    <2>1. row \in Rows /\ row.kind # "paused"
        BY <1>1 DEF Row, Rows, DurableKinds, EventKinds, TerminalStatuses
    <2>2. pending' = Append(pending, row)
        BY <1>1
    <2> HIDE DEF row
    <2>3. \A i \in 1..Len(pending') : pending'[i].kind # "paused"
        BY <1>0, <1>1, <2>1, <2>2, QueueExtended
    <2> QED
        BY <1>1, <2>3
  <1>2. CASE RecvDurable
    <2>1. /\ Head(queue) \in EventKinds \cup {"pause"} /\ sequence + 1 \in Nat
          /\ Head(queue) \notin {"preview", "pause"} /\ pc # "deliver"
          /\ pc = "recv"
        BY <1>0, <1>2, QueueTyped DEF RecvDurable, TypeOK, TypeNumbers
    <2>2. pending' = Append(pending, Row(sequence + 1, Head(queue)))
        BY <1>2 DEF RecvDurable, NextSequence
    <2>3. pc' = "commit" => after' # "paused"
        BY <1>2, <2>1 DEF RecvDurable
    <2> QED
        BY <1>1, <2>1, <2>2, <2>3
  <1>3. CASE DrainCommand
    <2>1. CASE Head(queue) \in {"pause", "preview"}
        BY <1>3, <2>1 DEF DrainCommand
    <2>2. CASE Head(queue) \notin {"pause", "preview"}
      <3>1. /\ Head(queue) \in EventKinds \cup {"pause"} /\ sequence + 1 \in Nat
            /\ pc = "drain"
          BY <1>0, <1>3, QueueTyped DEF DrainCommand, TypeOK, TypeNumbers
      <3>2. pending' = Append(pending, Row(sequence + 1, Head(queue)))
          BY <1>3, <2>2 DEF DrainCommand, NextSequence
      <3>3. pc' = "commit" => after' # "paused"
          BY <1>3, <2>2, <3>1 DEF DrainCommand
      <3> QED
          BY <1>1, <2>2, <3>1, <3>2, <3>3
    <2> QED
        BY <2>1, <2>2
  <1>4. CASE Quiet
      BY <1>4, QuietFrame
  <1>5. CASE Producer \/ PauseWithCheckpoint
      BY <1>5 DEF Producer, Submit, PublishEphemeral, PauseWithCheckpoint
  <1>6. CASE RecvPreview \/ RecvPause \/ FlushTick
      BY <1>6 DEF RecvPreview, RecvPause, FlushTick
  <1>7. CASE \/ CommitBatch \/ CommitFails \/ CommitRefused \/ CommitCheckpoint
             \/ CheckpointRefused
      BY <1>7 DEF CommitBatch, CommitFails, CommitRefused, CommitCheckpoint,
                  CheckpointRefused, BeginFailClosed
  <1>8. CASE \/ DeliverBatch \/ DeliverBeforePreview \/ DeliverBeforePause
             \/ DeliverCheckpoint
      BY <1>8 DEF DeliverBatch, DeliverBeforePreview, DeliverBeforePause,
                  DeliverCheckpoint
  <1>9. CASE BeginDrain \/ DrainEnds
      BY <1>9 DEF BeginDrain, DrainEnds, BeginFailClosed
  <1>10. CASE ClaimFailure
      BY <1>10 DEF ClaimFailure
  <1>11. CASE ClaimLost \/ ClaimFails
      BY <1>11 DEF ClaimLost, ClaimFails
  <1>12. CASE Open
      BY <1>12 DEF Open, OpenOutbox
  <1>13. CASE DeliverFailure
      BY <1>13 DEF DeliverFailure, CoreInv, BatchDropped
  <1> QED
      BY <1>2, <1>3, <1>4, <1>5, <1>6, <1>7, <1>8, <1>9, <1>10, <1>11, <1>12, <1>13
         DEF Next, Producer, Actor, Host, Quiet

(* A batch without a terminal leaves an open run open; one that ends with  *)
(* a terminal gives the task row that status.                              *)
LEMMA BatchTerminal ==
    ASSUME TypeOK, CoreInv, CommitBatch, LedgerTerminal'
    PROVE  /\ task' = ledger'[Len(ledger')].kind
           /\ Len(pending) \in Nat \ {0}
  <1>0. /\ pending \in Seq(Rows) /\ ledger \in Seq(Rows) /\ task \in TaskStatuses
        /\ Len(pending) \in Nat /\ Len(ledger) \in Nat
      BY DEF TypeOK, TypeRows, TypeStates
  <1>1. ~LedgerTerminal /\ task \notin TerminalStatuses
      BY DEF CommitBatch, RunClosed
  <1>2. PICK i \in 1..Len(ledger') : ClosesRun(ledger'[i].kind)
      BY DEF LedgerTerminal
  <1>3. ~(i \in 1..Len(ledger) /\ ledger'[i] = ledger[i])
      BY <1>1, <1>2 DEF LedgerTerminal
  <1>4. i - Len(ledger) \in 1..Len(pending) /\ ledger'[i] = pending[i - Len(ledger)]
      BY <1>2, <1>3, RowOrigin
  <1>5. TerminalLast(pending)
      BY DEF CoreInv, TerminalPlaced
  <1>6. PICK n \in Nat : n = Len(pending)
      BY <1>0
  <1>7. n \in 1..n /\ ClosesRun(pending[n].kind) /\ n # 0
      BY <1>2, <1>4, <1>5, <1>6 DEF TerminalLast
  <1>8. \A j \in 1..n-1 : ~ClosesRun(pending[j].kind)
      BY <1>5, <1>6 DEF TerminalLast
  <1> DEFINE S == TaskStatuses \ TerminalStatuses
             P == Projections(task, turn, pending, barrier)
  <1>9. ASSUME NEW x \in S, NEW j \in 1..n-1
        PROVE  ProjectTask(x, pending[j].kind, barrier) \in S
    <2>1. ~ClosesRun(pending[j].kind)
        BY <1>8
    <2>2. pending[j] \in Rows
        BY <1>0, <1>6
    <2>3. pending[j].kind \in DurableKinds
        BY <2>2 DEF Rows
    <2> QED
        BY <2>1, <2>3 DEF ProjectTask, LeavesTask, AskedStatus, DurableKinds, EventKinds,
              TaskStatuses, TerminalStatuses, ClosesRun
  <1>10. P[n-1].task \in S
    <2>1. n - 1 \in 0..Len(pending)
        BY <1>6, <1>7
    <2>2. task \in S
        BY <1>0, <1>1
    <2> HIDE DEF S
    <2> QED
        BY <1>0, <1>9, <2>1, <2>2, ProjectedWithin
  <1>11. task' = ProjectTask(P[n-1].task, pending[n].kind, barrier)
      BY <1>0, <1>6, <1>7, BatchUnfold
  <1>12. task' = pending[n].kind
      BY <1>7, <1>10, <1>11 DEF ProjectTask, LeavesTask, AskedStatus, ClosesRun,
            OverridesBarrier, AwaitsUser, TerminalStatuses
  <1>13. Len(ledger') = Len(ledger) + n /\ ledger'[Len(ledger) + n] = pending[n]
      BY <1>6, <1>7, RowsAfterBatch
  <1> QED
      BY <1>6, <1>7, <1>12, <1>13

(* Every step keeps the task row in agreement with the ledger.             *)
LEMMA TerminalAgreesStep ==
    ASSUME TypeOK, LedgerOrdered, CoreInv, TerminalAgrees, [Next]_vars
    PROVE  TerminalAgrees'
  <1> USE DEF TerminalAgrees
  <1>0. ledger \in Seq(Rows)
      BY DEF TypeOK, TypeRows
  <1>1. CASE UNCHANGED <<ledger, task>>
      BY <1>1 DEF LedgerTerminal
  <1>2. CASE CommitBatch
      BY <1>2, BatchTerminal
  <1>3. CASE CommitCheckpoint
    <2>1. task' = "paused"
        BY <1>3 DEF CommitCheckpoint, CanCheckpoint, ProjectTask, LeavesTask, AwaitsUser,
              AskedStatus, RunClosed, PausableStatuses
    <2> QED
        BY <2>1 DEF TerminalStatuses
  <1>4. CASE ClaimFailure
      BY <1>4 DEF ClaimFailure, RunClosed, LedgerTerminal
  <1>5. CASE \/ ExecutorProgress \/ SuspendForInteraction \/ AnswerInteraction
             \/ ResumeFromCheckpoint
      BY <1>5 DEF ExecutorProgress, SuspendForInteraction, AnswerInteraction,
            ResumeFromCheckpoint, Requeue, TerminalStatuses
  <1>6. CASE ReconcileFailedStop
      BY <1>6 DEF ReconcileFailedStop, RunClosed, LedgerTerminal
  <1>7. CASE FinalizeTurn
    <2>1. ledger' = ledger
        BY <1>7 DEF FinalizeTurn
    <2>2. CASE task' = task
        BY <2>1, <2>2 DEF LedgerTerminal
    <2>3. CASE task' # task
      <3>1. /\ task' = "timed_out"
            /\ \E i \in 1..Len(ledger) : ledger[i].kind = "timed_out"
          BY <1>7, <2>3 DEF FinalizeTurn
      <3>2. ledger[Len(ledger)].kind = "timed_out"
          BY <3>1 DEF LedgerOrdered, ClosesRun, TerminalStatuses
      <3> QED
          BY <2>1, <3>1, <3>2
    <2> QED
        BY <2>2, <2>3
  <1> QED
      BY <1>1, <1>2, <1>3, <1>4, <1>5, <1>6, <1>7, RowWriters

(* Every step keeps a stop away from a fresh checkpoint.                   *)
LEMMA CheckpointUncancelledStep ==
    ASSUME TypeOK, BatchUnpaused, CheckpointUncancelled, [Next]_vars
    PROVE  CheckpointUncancelled'
  <1> USE DEF CheckpointUncancelled
  <1>0. ledger \in Seq(Rows) /\ pending \in Seq(Rows)
      BY DEF TypeOK, TypeRows
  <1>1. CASE UNCHANGED <<ledger, task>>
      BY <1>1
  <1>2. CASE CommitBatch
    <2>1. CASE pending = <<>>
      <3>1. ledger' = ledger
          BY <1>0, <1>2, <2>1 DEF CommitBatch, WithRows
      <3>2. \A x \in {task} : \A i \in 1..Len(pending) :
                ProjectTask(x, pending[i].kind, barrier) \in {task}
          BY <2>1
      <3>3. task' \in {task}
          BY <1>0, <1>2, <3>2, BatchWithin
      <3> QED
          BY <3>1, <3>3
    <2>2. CASE pending # <<>>
      <3>1. PICK n \in Nat : n = Len(pending)
          BY <1>0
      <3>2. n \in 1..Len(pending)
          BY <1>0, <2>2, <3>1
      <3>3. ledger'[Len(ledger')] = pending[n]
          BY <1>2, <3>1, <3>2, RowsAfterBatch
      <3>4. pending[n].kind # "paused"
          BY <1>2, <3>2 DEF BatchUnpaused, CommitBatch
      <3> QED
          BY <3>3, <3>4
    <2> QED
        BY <2>1, <2>2
  <1>3. CASE CommitCheckpoint
      BY <1>3 DEF CommitCheckpoint, CanCheckpoint, ProjectTask, LeavesTask,
            AskedStatus, RunClosed, PausableStatuses
  <1>4. CASE ClaimFailure
      BY <1>4 DEF ClaimFailure
  <1>5. CASE \/ ExecutorProgress \/ SuspendForInteraction \/ AnswerInteraction
             \/ ResumeFromCheckpoint
      BY <1>5 DEF ExecutorProgress, SuspendForInteraction, AnswerInteraction,
            ResumeFromCheckpoint, Requeue
  <1>6. CASE ReconcileFailedStop \/ FinalizeTurn
      BY <1>6 DEF ReconcileFailedStop, FinalizeTurn
  <1> QED
      BY <1>1, <1>2, <1>3, <1>4, <1>5, <1>6, RowWriters

----------------------------------------------------------------------------
(*                       A durable stop                                    *)

(* The host's and the executor's own steps keep every part.                *)
LEMMA StopQuietStep ==
    ASSUME TypeOK, FlushBarrier, StopInv, Quiet
    PROVE  StopInv'
  <1> USE DEF StopInv, StopFences, StopPlaced, StopStands, TerminalStatuses, Live,
              sharedVars, actorVars, durableVars, seenVars, hostVars, boundVars
  <1>0. /\ ledger' = ledger /\ queue' = queue /\ pending' = pending
        /\ pc' = pc /\ after' = after
      BY QuietFrame
  <1>a. StopInFlight' = StopInFlight
      BY <1>0 DEF StopInFlight
  <1>b. StopIsLatest' = StopIsLatest /\ StopOnce'
      BY <1>0 DEF StopIsLatest, Suspensions, StopOnce
  <1>1. CASE FenceExecutor
      BY <1>a, <1>b, <1>1 DEF FenceExecutor
  <1>2. CASE FlushedForPause \/ PauseRejected \/ PauseAbandoned
      BY <1>a, <1>b, <1>2 DEF FlushedForPause, PauseRejected, PauseAbandoned
  <1>3. CASE ReconcileFailedStop
      BY <1>a, <1>b, <1>3 DEF ReconcileFailedStop
  <1>4. CASE ResumeFromCheckpoint
      BY <1>a, <1>b, <1>4 DEF ResumeFromCheckpoint, Requeue
  <1>5. CASE ResumeSubmissions
      BY <1>a, <1>b, <1>5 DEF ResumeSubmissions
  <1>6. CASE ResumeRejected
      BY <1>a, <1>b, <1>6 DEF ResumeRejected
  <1>7. CASE LaunchSuperseded
      BY <1>a, <1>b, <1>7 DEF LaunchSuperseded
  <1>8. CASE CreateInteraction
      BY <1>a, <1>b, <1>8 DEF CreateInteraction
  <1>9. CASE SuspendForInteraction
      BY <1>a, <1>b, <1>9 DEF SuspendForInteraction
  <1>10. CASE AnswerInteraction
      BY <1>a, <1>b, <1>10 DEF AnswerInteraction
  <1>11. CASE BeginStop
      BY <1>a, <1>b, <1>11 DEF BeginStop
  <1>12. CASE StopFindsClosed
      BY <1>a, <1>b, <1>12 DEF StopFindsClosed
  <1>13. CASE CancelInteractions
    <2>1. ~StopInFlight
        BY <1>13 DEF CancelInteractions, Flushed, FlushBarrier, StopInFlight
    <2> QED
        BY <1>a, <1>b, <1>13, <2>1 DEF CancelInteractions
  <1>14. CASE StopAbandoned
    <2>1. ~StopInFlight
        BY <1>14 DEF StopAbandoned, StopInFlight
    <2> QED
        BY <1>a, <1>b, <1>14, <2>1 DEF StopAbandoned
  <1>15. CASE StopEnds
      BY <1>a, <1>b, <1>15 DEF StopEnds
  <1>16. CASE ExecutorProgress
      BY <1>a, <1>b, <1>16 DEF ExecutorProgress
  <1>17. CASE ExecutorFinalizesTurn
      BY <1>a, <1>b, <1>17 DEF ExecutorFinalizesTurn
  <1>18. CASE ExecutorReturns
      BY <1>a, <1>b, <1>18 DEF ExecutorReturns
  <1>19. CASE FinalizeTurn
      BY <1>a, <1>b, <1>19 DEF FinalizeTurn
  <1>20. CASE WithdrawInteraction
      BY <1>a, <1>b, <1>20 DEF WithdrawInteraction
  <1>21. CASE UNCHANGED vars
      BY <1>a, <1>b, <1>21 DEF vars
  <1> QED
      BY <1>1, <1>2, <1>3, <1>4, <1>5, <1>6, <1>7, <1>8, <1>9, <1>10, <1>11, <1>12,
         <1>13, <1>14, <1>15, <1>16, <1>17, <1>18, <1>19, <1>20, <1>21 DEF Quiet

(* A batch of ordinary events leaves a waiting or finished run alone.      *)
LEMMA BatchBeforeStop ==
    ASSUME TypeOK, CommitBatch, task \in {"awaiting_user_input"} \cup TerminalStatuses,
           \A i \in 1..Len(pending) : pending[i].kind # "cancelling"
    PROVE  task' \in {"awaiting_user_input"} \cup TerminalStatuses
  <1> DEFINE S == {"awaiting_user_input"} \cup TerminalStatuses
  <1>1. pending \in Seq(Rows)
      BY DEF TypeOK, TypeRows
  <1>2. ASSUME NEW x \in S, NEW i \in 1..Len(pending)
        PROVE  ProjectTask(x, pending[i].kind, barrier) \in S
      BY <1>2 DEF ProjectTask, OverridesBarrier, AwaitsUser, ClosesRun, AskedStatus,
            TerminalStatuses
  <1>3. task \in S
      OBVIOUS
  <1> HIDE DEF S
  <1>4. task' \in S
      BY <1>1, <1>2, <1>3, BatchWithin
  <1> QED
      BY <1>4 DEF S

(* A batch that makes a stop durable, or that follows one.                 *)
LEMMA StopBatchStep ==
    ASSUME TypeOK, BatchUnpaused, StopInv, CommitBatch
    PROVE  StopPlaced' /\ StopStands'
  <1>0. /\ pending \in Seq(Rows) /\ ledger \in Seq(Rows) /\ task \in TaskStatuses
        /\ Len(pending) \in Nat /\ Len(ledger) \in Nat
      BY DEF TypeOK, TypeRows, TypeStates
  <1>1. /\ UNCHANGED <<queue, pending, lifecycle>> /\ pc = "commit" /\ pc' = "deliver"
      BY DEF CommitBatch, sharedVars, hostVars
  <1>2. StopPlaced'
    <2> SUFFICES ASSUME lifecycle = "stop" \/ StopInFlight'
                 PROVE  task' \in {"awaiting_user_input"} \cup TerminalStatuses
        BY <1>1 DEF StopPlaced
    <2>1. \A i \in 1..Len(pending) : pending[i].kind # "cancelling"
      <3>1. CASE lifecycle = "stop"
          BY <1>1, <3>1 DEF StopInv, StopFences, StopInFlight, Live
      <3>2. CASE StopInFlight'
          BY <1>1, <3>2 DEF StopInv, StopOnce, StopInFlight, Live
      <3> QED
          BY <3>1, <3>2
    <2>2. task \in {"awaiting_user_input"} \cup TerminalStatuses
        BY <1>1 DEF StopInv, StopPlaced, StopInFlight, Live
    <2> QED
        BY <2>1, <2>2, BatchBeforeStop
  <1>3. CASE task # "paused"
    <2> DEFINE S == TaskStatuses \ {"paused"}
    <2>1. ASSUME NEW x \in S, NEW j \in 1..Len(pending)
          PROVE  ProjectTask(x, pending[j].kind, barrier) \in S
      <3>1. pending[j] \in Rows
          BY <1>0
      <3>2. pending[j].kind \in DurableKinds /\ pending[j].kind # "paused"
          BY <1>1, <3>1 DEF Rows, BatchUnpaused
      <3> QED
          BY <3>2 DEF ProjectTask, LeavesTask, AskedStatus, DurableKinds, EventKinds,
                TaskStatuses, TerminalStatuses
    <2>2. task \in S
        BY <1>0, <1>3
    <2>3. task' \in S
      <3> HIDE DEF S
      <3> QED
          BY <1>0, <2>1, <2>2, BatchWithin
    <2> QED
        BY <1>2, <2>3 DEF StopStands
  <1>4. CASE task = "paused"
    <2> SUFFICES ASSUME StopIsLatest' PROVE FALSE
        BY <1>2 DEF StopStands
    <2>1. PICK i \in 1..Len(ledger') :
              /\ ledger'[i].kind = "cancelling"
              /\ \A b \in Suspensions' : b < i
        BY DEF StopIsLatest
    <2>2. ~StopInFlight /\ ~StopIsLatest
        BY <1>4 DEF StopInv, StopPlaced, StopStands, TerminalStatuses
    <2>3. \A j \in 1..Len(pending) : pending[j].kind # "cancelling"
        BY <1>1, <2>2 DEF StopInFlight, Live
    <2>4. i \in 1..Len(ledger) /\ ledger'[i] = ledger[i]
        BY <2>1, <2>3, RowOrigin
    <2>5. ASSUME NEW b \in Suspensions PROVE b < i
      <3>1. b \in 1..Len(ledger) /\ ledger[b].kind \in {"paused", "awaiting_user_input"}
          BY DEF Suspensions
      <3>2. b \in 1..Len(ledger') /\ ledger'[b] = ledger[b]
          BY <1>0, <3>1, RowsAfterBatch
      <3>3. b \in Suspensions'
          BY <3>1, <3>2 DEF Suspensions
      <3> QED
          BY <2>1, <3>3
    <2> QED
        BY <2>1, <2>2, <2>4, <2>5 DEF StopIsLatest
  <1> QED
      BY <1>3, <1>4

(* An event that moves from the queue to the batch was in flight before.   *)
LEMMA StopTaken ==
    ASSUME TypeOK, Live, pc # "deliver", queue # <<>>, queue' = Tail(queue),
           \/ pending' = pending
           \/ \E n \in Nat : pending' = Append(pending, Row(n, Head(queue))),
           Head(queue) \notin {"preview", "pause"} \/ pending' = pending
    PROVE  StopInFlight' => StopInFlight
  <1>0. pending \in Seq(Rows) /\ queue \in Seq(EventKinds \cup {"pause"})
      BY DEF TypeOK, TypeRows
  <1>1. Head(queue) \in EventKinds \cup {"pause"} /\ 1 \in 1..Len(queue)
        /\ Head(queue) = queue[1]
      BY <1>0
  <1> SUFFICES ASSUME StopInFlight' PROVE StopInFlight
      OBVIOUS
  <1>2. CASE \E i \in 1..Len(queue') : queue'[i] = "cancelling"
    <2>1. PICK i \in 1..Len(queue') : queue'[i] = "cancelling"
        BY <1>2
    <2>2. i + 1 \in 1..Len(queue) /\ queue[i + 1] = "cancelling"
        BY <1>0, <2>1, QueueShortened
    <2> QED
        BY <2>2 DEF StopInFlight
  <1>3. CASE \E i \in 1..Len(pending') : pending'[i].kind = "cancelling"
    <2>1. PICK i \in 1..Len(pending') : pending'[i].kind = "cancelling"
        BY <1>3
    <2>2. CASE pending' = pending
        BY <2>1, <2>2 DEF StopInFlight
    <2>3. CASE pending' # pending
      <3>1. PICK n \in Nat : pending' = Append(pending, Row(n, Head(queue)))
          BY <2>3
      <3>2. PICK row : row = Row(n, Head(queue))
          OBVIOUS
      <3>3. row \in Rows /\ row.kind = Head(queue)
          BY <1>1, <2>3, <3>2 DEF Row, Rows, DurableKinds
      <3>4. \/ i \in 1..Len(pending) /\ pending'[i] = pending[i]
            \/ pending'[i] = row
          BY <1>0, <2>1, <3>1, <3>2, <3>3, QueueExtended
      <3>5. CASE i \in 1..Len(pending) /\ pending'[i] = pending[i]
          BY <2>1, <3>5 DEF StopInFlight
      <3>6. CASE pending'[i] = row
          BY <1>1, <2>1, <3>3, <3>6 DEF StopInFlight
      <3> QED
          BY <3>4, <3>5, <3>6
    <2> QED
        BY <2>2, <2>3
  <1> QED
      BY <1>2, <1>3 DEF StopInFlight

(* ... and is still the only stop.                                         *)
LEMMA StopTakenOnce ==
    ASSUME TypeOK, Live, pc # "deliver", queue # <<>>, queue' = Tail(queue),
           \/ pending' = pending
           \/ /\ Head(queue) \notin {"preview", "pause"}
              /\ \E n \in Nat : pending' = Append(pending, Row(n, Head(queue))),
           StopOnce
    PROVE  StopOnce'
  <1>0. pending \in Seq(Rows) /\ queue \in Seq(EventKinds \cup {"pause"})
      BY DEF TypeOK, TypeRows
  <1>1. /\ Len(queue') = Len(queue) - 1 /\ Len(queue) \in Nat \ {0}
        /\ Head(queue) = queue[1] /\ queue[1] \in EventKinds \cup {"pause"}
        /\ \A i \in 1..Len(queue') : i + 1 \in 1..Len(queue) /\ queue'[i] = queue[i + 1]
      BY <1>0, QueueShortened
  <1>2. ASSUME NEW i \in 1..Len(queue'), NEW j \in 1..Len(queue'),
               queue'[i] = "cancelling", queue'[j] = "cancelling"
        PROVE  i = j
    <2>1. i + 1 = j + 1
        BY <1>1, <1>2 DEF StopOnce
    <2> QED
        BY <2>1
  <1>3. ASSUME NEW i \in 1..Len(pending'), pending'[i].kind = "cancelling",
               NEW j \in 1..Len(queue'), queue'[j] = "cancelling"
        PROVE  FALSE
    <2>1. j + 1 \in 1..Len(queue) /\ queue[j + 1] = "cancelling" /\ j + 1 # 1
        BY <1>1, <1>3
    <2>2. \A l \in 1..Len(pending) : pending[l].kind # "cancelling"
        BY <2>1 DEF StopOnce
    <2>3. queue[1] # "cancelling"
        BY <1>1, <2>1 DEF StopOnce
    <2>4. CASE pending' = pending
        BY <1>3, <2>2, <2>4
    <2>5. CASE pending' # pending
      <3>1. PICK n \in Nat : pending' = Append(pending, Row(n, Head(queue)))
          BY <2>5
      <3>2. PICK row : row = Row(n, Head(queue))
          OBVIOUS
      <3>3. row \in Rows /\ row.kind = queue[1]
          BY <1>1, <2>5, <3>2 DEF Row, Rows, DurableKinds
      <3>4. \/ i \in 1..Len(pending) /\ pending'[i] = pending[i]
            \/ pending'[i] = row
          BY <1>0, <1>3, <3>1, <3>2, <3>3, QueueExtended
      <3> QED
          BY <1>3, <2>2, <2>3, <3>3, <3>4
    <2> QED
        BY <2>4, <2>5
  <1> QED
      BY <1>2, <1>3 DEF StopOnce

(* A command that joins the queue, another than a stop or the first.       *)
LEMMA StopQueuedOnce ==
    ASSUME TypeOK, Live, StopOnce, UNCHANGED <<pending, pc>>,
           NEW k \in EventKinds \cup {"pause"},
           queue' = queue \/ queue' = Append(queue, k),
           k = "cancelling" => ~StopInFlight
    PROVE  StopOnce' /\ (k # "cancelling" => (StopInFlight' => StopInFlight))
  <1>0. queue \in Seq(EventKinds \cup {"pause"})
      BY DEF TypeOK, TypeRows
  <1>1. CASE queue' = queue
      BY <1>1 DEF StopOnce, StopInFlight, Live
  <1>2. CASE queue' = Append(queue, k)
    <2>1. /\ Len(queue') = Len(queue) + 1 /\ Len(queue) \in Nat
          /\ \A i \in 1..Len(queue') :
                \/ i \in 1..Len(queue) /\ queue'[i] = queue[i]
                \/ i = Len(queue) + 1 /\ queue'[i] = k
        BY <1>0, <1>2, QueueExtended
    <2>2. CASE k = "cancelling"
      <3>1. /\ \A i \in 1..Len(queue) : queue[i] # "cancelling"
            /\ pc # "deliver" => \A i \in 1..Len(pending) : pending[i].kind # "cancelling"
          BY <2>2 DEF StopInFlight
      <3> QED
          BY <2>1, <2>2, <3>1 DEF StopOnce
    <2>3. CASE k # "cancelling"
      <3>1. ASSUME NEW i \in 1..Len(queue'), queue'[i] = "cancelling"
            PROVE  i \in 1..Len(queue) /\ queue[i] = "cancelling"
          BY <2>1, <2>3, <3>1
      <3>2. StopOnce'
          BY <3>1 DEF StopOnce, Live
      <3>3. StopInFlight' => StopInFlight
          BY <3>1 DEF StopInFlight, Live
      <3> QED
          BY <3>2, <3>3
    <2> QED
        BY <2>2, <2>3
  <1> QED
      BY <1>1, <1>2

(* Every step of the outbox and the host keeps the fence around a stop.    *)
LEMMA StopInvStep ==
    ASSUME TypeOK, CoreInv, FlushBarrier, BatchUnpaused, StopInv, [Next]_vars
    PROVE  StopInv'
  <1> USE DEF StopInv, sharedVars, actorVars, durableVars, seenVars, hostVars, boundVars
  <1>0. /\ ledger \in Seq(Rows) /\ pending \in Seq(Rows)
        /\ queue \in Seq(EventKinds \cup {"pause"}) /\ sequence + 1 \in Nat
      BY DEF TypeOK, TypeRows, TypeNumbers
  <1>1. ASSUME UNCHANGED <<ledger, task>>, UNCHANGED <<executor, lifecycle>>,
               StopInFlight' => StopInFlight, StopOnce'
        PROVE  StopInv'
      BY <1>1 DEF StopFences, StopPlaced, StopStands, StopIsLatest, Suspensions
  <1>2. ASSUME NEW k \in Kinds, Submit(k) PROVE StopInv'
    <2>1. /\ UNCHANGED <<ledger, task, pending, pc>> /\ Live
          /\ executor' \in {executor, "ended"}
        BY <1>2 DEF Submit, SubmissionOpen
    <2>2. k \in EventKinds \cup {"pause"}
        BY ConstantsAssumption
    <2>3. StopIsLatest' = StopIsLatest
        BY <2>1 DEF StopIsLatest, Suspensions
    <2>4. queue' = queue \/ queue' = Append(queue, k)
        BY <1>2 DEF Submit, SaturateQueue, Enqueue
    <2>5. CASE k = "cancelling"
      <3>1. executor = "ended" /\ lifecycle = "stop"
          BY <1>2, <2>5 DEF Submit, MayProduce, ClosesRun, TerminalStatuses
      <3>2. ~StopInFlight
          BY <3>1 DEF StopFences
      <3>3. \/ lifecycle' = "stopping"
            \/ lifecycle' = "free" /\ queue' = queue
          BY <1>2, <2>5 DEF Submit, SaturateQueue
      <3>4. lifecycle' = "free" => ~StopInFlight'
          BY <2>1, <3>2, <3>3 DEF StopInFlight, Live
      <3>5. StopOnce'
          BY <2>1, <2>2, <2>4, <3>2, StopQueuedOnce
      <3> QED
          BY <2>1, <2>3, <3>1, <3>3, <3>4, <3>5 DEF StopFences, StopPlaced, StopStands
    <2>6. CASE k # "cancelling"
      <3>1. lifecycle' = lifecycle
          BY <1>2, <2>6 DEF Submit
      <3>2. StopOnce' /\ (StopInFlight' => StopInFlight)
          BY <2>1, <2>2, <2>4, <2>6, StopQueuedOnce
      <3> QED
          BY <2>1, <2>3, <3>1, <3>2 DEF StopFences, StopPlaced, StopStands
    <2> QED
        BY <2>5, <2>6
  <1>3. ASSUME NEW k \in {"preview", "pause"}, queue' = queue \/ queue' = Append(queue, k),
               Live, UNCHANGED <<ledger, task, pending, pc>>,
               UNCHANGED <<executor, lifecycle>>
        PROVE  StopInv'
    <2>1. k \in EventKinds \cup {"pause"} /\ k # "cancelling"
        BY DEF EventKinds
    <2>2. StopOnce' /\ (StopInFlight' => StopInFlight)
        BY <1>3, <2>1, StopQueuedOnce
    <2> QED
        BY <1>1, <1>3, <2>2
  <1>4. CASE PublishEphemeral
    <2>1. queue' = queue \/ queue' = Append(queue, "preview")
        BY <1>4 DEF PublishEphemeral, Enqueue
    <2>2. /\ UNCHANGED <<ledger, task, pending, pc>> /\ Live
          /\ UNCHANGED <<executor, lifecycle>>
        BY <1>4 DEF PublishEphemeral, SubmissionOpen
    <2> QED
        BY <1>3, <2>1, <2>2
  <1>5. CASE PauseWithCheckpoint
    <2>1. queue' = queue \/ queue' = Append(queue, "pause")
        BY <1>5 DEF PauseWithCheckpoint, Enqueue, SaturateQueue
    <2>2. /\ UNCHANGED <<ledger, task, pending, pc>> /\ Live
          /\ UNCHANGED <<executor, lifecycle>>
        BY <1>5 DEF PauseWithCheckpoint, SubmissionOpen
    <2> QED
        BY <1>3, <2>1, <2>2
  <1>6. CASE RecvDurable
    <2>1. /\ UNCHANGED <<ledger, task>> /\ UNCHANGED <<executor, lifecycle>>
          /\ Live /\ pc # "deliver" /\ queue # <<>> /\ queue' = Tail(queue)
          /\ Head(queue) \notin {"preview", "pause"}
          /\ pending' = Append(pending, Row(sequence + 1, Head(queue)))
        BY <1>6 DEF RecvDurable, NextSequence, Live
    <2>2. (StopInFlight' => StopInFlight) /\ StopOnce'
        BY <1>0, <2>1, StopTaken, StopTakenOnce
    <2> QED
        BY <1>1, <2>1, <2>2
  <1>7. CASE RecvPreview \/ RecvPause
    <2>1. /\ UNCHANGED <<ledger, task>> /\ UNCHANGED <<executor, lifecycle>>
          /\ Live /\ pc # "deliver" /\ queue # <<>> /\ queue' = Tail(queue)
          /\ pending' = pending
        BY <1>7 DEF RecvPreview, RecvPause, Live
    <2>2. (StopInFlight' => StopInFlight) /\ StopOnce'
        BY <2>1, StopTaken, StopTakenOnce
    <2> QED
        BY <1>1, <2>1, <2>2
  <1>8. CASE DrainCommand
    <2>1. /\ UNCHANGED <<ledger, task>> /\ UNCHANGED <<executor, lifecycle>>
          /\ Live /\ pc # "deliver" /\ queue # <<>> /\ queue' = Tail(queue)
        BY <1>8 DEF DrainCommand, Live
    <2>2. \/ pending' = pending
          \/ /\ Head(queue) \notin {"preview", "pause"}
             /\ pending' = Append(pending, Row(sequence + 1, Head(queue)))
        BY <1>8 DEF DrainCommand, NextSequence
    <2>3. (StopInFlight' => StopInFlight) /\ StopOnce'
        BY <1>0, <2>1, <2>2, StopTaken, StopTakenOnce
    <2> QED
        BY <1>1, <2>1, <2>3
  <1>9. CASE CommitBatch
    <2>1. UNCHANGED <<executor, lifecycle, queue, pending>> /\ pc = "commit" /\ pc' = "deliver"
        BY <1>9 DEF CommitBatch
    <2>2. StopInFlight' => StopInFlight
        BY <2>1 DEF StopInFlight, Live
    <2>3. StopFences' /\ StopOnce'
        BY <2>1, <2>2 DEF StopFences, StopOnce, Live
    <2> QED
        BY <1>9, <2>3, StopBatchStep
  <1>10. CASE CommitCheckpoint
    <2>1. /\ UNCHANGED <<executor, lifecycle, queue>> /\ pc = "pause" /\ pc' = "deliver"
          /\ ledger' = Append(ledger, Row(sequence, "paused"))
          /\ task \in PausableStatuses
        BY <1>10 DEF CommitCheckpoint, CanCheckpoint
    <2>2. lifecycle # "stop" /\ ~StopInFlight' /\ StopOnce'
        BY <2>1 DEF StopInFlight, StopPlaced, StopOnce, Live, PausableStatuses,
              TerminalStatuses
    <2>3. PICK row : row = Row(sequence, "paused")
        OBVIOUS
    <2>4. row \in Rows /\ row.kind = "paused"
        BY <2>3 DEF Row, Rows, DurableKinds, TypeOK, TypeNumbers
    <2>5. PICK n \in Nat : n = Len(ledger)
        BY <1>0
    <2>6. Len(ledger') = n + 1 /\ ledger'[n + 1] = row
        BY <1>0, <2>1, <2>3, <2>4, <2>5
    <2>7. n + 1 \in Suspensions'
        BY <2>4, <2>6 DEF Suspensions
    <2>8. ~StopIsLatest'
        BY <2>6, <2>7 DEF StopIsLatest
    <2> QED
        BY <2>1, <2>2, <2>8 DEF StopFences, StopPlaced, StopStands
  <1>11. CASE ClaimFailure
    <2>1. /\ UNCHANGED <<executor, lifecycle, queue, pending, ledger>>
          /\ task' = "failed" /\ pc = "claim" /\ pc' = "deliver"
        BY <1>11 DEF ClaimFailure
    <2>2. (StopInFlight' => StopInFlight) /\ StopOnce'
        BY <2>1 DEF StopInFlight, StopOnce, Live
    <2> QED
        BY <2>1, <2>2 DEF StopFences, StopPlaced, StopStands, StopIsLatest, Suspensions,
              TerminalStatuses
  <1>12. CASE FlushTick \/ BeginDrain \/ DrainEnds
    <2>1. /\ UNCHANGED <<ledger, task>> /\ UNCHANGED <<executor, lifecycle>>
          /\ queue' = queue /\ (pending' = pending \/ pending' = <<>>)
          /\ pc \in {"recv", "drain"} /\ pc' \in {"commit", "drain", "claim"}
        BY <1>12 DEF FlushTick, BeginDrain, DrainEnds, BeginFailClosed
    <2>2. (StopInFlight' => StopInFlight) /\ StopOnce'
        BY <2>1 DEF StopInFlight, StopOnce, Live
    <2> QED
        BY <1>1, <2>1, <2>2
  <1>13. CASE CommitFails \/ CommitRefused \/ CheckpointRefused
    <2>1. /\ UNCHANGED <<ledger, task>> /\ UNCHANGED <<executor, lifecycle>>
          /\ queue' = queue /\ pending' = <<>>
          /\ pc \in {"commit", "pause"} /\ pc' = "claim"
        BY <1>13 DEF CommitFails, CommitRefused, CheckpointRefused, BeginFailClosed
    <2>2. (StopInFlight' => StopInFlight) /\ StopOnce'
        BY <2>1 DEF StopInFlight, StopOnce, Live
    <2> QED
        BY <1>1, <2>1, <2>2
  <1>14. CASE \/ DeliverBatch \/ DeliverBeforePreview \/ DeliverBeforePause
              \/ DeliverCheckpoint
    <2>1. /\ UNCHANGED <<ledger, task>> /\ UNCHANGED <<executor, lifecycle>>
          /\ queue' = queue /\ pending' = <<>> /\ pc = "deliver"
        BY <1>14 DEF DeliverBatch, DeliverBeforePreview, DeliverBeforePause,
              DeliverCheckpoint
    <2>2. (StopInFlight' => StopInFlight) /\ StopOnce'
        BY <2>1 DEF StopInFlight, StopOnce, Live
    <2> QED
        BY <1>1, <2>1, <2>2
  <1>15. CASE DeliverFailure \/ ClaimLost \/ ClaimFails
    <2>1. /\ UNCHANGED <<ledger, task>> /\ UNCHANGED <<executor, lifecycle>>
          /\ pc' = "stopped"
        BY <1>15 DEF DeliverFailure, ClaimLost, ClaimFails
    <2>2. ~StopInFlight' /\ StopOnce'
        BY <2>1 DEF StopInFlight, StopOnce, Live
    <2> QED
        BY <1>1, <2>1, <2>2
  <1>16. CASE Open
    <2>1. /\ UNCHANGED <<ledger, task>> /\ UNCHANGED <<executor, lifecycle>>
          /\ queue' = <<>> /\ pending' = <<>>
        BY <1>16 DEF Open, OpenOutbox
    <2>2. ~StopInFlight' /\ StopOnce'
        BY <2>1 DEF StopInFlight, StopOnce
    <2> QED
        BY <1>1, <2>1, <2>2
  <1>17. CASE Quiet
      BY <1>17, StopQuietStep
  <1> QED
      BY <1>2, <1>4, <1>5, <1>6, <1>7, <1>8, <1>9, <1>10, <1>11, <1>12, <1>13, <1>14,
         <1>15, <1>16, <1>17 DEF Next, Producer, Actor, Host, Quiet

----------------------------------------------------------------------------
(*                       Crashes and startup                               *)

RecoveryInv ==
    /\ TypeOK /\ LedgerOrdered /\ CoreInv /\ FlushInv
    /\ RowsInv /\ StopInv

(* A launched run.                                                         *)
LEMMA InitRecovered == InitRecovery => RecoveryInv
  <1> SUFFICES ASSUME Init PROVE RecoveryInv
      BY DEF InitRecovery
  <1>1. TypeOK /\ LedgerOrdered /\ CoreInv /\ FlushInv
      BY InitTyped, InitCore, InitStream
  <1>2. ledger = <<>> /\ queue = <<>> /\ pending = <<>> /\ lifecycle = "free" /\ pc = "recv"
      BY DEF Init
  <1>3. RowsInv
      BY <1>2 DEF RowsInv, BatchUnpaused, TerminalAgrees, CheckpointUncancelled,
            LedgerTerminal
  <1>4. StopInv
      BY <1>2 DEF Init, StopInv, StopFences, StopOnce, StopPlaced, StopStands, StopIsLatest,
            StopInFlight
  <1> QED
      BY <1>1, <1>3, <1>4 DEF RecoveryInv

(* The running program.                                                    *)
LEMMA RunningStep ==
    ASSUME RecoveryInv, [Next]_vars
    PROVE  RecoveryInv'
  <1> USE DEF RecoveryInv
  <1>1. TypeOK'
      BY TypeFlagsStep, TypeNumbersStep, TypeRowsStep, TypeStatesStep DEF TypeOK
  <1>2. LedgerOrdered'
      BY LedgerOrderedStep
  <1>3. CoreInv'
      BY BatchNumberedStep, BatchDroppedStep, ClosedOnFailureStep, TerminalPlacedStep
         DEF CoreInv
  <1>4. FlushInv'
      BY AcceptedCountedStep, MarkBelowBatchStep DEF FlushInv
  <1>5. RowsInv'
      BY BatchUnpausedStep, TerminalAgreesStep, CheckpointUncancelledStep DEF RowsInv
  <1>6. StopInv'
      BY CountingIsBarrier, StopInvStep DEF RowsInv
  <1> QED
      BY <1>1, <1>2, <1>3, <1>4, <1>5, <1>6

(* The invariants speak of the ledger through its rows only.               *)
LEMMA LedgerFrame ==
    ASSUME UNCHANGED ledger
    PROVE  /\ DurableHead' = DurableHead /\ LedgerTerminal' = LedgerTerminal
           /\ LedgerOrdered' = LedgerOrdered
           /\ StopIsLatest' = StopIsLatest
  BY DEF DurableHead, LedgerTerminal, LedgerOrdered, Increasing, StopIsLatest, Suspensions

(* A new process finds SQLite as the crash left it, and nothing else.      *)
LEMMA RestartStep ==
    ASSUME RecoveryInv, Restart
    PROVE  RecoveryInv'
  <1> USE DEF RecoveryInv, durableVars, boundVars
  <1>0. /\ UNCHANGED <<ledger, task, turn, barrier, answered, faults, progress, interactions>>
        /\ queue' = <<>> /\ pending' = <<>> /\ delivered' = <<>>
        /\ terminalSubmitted' = FALSE /\ submissionsPaused' = FALSE
        /\ failureRequest' = FALSE /\ cancelled' = FALSE
        /\ accepted' = DurableHead /\ sequence' = DurableHead
        /\ pc' = "absent" /\ after' = "loop" /\ completion' = "open"
        /\ pauseReply' = "none" /\ executor' = "ended" /\ lifecycle' = "free"
        /\ durability' = [ok |-> TRUE, seq |-> DurableHead]
      BY DEF Restart
  <1>1. DurableHead \in Nat /\ DurableHead' = DurableHead
      BY <1>0, HeadIsNat, LedgerFrame DEF TypeOK, TypeRows
  <1>2. TypeOK'
    <2>1. TypeFlags'
        BY <1>0, Zenon DEF TypeOK, TypeFlags
    <2>2. TypeNumbers'
        BY <1>0, <1>1 DEF TypeOK, TypeNumbers
    <2>3. TypeRows'
        BY <1>0, <1>1 DEF TypeOK, TypeRows
    <2>4. TypeStates'
        BY <1>0 DEF TypeOK, TypeStates, ExecutorStates, LifecycleStates
    <2> QED
        BY <2>1, <2>2, <2>3, <2>4 DEF TypeOK
  <1>3. LedgerOrdered'
      BY <1>0, LedgerFrame
  <1>4. CoreInv'
    <2>1. BatchNumbered' /\ BatchDropped'
        BY <1>0, <1>1, EmptyBatch DEF BatchNumbered, BatchDropped, Increasing, UpTo, Above
    <2>2. ClosedOnFailure' /\ TerminalPlaced'
        BY <1>0 DEF ClosedOnFailure, TerminalPlaced, NoneCloses, TerminalLast, NoTerminal
    <2> QED
        BY <2>1, <2>2 DEF CoreInv
  <1>5. FlushInv'
      BY <1>0, <1>1 DEF FlushInv, AcceptedCounted, MarkBelowBatch, Above
  <1>6. RowsInv'
      BY <1>0, LedgerFrame DEF RowsInv, BatchUnpaused, TerminalAgrees,
            CheckpointUncancelled
  <1>7. StopInv'
      BY <1>0, LedgerFrame DEF StopInv, StopFences, StopOnce, StopPlaced, StopStands,
            StopInFlight, Live
  <1> QED
      BY <1>2, <1>3, <1>4, <1>5, <1>6, <1>7

(* The transaction of the startup classification changes the two status    *)
(* rows only.                                                              *)
LEMMA StatusStep ==
    ASSUME RecoveryInv, task' \in TaskStatuses, turn' \in TurnStatuses,
           UNCHANGED <<ledger, barrier, answered, sharedVars, actorVars, seenVars, hostVars,
                       boundVars>>,
           TerminalAgrees', CheckpointUncancelled', StopStands', StopPlaced'
    PROVE  RecoveryInv'
  <1> USE DEF RecoveryInv, sharedVars, actorVars, seenVars, hostVars, boundVars
  <1>1. TypeOK'
    <2>1. TypeFlags' /\ TypeRows'
        BY DEF TypeOK, TypeFlags, TypeRows
    <2>2. TypeNumbers' /\ TypeStates'
        BY DEF TypeOK, TypeNumbers, TypeStates
    <2> QED
        BY <2>1, <2>2 DEF TypeOK
  <1>2. LedgerOrdered' /\ DurableHead' = DurableHead
      BY LedgerFrame
  <1>3. CoreInv'
    <2>1. BatchNumbered' /\ BatchDropped'
        BY <1>2 DEF CoreInv, BatchNumbered, BatchDropped, Increasing, UpTo, Above
    <2>2. ClosedOnFailure' /\ TerminalPlaced'
        BY DEF CoreInv, ClosedOnFailure, TerminalPlaced, NoneCloses, TerminalLast, NoTerminal
    <2> QED
        BY <2>1, <2>2 DEF CoreInv
  <1>4. FlushInv'
      BY DEF FlushInv, AcceptedCounted, MarkBelowBatch, Above
  <1>5. RowsInv'
      BY DEF RowsInv, BatchUnpaused
  <1>6. StopInv'
      BY DEF StopInv, StopFences, StopOnce, StopInFlight, Live
  <1> QED
      BY <1>1, <1>2, <1>3, <1>4, <1>5, <1>6

(* The rows that materialise a terminal agree with the ledger.             *)
LEMMA MaterializedStep ==
    ASSUME RecoveryInv, RunClosed,
           task' = IF LedgerTerminal THEN FirstTerminal ELSE task,
           turn' = TurnOf(IF LedgerTerminal THEN FirstTerminal ELSE task),
           UNCHANGED <<ledger, barrier, answered, sharedVars, actorVars, seenVars, hostVars,
                       boundVars>>
    PROVE  RecoveryInv' /\ Settled' /\ task' \in TerminalStatuses
  <1>0. ledger \in Seq(Rows) /\ LedgerOrdered
      BY DEF RecoveryInv, TypeOK, TypeRows
  <1>1. LedgerTerminal => /\ FirstTerminal = ledger[Len(ledger)].kind
                          /\ FirstTerminal \in TerminalStatuses
      BY <1>0, FirstTerminalIsLast
  <1>2. task' \in TerminalStatuses /\ turn' = TurnOf(task')
      BY <1>1 DEF RunClosed
  <1>3. task' \in TaskStatuses /\ turn' \in TurnStatuses /\ task' # "cancelling"
        /\ task' \notin {"paused", "awaiting_user_input"}
      BY <1>2 DEF TerminalStatuses, TaskStatuses, TurnStatuses, FinishedTurns, TurnOf
  <1>4. LedgerTerminal' = LedgerTerminal /\ StopIsLatest' = StopIsLatest
      BY LedgerFrame
  <1>5. TerminalAgrees' /\ CheckpointUncancelled'
      BY <1>1, <1>3, <1>4 DEF TerminalAgrees, CheckpointUncancelled
  <1>6. StopStands' /\ StopPlaced'
      BY <1>2, <1>3, <1>4 DEF StopStands, StopPlaced
  <1>7. FirstTerminal' = FirstTerminal
      BY DEF FirstTerminal
  <1> QED
      BY <1>2, <1>3, <1>4, <1>5, <1>6, <1>7, StatusStep DEF Settled

(* A process that has just started holds no lock and has no actor.         *)
BootIdle == phase = "boot" => pc = "absent" /\ lifecycle = "free"

LEMMA BootIdleStep == BootIdle /\ [NextRecovery]_allVars => BootIdle'
  BY DEF BootIdle, NextRecovery, Startup, Running, FinalizeWorkflow, Crash, Restart,
         NothingToRecover, RepairTerminal, RestoreSuspension, PlanInterrupted, StartupStep,
         CloseInterrupted, ActorCloses, ConvergeTerminal, AbortStartup, allVars,
         recoveryVars, vars, actorVars, hostVars

(* A suspension is restored only when no stop followed it.                 *)
LEMMA RestoredStep ==
    ASSUME RecoveryInv, RestoreSuspension
    PROVE  (BootIdle => RecoveryInv') /\ Settled' /\ ~StopIsLatest
  <1>0. ledger \in Seq(Rows) /\ Suspensions # {} /\ ~Invalidated(Max(Suspensions))
        /\ ~LedgerTerminal
      BY DEF RecoveryInv, TypeOK, TypeRows, RestoreSuspension, Resumable, RunClosed
  <1>1. /\ Max(Suspensions) \in Suspensions
        /\ \A b \in Suspensions : b <= Max(Suspensions)
      BY <1>0, LatestSuspension
  <1>2. PICK m \in 1..Len(ledger) :
            m = Max(Suspensions) /\ ledger[m].kind \in {"paused", "awaiting_user_input"}
      BY <1>1 DEF Suspensions
  <1>3. ~StopIsLatest
    <2>1. SUFFICES ASSUME NEW i \in 1..Len(ledger), ledger[i].kind = "cancelling",
                          \A b \in Suspensions : b < i
                   PROVE  FALSE
        BY DEF StopIsLatest
    <2>2. m < i
        BY <1>1, <1>2, <2>1
    <2>3. Len(ledger) \in Nat
        BY <1>0
    <2>4. i \in m+1..Len(ledger)
        BY <2>2, <2>3
    <2> QED
        BY <1>0, <1>2, <2>1, <2>4 DEF Invalidated
  <1>4. task' \in {"paused", "awaiting_user_input"} /\ turn' = task'
        /\ UNCHANGED <<ledger, barrier, answered, sharedVars, actorVars, seenVars, hostVars,
                       boundVars>>
      BY <1>2 DEF RestoreSuspension, StartupStep
  <1>5. LedgerTerminal' = LedgerTerminal /\ StopIsLatest' = StopIsLatest
      BY <1>4, LedgerFrame
  <1>6. task' \in TaskStatuses /\ turn' \in TurnStatuses
      BY <1>4 DEF TaskStatuses, TurnStatuses
  <1>7. BootIdle => StopPlaced'
      BY <1>4 DEF BootIdle, RestoreSuspension, StartupStep, StopPlaced, StopInFlight, Live,
            actorVars, hostVars
  <1>8. TerminalAgrees' /\ CheckpointUncancelled' /\ StopStands'
      BY <1>0, <1>3, <1>4, <1>5 DEF TerminalAgrees, CheckpointUncancelled, StopStands
  <1>9. Settled'
      BY <1>0, <1>4, <1>5 DEF Settled, SuspendedTask
  <1> QED
      BY <1>3, <1>4, <1>6, <1>7, <1>8, <1>9, StatusStep

(* The outbox that closes an interrupted run starts at the durable head    *)
(* with the cancelled terminal as its only command.                        *)
LEMMA CloseInterruptedStep ==
    ASSUME RecoveryInv, CloseInterrupted
    PROVE  RecoveryInv'
  <1> USE DEF RecoveryInv, durableVars, hostVars, boundVars
  <1>0. /\ UNCHANGED <<ledger, task, turn, barrier, answered, faults, progress, interactions>>
        /\ UNCHANGED <<pauseReply, executor, cancelled, lifecycle>>
        /\ queue' = <<"cancelled">> /\ pending' = <<>> /\ delivered' = <<>>
        /\ terminalSubmitted' = TRUE /\ submissionsPaused' = FALSE
        /\ failureRequest' = FALSE
        /\ accepted' = DurableHead + 1 /\ sequence' = DurableHead
        /\ pc' \in {"recv", "stopped"} /\ after' = "loop"
        /\ completion' \in {"open", "terminal"}
        /\ durability' = [ok |-> TRUE, seq |-> DurableHead]
      BY DEF CloseInterrupted, OpenOutbox, InitialSequence
  <1>1. DurableHead \in Nat /\ DurableHead' = DurableHead
      BY <1>0, HeadIsNat, LedgerFrame DEF TypeOK, TypeRows
  <1>2. TypeOK'
    <2>1. TypeFlags'
        BY <1>0, Zenon DEF TypeOK, TypeFlags
    <2>2. TypeNumbers'
        BY <1>0, <1>1 DEF TypeOK, TypeNumbers
    <2>3. "cancelled" \in EventKinds \cup {"pause"}
        BY DEF EventKinds, TerminalStatuses
    <2>4. TypeRows'
        BY <1>0, <1>1, <2>3 DEF TypeOK, TypeRows
    <2>5. TypeStates'
        BY <1>0 DEF TypeOK, TypeStates
    <2> QED
        BY <2>1, <2>2, <2>4, <2>5 DEF TypeOK
  <1>3. LedgerOrdered'
      BY <1>0, LedgerFrame
  <1>4. CoreInv'
    <2>1. BatchNumbered' /\ BatchDropped'
        BY <1>0, <1>1, EmptyBatch DEF BatchNumbered, BatchDropped, Increasing, UpTo, Above
    <2>2. ClosedOnFailure' /\ TerminalPlaced'
        BY <1>0 DEF ClosedOnFailure, TerminalPlaced, NoneCloses, TerminalLast, NoTerminal
    <2> QED
        BY <2>1, <2>2 DEF CoreInv
  <1>5. FlushInv'
      BY <1>0, <1>1 DEF FlushInv, AcceptedCounted, MarkBelowBatch, Above
  <1>6. RowsInv'
      BY <1>0, LedgerFrame DEF RowsInv, BatchUnpaused, TerminalAgrees,
            CheckpointUncancelled
  <1>7. ~StopInFlight'
      BY <1>0 DEF StopInFlight
  <1>8. StopInv'
      BY <1>0, <1>7, LedgerFrame DEF StopInv, StopFences, StopOnce, StopPlaced, StopStands
  <1> QED
      BY <1>2, <1>3, <1>4, <1>5, <1>6, <1>8

(* Every step of the program, its crashes and its startup.                 *)
LEMMA RecoveryStep ==
    ASSUME RecoveryInv, BootIdle, [NextRecovery]_allVars
    PROVE  RecoveryInv'
  <1>1. CASE Running \/ ActorCloses
      BY <1>1, RunningStep DEF Running, ActorCloses, Next
  <1>2. CASE FinalizeWorkflow \/ UNCHANGED allVars
      BY <1>2, RunningStep DEF FinalizeWorkflow, allVars
  <1>3. CASE Crash \/ AbortStartup
      BY <1>3, RestartStep DEF Crash, AbortStartup
  <1>4. CASE NothingToRecover \/ PlanInterrupted
    <2>1. UNCHANGED vars
        BY <1>4 DEF NothingToRecover, PlanInterrupted, StartupStep, vars, durableVars
    <2> QED
        BY <2>1, RunningStep
  <1>5. CASE RepairTerminal \/ ConvergeTerminal
      BY <1>5, MaterializedStep DEF RepairTerminal, ConvergeTerminal,
            MaterializeTerminal, StartupStep
  <1>6. CASE RestoreSuspension
      BY <1>6, RestoredStep
  <1>7. CASE CloseInterrupted
      BY <1>7, CloseInterruptedStep
  <1> QED
      BY <1>1, <1>2, <1>3, <1>4, <1>5, <1>6, <1>7 DEF NextRecovery, Startup

LEMMA RecoveryCorrect == RecoverySpec => []RecoveryInv
  <1>1. InitRecovery => RecoveryInv
      BY InitRecovered
  <1>2. InitRecovery => BootIdle
      BY DEF InitRecovery, BootIdle
  <1>3. RecoveryInv /\ BootIdle /\ [NextRecovery]_allVars => RecoveryInv'
      BY RecoveryStep
  <1> QED
      BY <1>1, <1>2, <1>3, BootIdleStep, PTL DEF RecoverySpec

----------------------------------------------------------------------------
(*                             Theorems                                    *)

(* The rows of agent_run_events stay ordered and a true terminal stays the *)
(* last of them across any number of crashes and startups: an outbox that  *)
(* is opened after a crash goes on numbering at the durable head, and      *)
(* startup adds a terminal to no run that already has one.                 *)
THEOREM LedgerSurvivesCrashes == RecoverySpec => []LedgerOrdered
  <1>1. RecoveryInv => LedgerOrdered
      BY DEF RecoveryInv
  <1> QED
      BY <1>1, RecoveryCorrect, PTL

(* What a run needs not to be a candidate of the startup plan.             *)
LEMMA NoCandidateIsSettled ==
    ASSUME RecoveryInv, ~Candidate
    PROVE  Settled
  <1>1. task \in TaskStatuses /\ ledger \in Seq(Rows) /\ LedgerOrdered
      BY DEF RecoveryInv, TypeOK, TypeStates, TypeRows
  <1>2. task \in {"paused", "awaiting_user_input"} \cup TerminalStatuses
      BY <1>1 DEF Candidate, ActiveTask, TaskStatuses
  <1>3. CASE task \in {"paused", "awaiting_user_input"}
      BY <1>3 DEF Candidate, Settled, SuspendedTask
  <1>4. CASE task \in TerminalStatuses
    <2>1. turn = TurnOf(task)
        BY <1>4 DEF Candidate
    <2>2. LedgerTerminal => task = FirstTerminal
        BY <1>1, <1>4, FirstTerminalIsLast DEF RecoveryInv, RowsInv, TerminalAgrees
    <2> QED
        BY <1>4, <2>1, <2>2 DEF Settled
  <1> QED
      BY <1>2, <1>3, <1>4

(* The steps with which startup ends.                                      *)
LEMMA StartupEnds ==
    ASSUME [NextRecovery]_allVars, phase # "up", phase' = "up"
    PROVE  \/ NothingToRecover \/ RepairTerminal \/ RestoreSuspension
           \/ ConvergeTerminal
  BY DEF NextRecovery, Startup, Running, FinalizeWorkflow, Crash, Restart, PlanInterrupted,
         StartupStep, CloseInterrupted, ActorCloses, AbortStartup, allVars, recoveryVars

(* Whatever two transactions a crash falls between, the startup that       *)
(* follows it leaves the run with one outcome: task row, turn row and      *)
(* ledger show the same terminal, or both rows the same suspension.        *)
THEOREM StartupSettles == RecoverySpec => RecoveredIsSettled
  <1>1. ASSUME RecoveryInv, [NextRecovery]_allVars, phase # "up", phase' = "up"
        PROVE  Settled'
    <2>1. CASE NothingToRecover
      <3>1. Settled
          BY <1>1, <2>1, NoCandidateIsSettled DEF NothingToRecover
      <3>2. UNCHANGED <<ledger, task, turn>>
          BY <2>1 DEF NothingToRecover, StartupStep
      <3>3. FirstTerminal' = FirstTerminal /\ LedgerTerminal' = LedgerTerminal
          BY <3>2, LedgerFrame DEF FirstTerminal
      <3> QED
          BY <3>1, <3>2, <3>3 DEF Settled, SuspendedTask
    <2>2. CASE RepairTerminal \/ ConvergeTerminal
        BY <1>1, <2>2, MaterializedStep DEF RepairTerminal, ConvergeTerminal,
              MaterializeTerminal, StartupStep
    <2>3. CASE RestoreSuspension
        BY <1>1, <2>3, RestoredStep
    <2> QED
        BY <1>1, <2>1, <2>2, <2>3, StartupEnds
  <1>2. RecoveryInv /\ [NextRecovery]_allVars =>
            [phase # "up" /\ phase' = "up" => Settled']_allVars
      BY <1>1
  <1> QED
      BY <1>2, RecoveryCorrect, PTL DEF RecoverySpec, RecoveredIsSettled

(* A checkpoint that is the last durable row of an open run is offered for *)
(* resumption again after a crash, also when the crash fell between the    *)
(* resume that re-queued the run and the first event of its new executor.  *)
THEOREM CheckpointSurvives == RecoverySpec => PauseSurvivesCrash
  <1> DEFINE Kept ==
        /\ phase = "boot" /\ phase' # "boot"
        /\ ledger # <<>> /\ ledger[Len(ledger)].kind = "paused"
        /\ task \notin TerminalStatuses \cup {"awaiting_user_input"}
        => task' = "paused" /\ turn' = "paused"
  <1>1. ASSUME RecoveryInv, [NextRecovery]_allVars, phase = "boot", phase' # "boot",
               ledger # <<>>, ledger[Len(ledger)].kind = "paused",
               task \notin TerminalStatuses \cup {"awaiting_user_input"}
        PROVE  task' = "paused" /\ turn' = "paused"
    <2>0. ledger \in Seq(Rows) /\ task \in TaskStatuses
        BY <1>1 DEF RecoveryInv, TypeOK, TypeRows, TypeStates
    <2>1. PICK n \in Nat : n = Len(ledger) /\ n \in 1..n
        BY <1>1, <2>0
    <2>2. ~RunClosed
        BY <1>1 DEF RecoveryInv, LedgerOrdered, RunClosed, LedgerTerminal, ClosesRun,
              TerminalStatuses
    <2>3. n \in Suspensions
        BY <1>1, <2>1 DEF Suspensions
    <2>4. Max(Suspensions) = n
      <3>1. /\ Max(Suspensions) \in Suspensions
            /\ \A b \in Suspensions : b <= Max(Suspensions)
          BY <2>0, <2>3, LatestSuspension
      <3>2. PICK m \in 1..n : m = Max(Suspensions)
          BY <2>1, <3>1 DEF Suspensions
      <3>3. n <= m
          BY <2>3, <3>1, <3>2
      <3> QED
          BY <3>2, <3>3
    <2>5. ~Invalidated(n)
        BY <1>1, <2>1 DEF Invalidated, RecoveryInv, RowsInv, CheckpointUncancelled
    <2>6. Resumable
        BY <2>3, <2>4, <2>5 DEF Resumable
    <2>7. NothingToRecover \/ RepairTerminal \/ RestoreSuspension \/ PlanInterrupted
        BY <1>1 DEF NextRecovery, Startup, Running, FinalizeWorkflow, Crash, Restart,
              CloseInterrupted, ActorCloses, ConvergeTerminal, AbortStartup, allVars,
              recoveryVars
    <2>8. CASE NothingToRecover
      <3>1. task = "paused"
          BY <1>1, <2>0, <2>8 DEF NothingToRecover, Candidate, ActiveTask, TaskStatuses
      <3> QED
          BY <2>8, <3>1 DEF NothingToRecover, Candidate, SuspendedTask
    <2>9. CASE RestoreSuspension
        BY <1>1, <2>1, <2>4, <2>9 DEF RestoreSuspension
    <2> QED
        BY <2>2, <2>6, <2>7, <2>8, <2>9 DEF RepairTerminal, PlanInterrupted
  <1>2. RecoveryInv /\ [NextRecovery]_allVars => [Kept]_allVars
      BY <1>1
  <1> QED
      BY <1>2, RecoveryCorrect, PTL DEF RecoverySpec, PauseSurvivesCrash

(* A run that was stopped after its last suspension, and that startup      *)
(* classifies, is closed by it: a durable cancelling event invalidates the *)
(* suspension before it, and no checkpoint was committed on top of a stop. *)
(* Rows that agree on awaiting_user_input are the one case left out: there *)
(* the code loses the stop.                                                *)
THEOREM StopIsHonoured == RecoverySpec => RecoveryHonoursStop
  <1> DEFINE Waits == task = "awaiting_user_input" /\ turn = "awaiting_user_input"
  <1>1. ASSUME RecoveryInv, [NextRecovery]_allVars, phase # "up", phase' = "up",
               StopIsLatest, ~Waits
        PROVE  task' \in TerminalStatuses
    <2>1. CASE NothingToRecover
      <3>1. Settled
          BY <1>1, <2>1, NoCandidateIsSettled DEF NothingToRecover
      <3>2. task # "paused"
          BY <1>1 DEF RecoveryInv, StopInv, StopStands
      <3> QED
          BY <1>1, <2>1, <3>1, <3>2 DEF Settled, SuspendedTask, NothingToRecover
    <2>2. CASE RepairTerminal \/ ConvergeTerminal
        BY <1>1, <2>2, MaterializedStep DEF RepairTerminal, ConvergeTerminal,
              MaterializeTerminal, StartupStep
    <2>3. CASE RestoreSuspension
        BY <1>1, <2>3, RestoredStep
    <2> QED
        BY <1>1, <2>1, <2>2, <2>3, StartupEnds
  <1>2. RecoveryInv /\ [NextRecovery]_allVars =>
            [phase # "up" /\ phase' = "up" /\ StopIsLatest /\ ~Waits
                => task' \in TerminalStatuses]_allVars
      BY <1>1
  <1> QED
      BY <1>2, RecoveryCorrect, PTL DEF RecoverySpec, RecoveryHonoursStop
=============================================================================
