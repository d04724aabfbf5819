------------------------ MODULE RunEventOutbox_proof ------------------------
(***************************************************************************)
(* Theorems about RunEventOutbox, for every capacity, batch size and bound *)
(* and every set of event kinds: type correctness, the order of the        *)
(* ledger, closed submission of a stopped actor, and append-only history.  *)
(*                                                                         *)
(* LedgerOrdered is not inductive: that a committed batch continues the    *)
(* ledger needs the numbering of the batch the actor holds                 *)
(* (BatchNumbered), and that no row follows a terminal needs to know where *)
(* a terminal can wait (TerminalPlaced), which in turn rests on when       *)
(* submission is closed (ClosedOnFailure).                                 *)
(***************************************************************************)
EXTENDS RunEventOutbox, TLAPS

(* The host steps that touch neither the queue nor the actor.              *)
Quiet ==
    \/ FenceExecutor \/ FlushedForPause \/ PauseRejected \/ PauseAbandoned
    \/ ReconcileFailedStop \/ ResumeFromCheckpoint \/ ResumeSubmissions
    \/ ResumeRejected \/ LaunchSuperseded \/ CreateInteraction
    \/ WithdrawInteraction \/ SuspendForInteraction \/ AnswerInteraction \/ BeginStop
    \/ StopFindsClosed \/ CancelInteractions \/ StopAbandoned \/ StopEnds
    \/ ExecutorProgress \/ ExecutorFinalizesTurn \/ ExecutorReturns
    \/ FinalizeTurn
    \/ UNCHANGED vars
----------------------------------------------------------------------------
(*                            Type correctness                             *)

(* The durable head is a sequence number.                                  *)
LEMMA HeadIsNat == ASSUME ledger \in Seq(Rows) PROVE DurableHead \in Nat
  <1>1. CASE ledger = <<>>
      BY <1>1 DEF DurableHead
  <1>2. CASE ledger # <<>>
    <2>1. ledger[Len(ledger)] \in Rows
        BY <1>2
    <2> QED
        BY <1>2, <2>1 DEF DurableHead, Rows
  <1> QED
      BY <1>1, <1>2

(* A row is a sequence number and a kind.                                  *)
LEMMA RowTyped ==
    ASSUME NEW n \in Nat, NEW k \in DurableKinds \cup {"preview", "outbox_failed"}
    PROVE  /\ Row(n, k) \in Deliveries
           /\ k \in DurableKinds => Row(n, k) \in Rows
  BY DEF Row, Rows, Deliveries

(* What the actor takes from the queue for SQLite has a durable kind.      *)
LEMMA QueuedKinds ==
    ASSUME NEW k \in EventKinds \cup {"pause"}, k \notin {"preview", "pause"}
    PROVE  k \in DurableKinds
  BY DEF DurableKinds

(* Delivering a batch of rows extends the stream of deliveries.            *)
LEMMA DeliveredTyped ==
    ASSUME NEW d \in Seq(Deliveries), NEW p \in Seq(Rows)
    PROVE  d \o p \in Seq(Deliveries)
  <1>1. Rows \subseteq Deliveries
      BY DEF Rows, Deliveries
  <1>2. p \in Seq(Deliveries)
      BY <1>1
  <1> QED
      BY <1>2

(* The number a failure terminal carries.                                  *)
LEMMA FailureNumber ==
    ASSUME ledger \in Seq(Rows), sequence \in Nat
    PROVE  /\ Max2(DurableHead, sequence) + 1 \in Nat
           /\ Max2(DurableHead, sequence) + 1 > sequence
  BY HeadIsNat DEF Max2

(* A producer extends the queue by a command.                              *)
LEMMA AppendTyped ==
    ASSUME NEW q \in Seq(EventKinds \cup {"pause"}),
           NEW k \in EventKinds \cup {"preview", "pause"}
    PROVE  Append(q, k) \in Seq(EventKinds \cup {"pause"})
  <1>1. k \in EventKinds \cup {"pause"}
      BY DEF EventKinds
  <1> QED
      BY <1>1

(* A terminal test is a truth value.                                       *)
LEMMA ClosesRunIsBoolean == ASSUME NEW k PROVE ClosesRun(k) \in BOOLEAN
  BY DEF ClosesRun

(* A command that is taken from the queue leaves a queue.                  *)
LEMMA QueueTyped ==
    ASSUME NEW q \in Seq(EventKinds \cup {"pause"}), q # <<>>
    PROVE  /\ Tail(q) \in Seq(EventKinds \cup {"pause"})
           /\ Head(q) \in EventKinds \cup {"pause"}
  OBVIOUS

(* The initial state of a launched run is well typed.                      *)
LEMMA InitTyped == Init => TypeOK
  <1> SUFFICES ASSUME Init PROVE TypeOK
      OBVIOUS
  <1>1. TypeFlags
      BY Zenon DEF Init, TypeFlags
  <1>2. TypeNumbers
      BY DEF Init, TypeNumbers
  <1>3. TypeRows
      BY DEF Init, TypeRows
  <1>4. TypeStates
      BY DEF Init, TypeStates, TaskStatuses, TurnStatuses, ExecutorStates, LifecycleStates
  <1> QED
      BY <1>1, <1>2, <1>3, <1>4 DEF TypeOK

(* Every step keeps the truth values.                                      *)
LEMMA TypeFlagsStep ==
    ASSUME TypeOK, [Next]_vars
    PROVE  TypeFlags'
  <1> USE DEF TypeOK, TypeFlags, durableVars, sharedVars, actorVars, seenVars,
     hostVars, boundVars
  <1>1. ASSUME NEW k \in Kinds, Submit(k) PROVE TypeFlags'
    <2>1. CASE QueueFull
        BY <1>1, <2>1, Zenon DEF Submit, SaturateQueue
    <2>2. CASE ~QueueFull
      <3>1. /\ terminalSubmitted' = ClosesRun(k)
            /\ cancelled' = (cancelled \/ k = "timed_out")
          BY <1>1, <2>2, Zenon DEF Submit
      <3>2. UNCHANGED <<barrier, answered, submissionsPaused, failureRequest>>
          BY <1>1, <2>2, Zenon DEF Submit, Enqueue
      <3>3. terminalSubmitted' \in BOOLEAN
          BY <3>1, ClosesRunIsBoolean, Zenon
      <3>4. cancelled' \in BOOLEAN
          BY <3>1, Zenon
      <3> QED
          BY <3>2, <3>3, <3>4, Zenon
    <2> QED
        BY <2>1, <2>2
  <1>2. CASE PublishEphemeral
      BY <1>2, Zenon DEF PublishEphemeral, Enqueue
  <1>3. CASE RecvDurable
      BY <1>3, Zenon DEF RecvDurable, NextSequence, ClosesRun
  <1>4. CASE RecvPreview
      BY <1>4, Zenon DEF RecvPreview, NextSequence
  <1>5. CASE RecvPause
      BY <1>5, Zenon DEF RecvPause, NextSequence
  <1>6. CASE FlushTick
      BY <1>6, Zenon DEF FlushTick
  <1>7. CASE CommitBatch
      BY <1>7, Zenon DEF CommitBatch, ClosesRun
  <1>8. CASE CommitFails
      BY <1>8, Zenon DEF CommitFails, BeginFailClosed, ClosesRun
  <1>9. CASE CommitRefused
      BY <1>9, Zenon DEF CommitRefused, BeginFailClosed, ClosesRun
  <1>10. CASE CommitCheckpoint
      BY <1>10, Zenon DEF CommitCheckpoint, ClosesRun
  <1>11. CASE CheckpointRefused
      BY <1>11, Zenon DEF CheckpointRefused, BeginFailClosed, ClosesRun
  <1>12. CASE DeliverBatch
      BY <1>12, Zenon DEF DeliverBatch
  <1>13. CASE DeliverBeforePreview
      BY <1>13, Zenon DEF DeliverBeforePreview
  <1>14. CASE DeliverBeforePause
      BY <1>14, Zenon DEF DeliverBeforePause, NextSequence
  <1>15. CASE DeliverCheckpoint
      BY <1>15, Zenon DEF DeliverCheckpoint, AnswerPause
  <1>16. CASE BeginDrain
      BY <1>16, Zenon DEF BeginDrain
  <1>17. CASE DrainCommand
      BY <1>17, Zenon DEF DrainCommand, NextSequence
  <1>18. CASE DrainEnds
      BY <1>18, Zenon DEF DrainEnds, BeginFailClosed
  <1>19. CASE ClaimFailure
      BY <1>19, Zenon DEF ClaimFailure, ClosesRun
  <1>20. CASE DeliverFailure
      BY <1>20, Zenon DEF DeliverFailure, FailWaiters, AnswerPause
  <1>21. CASE ClaimLost
      BY <1>21, Zenon DEF ClaimLost, AnswerPause, ClosesRun
  <1>22. CASE ClaimFails
      BY <1>22, Zenon DEF ClaimFails, FailWaiters, AnswerPause
  <1>23. CASE FenceExecutor
      BY <1>23, Zenon DEF FenceExecutor
  <1>24. CASE FlushedForPause
      BY <1>24, Zenon DEF FlushedForPause
  <1>25. CASE PauseWithCheckpoint
      BY <1>25, Zenon DEF PauseWithCheckpoint, SaturateQueue, Enqueue
  <1>26. CASE PauseRejected
      BY <1>26, Zenon DEF PauseRejected
  <1>27. CASE PauseAbandoned
      BY <1>27, Zenon DEF PauseAbandoned
  <1>28. CASE ReconcileFailedStop
      BY <1>28, Zenon DEF ReconcileFailedStop, ClosesRun
  <1>29. CASE ResumeFromCheckpoint
      BY <1>29, Zenon DEF ResumeFromCheckpoint, Requeue
  <1>30. CASE ResumeSubmissions
      BY <1>30, Zenon DEF ResumeSubmissions
  <1>31. CASE ResumeRejected
      BY <1>31, Zenon DEF ResumeRejected, ClosesRun
  <1>32. CASE LaunchSuperseded
      BY <1>32, Zenon DEF LaunchSuperseded
  <1>33. CASE CreateInteraction
      BY <1>33, Zenon DEF CreateInteraction
  <1>34. CASE SuspendForInteraction
      BY <1>34, Zenon DEF SuspendForInteraction
  <1>35. CASE AnswerInteraction
      BY <1>35, Zenon DEF AnswerInteraction
  <1>36. CASE BeginStop
      BY <1>36, Zenon DEF BeginStop
  <1>37. CASE StopFindsClosed
      BY <1>37, Zenon DEF StopFindsClosed
  <1>38. CASE CancelInteractions
      BY <1>38, Zenon DEF CancelInteractions
  <1>39. CASE StopAbandoned
      BY <1>39, Zenon DEF StopAbandoned
  <1>40. CASE StopEnds
      BY <1>40, Zenon DEF StopEnds
  <1>41. CASE ExecutorProgress
      BY <1>41, Zenon DEF ExecutorProgress
  <1>42. CASE ExecutorFinalizesTurn
      BY <1>42, Zenon DEF ExecutorFinalizesTurn
  <1>43. CASE ExecutorReturns
      BY <1>43, Zenon DEF ExecutorReturns
  <1>44. CASE FinalizeTurn
      BY <1>44, Zenon DEF FinalizeTurn
  <1>45. CASE Open
      BY <1>45, Zenon DEF Open, OpenOutbox, InitialSequence, ClosesRun
  <1>46. CASE UNCHANGED vars
      BY <1>46, Zenon DEF vars
  <1>47. CASE WithdrawInteraction
      BY <1>47, Zenon DEF WithdrawInteraction
  <1> QED
      BY <1>1, <1>2, <1>3, <1>4, <1>5, <1>6, <1>7, <1>8, <1>9, <1>10, <1>11,
         <1>12, <1>13, <1>14, <1>15, <1>16, <1>17, <1>18, <1>19, <1>20, <1>21,
         <1>22, <1>23, <1>24, <1>25, <1>26, <1>27, <1>28, <1>29, <1>30, <1>31,
         <1>32, <1>33, <1>34, <1>35, <1>36, <1>37, <1>38, <1>39, <1>40, <1>41,
         <1>42, <1>43, <1>44, <1>45, <1>46, <1>47 DEF Next, Producer, Actor, Host

(* Every step keeps the counters.                                          *)
LEMMA TypeNumbersStep ==
    ASSUME TypeOK, [Next]_vars
    PROVE  TypeNumbers'
  <1> USE DEF TypeOK, TypeNumbers, durableVars, sharedVars, actorVars, seenVars,
     hostVars, boundVars
  <1>1. ASSUME NEW k \in Kinds, Submit(k) PROVE TypeNumbers'
      BY <1>1 DEF Submit, SaturateQueue, Enqueue
  <1>2. CASE PublishEphemeral
      BY <1>2 DEF PublishEphemeral, Enqueue
  <1>3. CASE RecvDurable
      BY <1>3 DEF RecvDurable, NextSequence
  <1>4. CASE RecvPreview
      BY <1>4 DEF RecvPreview, NextSequence
  <1>5. CASE RecvPause
      BY <1>5 DEF RecvPause, NextSequence
  <1>6. CASE FlushTick
      BY <1>6 DEF FlushTick
  <1>7. CASE CommitBatch
      BY <1>7 DEF CommitBatch
  <1>8. CASE CommitFails
      BY <1>8 DEF CommitFails, BeginFailClosed
  <1>9. CASE CommitRefused
      BY <1>9 DEF CommitRefused, BeginFailClosed
  <1>10. CASE CommitCheckpoint
      BY <1>10 DEF CommitCheckpoint
  <1>11. CASE CheckpointRefused
      BY <1>11 DEF CheckpointRefused, BeginFailClosed
  <1>12. CASE DeliverBatch
      BY <1>12 DEF DeliverBatch
  <1>13. CASE DeliverBeforePreview
      BY <1>13 DEF DeliverBeforePreview
  <1>14. CASE DeliverBeforePause
      BY <1>14 DEF DeliverBeforePause, NextSequence
  <1>15. CASE DeliverCheckpoint
      BY <1>15 DEF DeliverCheckpoint, AnswerPause
  <1>16. CASE BeginDrain
      BY <1>16 DEF BeginDrain
  <1>17. CASE DrainCommand
      BY <1>17 DEF DrainCommand, NextSequence
  <1>18. CASE DrainEnds
      BY <1>18 DEF DrainEnds, BeginFailClosed
  <1>19. CASE ClaimFailure
      BY <1>19 DEF ClaimFailure
  <1>20. CASE DeliverFailure
      BY <1>20 DEF DeliverFailure, FailWaiters, AnswerPause
  <1>21. CASE ClaimLost
      BY <1>21 DEF ClaimLost, AnswerPause
  <1>22. CASE ClaimFails
      BY <1>22 DEF ClaimFails, FailWaiters, AnswerPause
  <1>23. CASE FenceExecutor
      BY <1>23 DEF FenceExecutor
  <1>24. CASE FlushedForPause
      BY <1>24 DEF FlushedForPause
  <1>25. CASE PauseWithCheckpoint
      BY <1>25 DEF PauseWithCheckpoint, SaturateQueue, Enqueue
  <1>26. CASE PauseRejected
      BY <1>26 DEF PauseRejected
  <1>27. CASE PauseAbandoned
      BY <1>27 DEF PauseAbandoned
  <1>28. CASE ReconcileFailedStop
      BY <1>28 DEF ReconcileFailedStop
  <1>29. CASE ResumeFromCheckpoint
      BY <1>29 DEF ResumeFromCheckpoint, Requeue
  <1>30. CASE ResumeSubmissions
      BY <1>30 DEF ResumeSubmissions
  <1>31. CASE ResumeRejected
      BY <1>31 DEF ResumeRejected
  <1>32. CASE LaunchSuperseded
      BY <1>32 DEF LaunchSuperseded
  <1>33. CASE CreateInteraction
      BY <1>33 DEF CreateInteraction
  <1>34. CASE SuspendForInteraction
      BY <1>34 DEF SuspendForInteraction
  <1>35. CASE AnswerInteraction
      BY <1>35 DEF AnswerInteraction
  <1>36. CASE BeginStop
      BY <1>36 DEF BeginStop
  <1>37. CASE StopFindsClosed
      BY <1>37 DEF StopFindsClosed
  <1>38. CASE CancelInteractions
      BY <1>38 DEF CancelInteractions
  <1>39. CASE StopAbandoned
      BY <1>39 DEF StopAbandoned
  <1>40. CASE StopEnds
      BY <1>40 DEF StopEnds
  <1>41. CASE ExecutorProgress
      BY <1>41 DEF ExecutorProgress
  <1>42. CASE ExecutorFinalizesTurn
      BY <1>42 DEF ExecutorFinalizesTurn
  <1>43. CASE ExecutorReturns
      BY <1>43 DEF ExecutorReturns
  <1>44. CASE FinalizeTurn
      BY <1>44 DEF FinalizeTurn
  <1>45. CASE Open
      BY <1>45, HeadIsNat DEF TypeRows, Open, OpenOutbox, InitialSequence
  <1>46. CASE UNCHANGED vars
      BY <1>46 DEF vars
  <1>47. CASE WithdrawInteraction
      BY <1>47 DEF WithdrawInteraction
  <1> QED
      BY <1>1, <1>2, <1>3, <1>4, <1>5, <1>6, <1>7, <1>8, <1>9, <1>10, <1>11,
         <1>12, <1>13, <1>14, <1>15, <1>16, <1>17, <1>18, <1>19, <1>20, <1>21,
         <1>22, <1>23, <1>24, <1>25, <1>26, <1>27, <1>28, <1>29, <1>30, <1>31,
         <1>32, <1>33, <1>34, <1>35, <1>36, <1>37, <1>38, <1>39, <1>40, <1>41,
         <1>42, <1>43, <1>44, <1>45, <1>46, <1>47 DEF Next, Producer, Actor, Host

(* Every step keeps the sequences: ledger, batch, stream and queue.        *)
LEMMA TypeRowsStep ==
    ASSUME TypeOK, [Next]_vars
    PROVE  TypeRows'
  <1> USE DEF TypeOK, TypeRows, TypeNumbers, durableVars, sharedVars, actorVars,
     seenVars, hostVars, boundVars
  <1>1. ASSUME NEW k \in Kinds, Submit(k) PROVE TypeRows'
    <2>1. k \in EventKinds
        BY ConstantsAssumption
    <2>2. queue' = queue \/ queue' = Append(queue, k)
        BY <1>1 DEF Submit, SaturateQueue, Enqueue
    <2>3. UNCHANGED <<ledger, pending, delivered, durability>>
        BY <1>1 DEF Submit
    <2>4. queue' \in Seq(EventKinds \cup {"pause"})
        BY <2>1, <2>2, AppendTyped
    <2> QED
        BY <2>3, <2>4
  <1>2. CASE PublishEphemeral
    <2>1. queue' = queue \/ queue' = Append(queue, "preview")
        BY <1>2 DEF PublishEphemeral, Enqueue
    <2>2. UNCHANGED <<ledger, pending, delivered, durability>>
        BY <1>2 DEF PublishEphemeral
    <2>3. queue' \in Seq(EventKinds \cup {"pause"})
        BY <2>1, AppendTyped
    <2> QED
        BY <2>2, <2>3
  <1>3. CASE RecvDurable
      BY <1>3, QueueTyped, QueuedKinds, RowTyped DEF RecvDurable, NextSequence
  <1>4. CASE RecvPreview
    <2>1. NextSequence \in Nat /\ Row(NextSequence, "preview") \in Deliveries
        BY RowTyped DEF NextSequence
    <2>2. queue' \in Seq(EventKinds \cup {"pause"}) /\ UNCHANGED <<ledger, pending>>
        BY <1>4, QueueTyped DEF RecvPreview
    <2>3. CASE pending # <<>>
      <3>1. UNCHANGED <<delivered, durability>>
          BY <1>4, <2>3 DEF RecvPreview
      <3> QED
          BY <2>2, <3>1
    <2>4. CASE pending = <<>>
      <3>1. /\ delivered' = Append(delivered, Row(NextSequence, "preview"))
            /\ durability' = [ok |-> TRUE, seq |-> NextSequence]
          BY <1>4, <2>4 DEF RecvPreview
      <3>2. delivered' \in Seq(Deliveries)
          BY <2>1, <3>1
      <3>3. durability' \in [ok : BOOLEAN, seq : Nat]
          BY <2>1, <3>1
      <3> QED
          BY <2>2, <3>2, <3>3
    <2> QED
        BY <2>3, <2>4
  <1>5. CASE RecvPause
      BY <1>5, QueueTyped DEF RecvPause, NextSequence
  <1>6. CASE FlushTick
      BY <1>6 DEF FlushTick
  <1>7. CASE CommitBatch
      BY <1>7 DEF CommitBatch, WithRows
  <1>8. CASE CommitFails
      BY <1>8 DEF CommitFails, BeginFailClosed
  <1>9. CASE CommitRefused
      BY <1>9 DEF CommitRefused, BeginFailClosed
  <1>10. CASE CommitCheckpoint
    <2>1. Row(sequence, "paused") \in Rows
        BY RowTyped DEF DurableKinds
    <2> QED
        BY <1>10, <2>1 DEF CommitCheckpoint
  <1>11. CASE CheckpointRefused
      BY <1>11 DEF CheckpointRefused, BeginFailClosed
  <1>12. CASE DeliverBatch
      BY <1>12, DeliveredTyped DEF DeliverBatch
  <1>13. CASE DeliverBeforePreview
      BY <1>13, DeliveredTyped, RowTyped DEF DeliverBeforePreview
  <1>14. CASE DeliverBeforePause
      BY <1>14, DeliveredTyped DEF DeliverBeforePause, NextSequence
  <1>15. CASE DeliverCheckpoint
      BY <1>15, DeliveredTyped DEF DeliverCheckpoint, AnswerPause
  <1>16. CASE BeginDrain
      BY <1>16 DEF BeginDrain
  <1>17. CASE DrainCommand
    <2>1. NextSequence \in Nat
        BY DEF NextSequence
    <2>2. queue' \in Seq(EventKinds \cup {"pause"})
        BY <1>17, QueueTyped DEF DrainCommand
    <2>3. \/ UNCHANGED pending
          \/ /\ Head(queue) \in DurableKinds
             /\ pending' = Append(pending, Row(NextSequence, Head(queue)))
        BY <1>17, QueueTyped, QueuedKinds DEF DrainCommand
    <2>4. pending' \in Seq(Rows)
      <3>1. CASE UNCHANGED pending
          BY <3>1
      <3>2. CASE /\ Head(queue) \in DurableKinds
                 /\ pending' = Append(pending, Row(NextSequence, Head(queue)))
        <4>1. Row(NextSequence, Head(queue)) \in Rows
            BY <2>1, <3>2, RowTyped
        <4> QED
            BY <3>2, <4>1
      <3> QED
          BY <2>3, <3>1, <3>2
    <2> QED
        BY <1>17, <2>2, <2>4 DEF DrainCommand
  <1>18. CASE DrainEnds
      BY <1>18 DEF DrainEnds, BeginFailClosed
  <1>19. CASE ClaimFailure
      BY <1>19 DEF ClaimFailure
  <1>20. CASE DeliverFailure
    <2>1. Row(Max2(DurableHead, sequence) + 1, "outbox_failed") \in Deliveries
        BY FailureNumber, RowTyped
    <2>2. durability' = [durability EXCEPT !.ok = FALSE] /\ UNCHANGED <<ledger, pending, queue>>
        BY <1>20 DEF DeliverFailure, FailWaiters
    <2>3. durability' \in [ok : BOOLEAN, seq : Nat]
        BY <2>2
    <2>4. delivered' \in Seq(Deliveries)
        BY <1>20, <2>1 DEF DeliverFailure
    <2> QED
        BY <2>2, <2>3, <2>4
  <1>21. CASE ClaimLost
      BY <1>21, HeadIsNat DEF ClaimLost, AnswerPause
  <1>22. CASE ClaimFails
      BY <1>22 DEF ClaimFails, FailWaiters, AnswerPause
  <1>23. CASE FenceExecutor
      BY <1>23 DEF FenceExecutor
  <1>24. CASE FlushedForPause
      BY <1>24 DEF FlushedForPause
  <1>25. CASE PauseWithCheckpoint
    <2>1. queue' = queue \/ queue' = Append(queue, "pause")
        BY <1>25 DEF PauseWithCheckpoint, SaturateQueue, Enqueue
    <2>2. UNCHANGED <<ledger, pending, delivered, durability>>
        BY <1>25 DEF PauseWithCheckpoint
    <2>3. queue' \in Seq(EventKinds \cup {"pause"})
        BY <2>1, AppendTyped
    <2> QED
        BY <2>2, <2>3
  <1>26. CASE PauseRejected
      BY <1>26 DEF PauseRejected
  <1>27. CASE PauseAbandoned
      BY <1>27 DEF PauseAbandoned
  <1>28. CASE ReconcileFailedStop
      BY <1>28 DEF ReconcileFailedStop
  <1>29. CASE ResumeFromCheckpoint
      BY <1>29 DEF ResumeFromCheckpoint, Requeue
  <1>30. CASE ResumeSubmissions
      BY <1>30 DEF ResumeSubmissions
  <1>31. CASE ResumeRejected
      BY <1>31 DEF ResumeRejected
  <1>32. CASE LaunchSuperseded
      BY <1>32 DEF LaunchSuperseded
  <1>33. CASE CreateInteraction
      BY <1>33 DEF CreateInteraction
  <1>34. CASE SuspendForInteraction
      BY <1>34 DEF SuspendForInteraction
  <1>35. CASE AnswerInteraction
      BY <1>35 DEF AnswerInteraction
  <1>36. CASE BeginStop
      BY <1>36 DEF BeginStop
  <1>37. CASE StopFindsClosed
      BY <1>37 DEF StopFindsClosed
  <1>38. CASE CancelInteractions
      BY <1>38 DEF CancelInteractions
  <1>39. CASE StopAbandoned
      BY <1>39 DEF StopAbandoned
  <1>40. CASE StopEnds
      BY <1>40 DEF StopEnds
  <1>41. CASE ExecutorProgress
      BY <1>41 DEF ExecutorProgress
  <1>42. CASE ExecutorFinalizesTurn
      BY <1>42 DEF ExecutorFinalizesTurn
  <1>43. CASE ExecutorReturns
      BY <1>43 DEF ExecutorReturns
  <1>44. CASE FinalizeTurn
      BY <1>44 DEF FinalizeTurn
  <1>45. CASE Open
      BY <1>45, HeadIsNat DEF Open, OpenOutbox, InitialSequence
  <1>46. CASE UNCHANGED vars
      BY <1>46 DEF vars
  <1>47. CASE WithdrawInteraction
      BY <1>47 DEF WithdrawInteraction
  <1> QED
      BY <1>1, <1>2, <1>3, <1>4, <1>5, <1>6, <1>7, <1>8, <1>9, <1>10, <1>11,
         <1>12, <1>13, <1>14, <1>15, <1>16, <1>17, <1>18, <1>19, <1>20, <1>21,
         <1>22, <1>23, <1>24, <1>25, <1>26, <1>27, <1>28, <1>29, <1>30, <1>31,
         <1>32, <1>33, <1>34, <1>35, <1>36, <1>37, <1>38, <1>39, <1>40, <1>41,
         <1>42, <1>43, <1>44, <1>45, <1>46, <1>47 DEF Next, Producer, Actor, Host

(* Every step keeps the statuses and control states.                       *)
LEMMA TypeStatesStep ==
    ASSUME TypeOK, [Next]_vars
    PROVE  TypeStates'
  <1> USE DEF TypeOK, TypeStates, TaskStatuses, TurnStatuses, TerminalStatuses,
     FinishedTurns, ExecutorStates, LifecycleStates, durableVars, sharedVars,
     actorVars, seenVars, hostVars, boundVars
  <1>1. ASSUME NEW k \in Kinds, Submit(k) PROVE TypeStates'
      BY <1>1 DEF Submit, SaturateQueue, Enqueue
  <1>2. CASE PublishEphemeral
      BY <1>2 DEF PublishEphemeral, Enqueue
  <1>3. CASE RecvDurable
      BY <1>3 DEF RecvDurable, NextSequence
  <1>4. CASE RecvPreview
      BY <1>4 DEF RecvPreview, NextSequence
  <1>5. CASE RecvPause
      BY <1>5 DEF RecvPause, NextSequence
  <1>6. CASE FlushTick
      BY <1>6 DEF FlushTick
  <1>7. CASE CommitBatch
      BY <1>7 DEF CommitBatch, ProjectTask, LeavesTask, AskedStatus, TurnOf
  <1>8. CASE CommitFails
      BY <1>8 DEF CommitFails, BeginFailClosed
  <1>9. CASE CommitRefused
      BY <1>9 DEF CommitRefused, BeginFailClosed
  <1>10. CASE CommitCheckpoint
      BY <1>10 DEF CommitCheckpoint, CanCheckpoint, ProjectTask,
         PausableStatuses, LeavesTask, AskedStatus
  <1>11. CASE CheckpointRefused
      BY <1>11 DEF CheckpointRefused, CanCheckpoint, BeginFailClosed,
         PausableStatuses
  <1>12. CASE DeliverBatch
      BY <1>12 DEF DeliverBatch
  <1>13. CASE DeliverBeforePreview
      BY <1>13 DEF DeliverBeforePreview
  <1>14. CASE DeliverBeforePause
      BY <1>14 DEF DeliverBeforePause, NextSequence
  <1>15. CASE DeliverCheckpoint
      BY <1>15 DEF DeliverCheckpoint, AnswerPause
  <1>16. CASE BeginDrain
      BY <1>16 DEF BeginDrain
  <1>17. CASE DrainCommand
      BY <1>17 DEF DrainCommand, NextSequence
  <1>18. CASE DrainEnds
      BY <1>18 DEF DrainEnds, BeginFailClosed
  <1>19. CASE ClaimFailure
      BY <1>19 DEF ClaimFailure
  <1>20. CASE DeliverFailure
      BY <1>20 DEF DeliverFailure, FailWaiters, AnswerPause
  <1>21. CASE ClaimLost
      BY <1>21 DEF ClaimLost, AnswerPause
  <1>22. CASE ClaimFails
      BY <1>22 DEF ClaimFails, FailWaiters, AnswerPause
  <1>23. CASE FenceExecutor
      BY <1>23 DEF FenceExecutor, PausableStatuses
  <1>24. CASE FlushedForPause
      BY <1>24 DEF FlushedForPause
  <1>25. CASE PauseWithCheckpoint
      BY <1>25 DEF PauseWithCheckpoint, SaturateQueue, Enqueue
  <1>26. CASE PauseRejected
      BY <1>26 DEF PauseRejected
  <1>27. CASE PauseAbandoned
      BY <1>27 DEF PauseAbandoned, PausableStatuses
  <1>28. CASE ReconcileFailedStop
      BY <1>28 DEF ReconcileFailedStop
  <1>29. CASE ResumeFromCheckpoint
      BY <1>29 DEF ResumeFromCheckpoint, Requeue
  <1>30. CASE ResumeSubmissions
      BY <1>30 DEF ResumeSubmissions
  <1>31. CASE ResumeRejected
      BY <1>31 DEF ResumeRejected, TurnOf
  <1>32. CASE LaunchSuperseded
      BY <1>32 DEF LaunchSuperseded
  <1>33. CASE CreateInteraction
      BY <1>33 DEF CreateInteraction
  <1>34. CASE SuspendForInteraction
      BY <1>34 DEF SuspendForInteraction
  <1>35. CASE AnswerInteraction
      BY <1>35 DEF AnswerInteraction
  <1>36. CASE BeginStop
      BY <1>36 DEF BeginStop
  <1>37. CASE StopFindsClosed
      BY <1>37 DEF StopFindsClosed
  <1>38. CASE CancelInteractions
      BY <1>38 DEF CancelInteractions
  <1>39. CASE StopAbandoned
      BY <1>39 DEF StopAbandoned
  <1>40. CASE StopEnds
      BY <1>40 DEF StopEnds
  <1>41. CASE ExecutorProgress
      BY <1>41 DEF ExecutorProgress
  <1>42. CASE ExecutorFinalizesTurn
      BY <1>42 DEF ExecutorFinalizesTurn
  <1>43. CASE ExecutorReturns
      BY <1>43 DEF ExecutorReturns
  <1>44. CASE FinalizeTurn
      BY <1>44 DEF FinalizeTurn
  <1>45. CASE Open
      BY <1>45 DEF Open, OpenOutbox, InitialSequence
  <1>46. CASE UNCHANGED vars
      BY <1>46 DEF vars
  <1>47. CASE WithdrawInteraction
      BY <1>47 DEF WithdrawInteraction
  <1> QED
      BY <1>1, <1>2, <1>3, <1>4, <1>5, <1>6, <1>7, <1>8, <1>9, <1>10, <1>11,
         <1>12, <1>13, <1>14, <1>15, <1>16, <1>17, <1>18, <1>19, <1>20, <1>21,
         <1>22, <1>23, <1>24, <1>25, <1>26, <1>27, <1>28, <1>29, <1>30, <1>31,
         <1>32, <1>33, <1>34, <1>35, <1>36, <1>37, <1>38, <1>39, <1>40, <1>41,
         <1>42, <1>43, <1>44, <1>45, <1>46, <1>47 DEF Next, Producer, Actor, Host

(* Type correctness of the outbox, its actor, the executor and the host    *)
(* commands: no interleaving takes a field outside its values.             *)
THEOREM TypeCorrect == Spec => []TypeOK
  <1>1. TypeOK /\ [Next]_vars => TypeOK'
      BY TypeFlagsStep, TypeNumbersStep, TypeRowsStep, TypeStatesStep DEF TypeOK
  <1> QED
      BY InitTyped, <1>1, PTL DEF Spec
----------------------------------------------------------------------------
(*                  Numbers, batches and terminals                         *)

(* Rows carry sequence numbers.                                            *)
LEMMA RowsNumbered ==
    ASSUME NEW rows \in Seq(Rows), NEW i \in 1..Len(rows)
    PROVE  rows[i].seq \in Nat
  <1>1. rows[i] \in Rows
      OBVIOUS
  <1> QED
      BY <1>1 DEF Rows

(* The durable head moves only with the ledger.                            *)
LEMMA HeadKept == ASSUME UNCHANGED ledger PROVE DurableHead' = DurableHead
  BY DEF DurableHead

(* A dropped batch satisfies every bound.                                  *)
LEMMA EmptyBatch ==
    ASSUME NEW n
    PROVE  /\ Increasing(<<>>) /\ Above(<<>>, n) /\ UpTo(<<>>, n)
           /\ NoTerminal(<<>>) /\ TerminalLast(<<>>)
  BY DEF Increasing, Above, UpTo, NoTerminal, TerminalLast

(* Numbering goes up.                                                      *)
LEMMA UpToWeakens ==
    ASSUME NEW rows \in Seq(Rows), NEW n \in Int, NEW m \in Int, n <= m, UpTo(rows, n)
    PROVE  UpTo(rows, m)
  <1> SUFFICES ASSUME NEW i \in 1..Len(rows) PROVE rows[i].seq <= m
      BY DEF UpTo
  <1>1. rows[i].seq \in Nat /\ rows[i].seq <= n
      BY RowsNumbered DEF UpTo
  <1> QED
      BY <1>1

(* An event that joins the batch takes the next number.                    *)
LEMMA BatchAppended ==
    ASSUME NEW rows \in Seq(Rows), NEW n \in Nat, NEW h \in Nat, NEW k,
           Increasing(rows), UpTo(rows, n), Above(rows, h), h <= n
    PROVE  /\ Increasing(Append(rows, Row(n + 1, k)))
           /\ UpTo(Append(rows, Row(n + 1, k)), n + 1)
           /\ Above(Append(rows, Row(n + 1, k)), h)
  <1> DEFINE more == Append(rows, Row(n + 1, k))
  <1>1. Len(more) = Len(rows) + 1 /\ more[Len(more)].seq = n + 1
      BY DEF Row
  <1>2. ASSUME NEW i \in 1..Len(more), i # Len(more)
        PROVE  i \in 1..Len(rows) /\ more[i] = rows[i]
      BY <1>1, <1>2
  <1>3. ASSUME NEW i \in 1..Len(rows)
        PROVE  rows[i].seq \in Nat /\ h < rows[i].seq /\ rows[i].seq <= n
      BY RowsNumbered DEF UpTo, Above
  <1>4. ASSUME NEW i \in 1..Len(more)
        PROVE  more[i].seq \in Nat /\ h < more[i].seq /\ more[i].seq <= n + 1
      BY <1>1, <1>2, <1>3
  <1>5. Increasing(more)
    <2> SUFFICES ASSUME NEW i \in 1..Len(more), NEW j \in 1..Len(more), i < j
                 PROVE  more[i].seq < more[j].seq
        BY DEF Increasing
    <2>1. i # Len(more)
        BY <1>1
    <2>2. CASE j = Len(more)
        BY <1>1, <1>2, <1>3, <2>1, <2>2
    <2>3. CASE j # Len(more)
        BY <1>2, <2>1, <2>3 DEF Increasing
    <2> QED
        BY <2>2, <2>3
  <1>6. UpTo(more, n + 1) /\ Above(more, h)
      BY <1>4 DEF UpTo, Above
  <1> QED
      BY <1>5, <1>6

(* Two increasing sequences, one below the other.                          *)
LEMMA IncreasingConcat ==
    ASSUME NEW S, NEW T, NEW s \in Seq(S), NEW t \in Seq(T),
           \A x \in S : x.seq \in Nat, \A x \in T : x.seq \in Nat,
           Increasing(s), Increasing(t),
           \A i \in 1..Len(s), j \in 1..Len(t) : s[i].seq < t[j].seq
    PROVE  Increasing(s \o t)
  <1> SUFFICES ASSUME NEW i \in 1..Len(s \o t), NEW j \in 1..Len(s \o t), i < j
               PROVE  (s \o t)[i].seq < (s \o t)[j].seq
      BY DEF Increasing
  <1>1. CASE j \in 1..Len(s)
      BY <1>1 DEF Increasing
  <1>2. CASE j \notin 1..Len(s) /\ i \in 1..Len(s)
    <2>1. j - Len(s) \in 1..Len(t) /\ (s \o t)[j] = t[j - Len(s)]
        BY <1>2
    <2> QED
        BY <1>2, <2>1
  <1>3. CASE i \notin 1..Len(s)
    <2>1. j - Len(s) \in 1..Len(t) /\ (s \o t)[j] = t[j - Len(s)]
        BY <1>3
    <2>2. i - Len(s) \in 1..Len(t) /\ (s \o t)[i] = t[i - Len(s)]
        BY <1>3
    <2>3. i - Len(s) < j - Len(s)
        OBVIOUS
    <2> QED
        BY <2>1, <2>2, <2>3 DEF Increasing
  <1> QED
      BY <1>1, <1>2, <1>3

(* The durable head is the greatest number of an ordered ledger.           *)
LEMMA HeadIsGreatest ==
    ASSUME ledger \in Seq(Rows), Increasing(ledger)
    PROVE  UpTo(ledger, DurableHead)
  <1> SUFFICES ASSUME NEW i \in 1..Len(ledger) PROVE ledger[i].seq <= DurableHead
      BY DEF UpTo
  <1>1. Len(ledger) \in 1..Len(ledger) /\ ledger # <<>>
      OBVIOUS
  <1>2. ledger[i].seq \in Nat /\ ledger[Len(ledger)].seq \in Nat
      BY <1>1, RowsNumbered
  <1>3. i = Len(ledger) \/ ledger[i].seq < ledger[Len(ledger)].seq
      BY <1>1 DEF Increasing
  <1> QED
      BY <1>1, <1>2, <1>3 DEF DurableHead

(* The queue gains and loses commands at its ends.                         *)
LEMMA NoneClosesAppended ==
    ASSUME NEW S, NEW q \in Seq(S), NEW k, NoneCloses(q), ~ClosesRun(k)
    PROVE  NoneCloses(Append(q, k))
  BY DEF NoneCloses

(* Taking a command leaves a queue without terminals, and is none itself.  *)
LEMMA NoneClosesTaken ==
    ASSUME NEW S, NEW q \in Seq(S), q # <<>>, NoneCloses(q)
    PROVE  NoneCloses(Tail(q)) /\ ~ClosesRun(Head(q))
  <1>1. ~ClosesRun(q[1]) /\ Head(q) = q[1]
      BY DEF NoneCloses
  <1>2. ASSUME NEW i \in 1..Len(Tail(q)) PROVE ~ClosesRun(Tail(q)[i])
    <2>1. i + 1 \in 1..Len(q) /\ Tail(q)[i] = q[i + 1]
        OBVIOUS
    <2> QED
        BY <2>1 DEF NoneCloses
  <1> QED
      BY <1>1, <1>2 DEF NoneCloses

(* An empty queue holds no terminal.                                       *)
LEMMA NoneClosesEmpty == NoneCloses(<<>>)
  BY DEF NoneCloses

(* A batch without a terminal stays in order when an event joins it.       *)
LEMMA TerminalAppended ==
    ASSUME NEW rows \in Seq(Rows), NEW n, NEW k, NoTerminal(rows)
    PROVE  /\ TerminalLast(Append(rows, Row(n, k)))
           /\ ~ClosesRun(k) => NoTerminal(Append(rows, Row(n, k)))
  <1> DEFINE more == Append(rows, Row(n, k))
  <1>1. Len(more) = Len(rows) + 1 /\ more[Len(more)].kind = k
      BY DEF Row
  <1>2. ASSUME NEW i \in 1..Len(more), i # Len(more)
        PROVE  ~ClosesRun(more[i].kind)
    <2>1. i \in 1..Len(rows) /\ more[i] = rows[i]
        BY <1>1, <1>2
    <2> QED
        BY <2>1 DEF NoTerminal
  <1> QED
      BY <1>1, <1>2 DEF NoTerminal, TerminalLast

(* Commands that are not events do not close the run.                      *)
LEMMA OtherKinds ==
    /\ ~ClosesRun("pause") /\ ~ClosesRun("preview") /\ ~ClosesRun("paused")
    /\ \A k : ClosesRun(k) => ~IsDeferred(k)
  BY DEF ClosesRun, IsDeferred, TerminalStatuses

(* A committed batch extends an ordered ledger, and moves the head.        *)
LEMMA LedgerExtended ==
    ASSUME ledger \in Seq(Rows), NEW rows \in Seq(Rows), LedgerOrdered, ~LedgerTerminal,
           Increasing(rows), Above(rows, DurableHead), TerminalLast(rows),
           ledger' = ledger \o rows
    PROVE  /\ LedgerOrdered'
           /\ rows = <<>> => DurableHead' = DurableHead
           /\ rows # <<>> => DurableHead' = rows[Len(rows)].seq
  <1>1. /\ DurableHead \in Nat
        /\ \A i \in 1..Len(ledger) : ledger[i].seq \in Nat /\ ledger[i].seq <= DurableHead
        /\ \A j \in 1..Len(rows) : rows[j].seq \in Nat /\ DurableHead < rows[j].seq
      BY HeadIsNat, HeadIsGreatest, RowsNumbered DEF LedgerOrdered, UpTo, Above
  <1>2. \A i \in 1..Len(ledger), j \in 1..Len(rows) : ledger[i].seq < rows[j].seq
      BY <1>1
  <1>3. \A x \in Rows : x.seq \in Nat
      BY DEF Rows
  <1>4. Increasing(ledger')
      BY <1>2, <1>3, IncreasingConcat DEF LedgerOrdered
  <1>5. TerminalLast(ledger')
    <2> SUFFICES ASSUME NEW i \in 1..Len(ledger'), ClosesRun(ledger'[i].kind)
                 PROVE  i = Len(ledger')
        BY DEF TerminalLast
    <2>1. Len(ledger') = Len(ledger) + Len(rows)
        OBVIOUS
    <2>2. i \notin 1..Len(ledger)
        BY DEF LedgerTerminal
    <2>3. i - Len(ledger) \in 1..Len(rows) /\ ledger'[i] = rows[i - Len(ledger)]
        BY <2>2
    <2>4. i - Len(ledger) = Len(rows)
        BY <2>3 DEF TerminalLast
    <2> QED
        BY <2>1, <2>4
  <1>6. LedgerOrdered'
      BY <1>4, <1>5 DEF LedgerOrdered, TerminalLast
  <1>7. ASSUME rows = <<>> PROVE DurableHead' = DurableHead
      BY <1>7 DEF DurableHead
  <1>8. ASSUME rows # <<>> PROVE DurableHead' = rows[Len(rows)].seq
    <2>1. Len(ledger') = Len(ledger) + Len(rows) /\ ledger' # <<>>
        BY <1>8
    <2>2. ledger'[Len(ledger')] = rows[Len(rows)]
        BY <1>8, <2>1
    <2> QED
        BY <2>1, <2>2 DEF DurableHead
  <1> QED
      BY <1>6, <1>7, <1>8

(* They leave the ledger, the outbox state and the actor alone.            *)
LEMMA QuietFrame ==
    ASSUME Quiet
    PROVE  UNCHANGED <<ledger, queue, terminalSubmitted, accepted, failureRequest, pc,
                       after, sequence, pending, durability, delivered>>
  <1> USE DEF durableVars, sharedVars, actorVars, seenVars
  <1>1. CASE FenceExecutor
      BY <1>1 DEF FenceExecutor
  <1>2. CASE FlushedForPause
      BY <1>2 DEF FlushedForPause
  <1>3. CASE PauseRejected
      BY <1>3 DEF PauseRejected
  <1>4. CASE PauseAbandoned
      BY <1>4 DEF PauseAbandoned
  <1>5. CASE ReconcileFailedStop
      BY <1>5 DEF ReconcileFailedStop
  <1>6. CASE ResumeFromCheckpoint
      BY <1>6 DEF ResumeFromCheckpoint
  <1>7. CASE ResumeSubmissions
      BY <1>7 DEF ResumeSubmissions
  <1>8. CASE ResumeRejected
      BY <1>8 DEF ResumeRejected
  <1>9. CASE LaunchSuperseded
      BY <1>9 DEF LaunchSuperseded
  <1>10. CASE CreateInteraction
      BY <1>10 DEF CreateInteraction
  <1>11. CASE SuspendForInteraction
      BY <1>11 DEF SuspendForInteraction
  <1>12. CASE AnswerInteraction
      BY <1>12 DEF AnswerInteraction
  <1>13. CASE BeginStop
      BY <1>13 DEF BeginStop
  <1>14. CASE StopFindsClosed
      BY <1>14 DEF StopFindsClosed
  <1>15. CASE CancelInteractions
      BY <1>15 DEF CancelInteractions
  <1>16. CASE StopAbandoned
      BY <1>16 DEF StopAbandoned
  <1>17. CASE StopEnds
      BY <1>17 DEF StopEnds
  <1>18. CASE ExecutorProgress
      BY <1>18 DEF ExecutorProgress
  <1>19. CASE ExecutorFinalizesTurn
      BY <1>19 DEF ExecutorFinalizesTurn
  <1>20. CASE ExecutorReturns
      BY <1>20 DEF ExecutorReturns
  <1>21. CASE FinalizeTurn
      BY <1>21 DEF FinalizeTurn
  <1>22. CASE UNCHANGED vars
      BY <1>22 DEF vars
  <1>23. CASE WithdrawInteraction
      BY <1>23 DEF WithdrawInteraction
  <1> QED
      BY <1>1, <1>2, <1>3, <1>4, <1>5, <1>6, <1>7, <1>8, <1>9, <1>10, <1>11,
         <1>12, <1>13, <1>14, <1>15, <1>16, <1>17, <1>18, <1>19, <1>20, <1>21,
         <1>22, <1>23 DEF Quiet

(* A checkpoint's row is a batch of one above the durable head.            *)
LEMMA CheckpointRow ==
    ASSUME sequence \in Nat, ledger \in Seq(Rows), sequence = DurableHead + 1
    PROVE  LET row == <<Row(sequence, "paused")>>
           IN  /\ row \in Seq(Rows) /\ row # <<>> /\ row[Len(row)].seq = sequence
               /\ Increasing(row) /\ Above(row, DurableHead) /\ UpTo(row, sequence)
               /\ NoTerminal(row) /\ TerminalLast(row)
  <1> DEFINE row == <<Row(sequence, "paused")>>
  <1>1. row \in Seq(Rows)
      BY RowTyped DEF DurableKinds
  <1>2. Len(row) = 1 /\ row # <<>> /\ row[1].seq = sequence /\ row[1].kind = "paused"
      BY DEF Row
  <1>3. DurableHead < sequence
      BY HeadIsNat
  <1> HIDE DEF row
  <1>4. Increasing(row) /\ Above(row, DurableHead) /\ UpTo(row, sequence)
      BY <1>2, <1>3 DEF Increasing, Above, UpTo
  <1>5. NoTerminal(row) /\ TerminalLast(row)
      BY <1>2, OtherKinds DEF NoTerminal, TerminalLast
  <1> QED
      BY <1>1, <1>2, <1>4, <1>5 DEF row

(* What draining one command does to the batch and the control state.      *)
LEMMA DrainEffect ==
    ASSUME DrainCommand, Head(queue) \notin {"pause", "preview"}
    PROVE  /\ pending' = Append(pending, Row(NextSequence, Head(queue)))
           /\ pc' = "drain" \/ (pc' = "commit" /\ after' = "drain")
  <1>1. pc = "drain" /\ pending' = Append(pending, Row(NextSequence, Head(queue)))
      BY DEF DrainCommand
  <1>2. CASE Len(pending) + 1 >= MaxBatch
      BY <1>2 DEF DrainCommand
  <1>3. CASE ~(Len(pending) + 1 >= MaxBatch)
      BY <1>1, <1>3 DEF DrainCommand
  <1> QED
      BY <1>1, <1>2, <1>3

(* Only the two commits write agent_run_events.                            *)
LEMMA LedgerWriters ==
    ASSUME [Next]_vars
    PROVE  UNCHANGED ledger \/ CommitBatch \/ CommitCheckpoint
  <1> USE DEF durableVars, sharedVars, actorVars, seenVars, hostVars, boundVars
  <1>1. ASSUME NEW k \in Kinds, Submit(k) PROVE UNCHANGED ledger \/ CommitBatch \/ CommitCheckpoint
      BY <1>1 DEF Submit, SaturateQueue, Enqueue
  <1>2. CASE PublishEphemeral
      BY <1>2 DEF PublishEphemeral, Enqueue
  <1>3. CASE PauseWithCheckpoint
      BY <1>3 DEF PauseWithCheckpoint, SaturateQueue, Enqueue
  <1>4. CASE Quiet
      BY <1>4, QuietFrame
  <1>5. CASE RecvDurable
      BY <1>5 DEF RecvDurable, NextSequence
  <1>6. CASE RecvPreview
      BY <1>6 DEF RecvPreview, NextSequence
  <1>7. CASE RecvPause
      BY <1>7 DEF RecvPause, NextSequence
  <1>8. CASE FlushTick
      BY <1>8 DEF FlushTick
  <1>9. CASE CommitBatch
      BY <1>9 DEF CommitBatch
  <1>10. CASE CommitFails
      BY <1>10 DEF CommitFails, BeginFailClosed
  <1>11. CASE CommitRefused
      BY <1>11 DEF CommitRefused, BeginFailClosed
  <1>12. CASE CommitCheckpoint
      BY <1>12 DEF CommitCheckpoint
  <1>13. CASE CheckpointRefused
      BY <1>13 DEF CheckpointRefused, BeginFailClosed
  <1>14. CASE DeliverBatch
      BY <1>14 DEF DeliverBatch
  <1>15. CASE DeliverBeforePreview
      BY <1>15 DEF DeliverBeforePreview
  <1>16. CASE DeliverBeforePause
      BY <1>16 DEF DeliverBeforePause, NextSequence
  <1>17. CASE DeliverCheckpoint
      BY <1>17 DEF DeliverCheckpoint, AnswerPause
  <1>18. CASE BeginDrain
      BY <1>18 DEF BeginDrain
  <1>19. CASE DrainCommand
      BY <1>19 DEF DrainCommand, NextSequence
  <1>20. CASE DrainEnds
      BY <1>20 DEF DrainEnds, BeginFailClosed
  <1>21. CASE ClaimFailure
      BY <1>21 DEF ClaimFailure
  <1>22. CASE DeliverFailure
      BY <1>22 DEF DeliverFailure, FailWaiters, AnswerPause
  <1>23. CASE ClaimLost
      BY <1>23 DEF ClaimLost, AnswerPause
  <1>24. CASE ClaimFails
      BY <1>24 DEF ClaimFails, FailWaiters, AnswerPause
  <1>25. CASE Open
      BY <1>25 DEF Open, OpenOutbox, InitialSequence
  <1> QED
      BY <1>1, <1>2, <1>3, <1>4, <1>5, <1>6, <1>7, <1>8, <1>9, <1>10, <1>11,
         <1>12, <1>13, <1>14, <1>15, <1>16, <1>17, <1>18, <1>19, <1>20, <1>21,
         <1>22, <1>23, <1>24, <1>25 DEF Next, Producer, Actor, Host, Quiet

(* Every step keeps the ledger in order.                                   *)
LEMMA LedgerOrderedStep ==
    ASSUME TypeOK, LedgerOrdered, CoreInv, [Next]_vars
    PROVE  LedgerOrdered'
  <1> USE DEF TypeOK, TypeNumbers, TypeRows
  <1>1. CASE UNCHANGED ledger
      BY <1>1 DEF LedgerOrdered
  <1>2. CASE CommitBatch
    <2>1. /\ ledger' = ledger \o pending /\ ~LedgerTerminal /\ pc = "commit"
        BY <1>2 DEF CommitBatch, WithRows, RunClosed
    <2> QED
        BY <2>1, LedgerExtended DEF CoreInv, BatchNumbered, TerminalPlaced
  <1>3. CASE CommitCheckpoint
    <2>1. /\ ledger' = ledger \o <<Row(sequence, "paused")>>
          /\ ~LedgerTerminal /\ sequence = DurableHead + 1
        BY <1>3 DEF CommitCheckpoint, CanCheckpoint, RunClosed
    <2> QED
        BY <2>1, CheckpointRow, LedgerExtended
  <1> QED
      BY <1>1, <1>2, <1>3, LedgerWriters

(* Every step keeps the numbering of the batch.                            *)
LEMMA BatchNumberedStep ==
    ASSUME TypeOK, LedgerOrdered, CoreInv, [Next]_vars
    PROVE  BatchNumbered'
  <1> USE DEF TypeOK, TypeNumbers, TypeRows, CoreInv, BatchNumbered,
     BatchDropped, durableVars, sharedVars, actorVars, seenVars, hostVars,
     boundVars
  <1>1. ASSUME NEW k \in Kinds, Submit(k) PROVE BatchNumbered'
      BY <1>1, HeadKept DEF Submit, SaturateQueue, Enqueue
  <1>2. CASE PublishEphemeral
      BY <1>2, HeadKept DEF PublishEphemeral, Enqueue
  <1>3. CASE PauseWithCheckpoint
      BY <1>3, HeadKept DEF PauseWithCheckpoint, SaturateQueue, Enqueue
  <1>4. CASE Quiet
      BY <1>4, QuietFrame, HeadKept
  <1>5. CASE RecvDurable
      BY <1>5, HeadIsNat, HeadKept, UpToWeakens, BatchAppended DEF RecvDurable,
         NextSequence
  <1>6. CASE RecvPreview
      BY <1>6, HeadIsNat, HeadKept, UpToWeakens DEF RecvPreview, NextSequence
  <1>7. CASE RecvPause
      BY <1>7, HeadIsNat, HeadKept, UpToWeakens, EmptyBatch DEF RecvPause,
         NextSequence
  <1>8. CASE FlushTick
      BY <1>8, HeadKept DEF FlushTick
  <1>9. CASE CommitBatch
    <2>1. /\ ledger' = ledger \o pending /\ ~LedgerTerminal /\ pc = "commit"
          /\ pc' = "deliver" /\ UNCHANGED <<after, sequence, pending>>
        BY <1>9 DEF CommitBatch, WithRows, RunClosed
    <2>2. /\ pending = <<>> => DurableHead' = DurableHead
          /\ pending # <<>> => DurableHead' = pending[Len(pending)].seq
        BY <2>1, LedgerExtended DEF TerminalPlaced
    <2>3. pending # <<>> => pending[Len(pending)].seq <= sequence
        BY DEF UpTo
    <2>4. DurableHead' <= sequence'
        BY <2>1, <2>2, <2>3
    <2> QED
        BY <2>1, <2>4
  <1>10. CASE CommitFails
      BY <1>10, HeadIsNat, HeadKept, EmptyBatch DEF CommitFails, BeginFailClosed
  <1>11. CASE CommitRefused
      BY <1>11, HeadIsNat, HeadKept, EmptyBatch DEF CommitRefused,
         BeginFailClosed
  <1>12. CASE CommitCheckpoint
    <2>1. /\ ledger' = ledger \o <<Row(sequence, "paused")>>
          /\ pending' = <<Row(sequence, "paused")>> /\ sequence' = sequence
          /\ pc' = "deliver" /\ after' = "paused"
          /\ ~LedgerTerminal /\ sequence = DurableHead + 1
        BY <1>12 DEF CommitCheckpoint, CanCheckpoint, RunClosed
    <2>2. DurableHead' = sequence
        BY <2>1, CheckpointRow, LedgerExtended
    <2> QED
        BY <2>1, <2>2, CheckpointRow
  <1>13. CASE CheckpointRefused
      BY <1>13, HeadIsNat, HeadKept, EmptyBatch DEF CheckpointRefused,
         BeginFailClosed
  <1>14. CASE DeliverBatch
      BY <1>14, HeadIsNat, HeadKept, EmptyBatch DEF DeliverBatch
  <1>15. CASE DeliverBeforePreview
      BY <1>15, HeadIsNat, HeadKept, EmptyBatch DEF DeliverBeforePreview
  <1>16. CASE DeliverBeforePause
      BY <1>16, HeadIsNat, HeadKept, EmptyBatch DEF DeliverBeforePause,
         NextSequence
  <1>17. CASE DeliverCheckpoint
      BY <1>17, HeadIsNat, HeadKept, EmptyBatch DEF DeliverCheckpoint,
         AnswerPause
  <1>18. CASE BeginDrain
      BY <1>18, HeadKept DEF BeginDrain
  <1>19. CASE DrainCommand
    <2>1. CASE Head(queue) = "pause"
        BY <1>19, <2>1, HeadKept DEF DrainCommand
    <2>2. CASE Head(queue) = "preview"
        BY <1>19, <2>2, HeadIsNat, HeadKept, UpToWeakens DEF DrainCommand, NextSequence
    <2>3. CASE Head(queue) \notin {"pause", "preview"}
      <3>1. /\ pending' = Append(pending, Row(sequence + 1, Head(queue)))
            /\ sequence' = sequence + 1 /\ UNCHANGED ledger
          BY <1>19, <2>3 DEF DrainCommand, NextSequence
      <3>2. pc' = "drain" \/ (pc' = "commit" /\ after' = "drain")
          BY <1>19, <2>3, DrainEffect
      <3>3. /\ Increasing(pending') /\ UpTo(pending', sequence')
            /\ Above(pending', DurableHead)
          BY <1>19, <3>1, HeadIsNat, BatchAppended DEF DrainCommand
      <3>4. DurableHead' = DurableHead /\ DurableHead <= sequence'
          BY <3>1, HeadIsNat, HeadKept
      <3> QED
          BY <3>2, <3>3, <3>4
    <2> QED
        BY <2>1, <2>2, <2>3
  <1>20. CASE DrainEnds
      BY <1>20, HeadIsNat, HeadKept, EmptyBatch DEF DrainEnds, BeginFailClosed
  <1>21. CASE ClaimFailure
      BY <1>21, HeadIsNat, HeadKept, EmptyBatch DEF ClaimFailure
  <1>22. CASE DeliverFailure
      BY <1>22, HeadIsNat, HeadKept, EmptyBatch DEF DeliverFailure, FailWaiters,
         AnswerPause
  <1>23. CASE ClaimLost
      BY <1>23, HeadIsNat, HeadKept, EmptyBatch DEF ClaimLost, AnswerPause
  <1>24. CASE ClaimFails
      BY <1>24, HeadIsNat, HeadKept, EmptyBatch DEF ClaimFails, FailWaiters,
         AnswerPause
  <1>25. CASE Open
      BY <1>25, HeadIsNat, HeadKept, EmptyBatch DEF Open, OpenOutbox,
         InitialSequence
  <1> QED
      BY <1>1, <1>2, <1>3, <1>4, <1>5, <1>6, <1>7, <1>8, <1>9, <1>10, <1>11,
         <1>12, <1>13, <1>14, <1>15, <1>16, <1>17, <1>18, <1>19, <1>20, <1>21,
         <1>22, <1>23, <1>24, <1>25 DEF Next, Producer, Actor, Host, Quiet

(* Every step keeps BatchDropped.                                          *)
LEMMA BatchDroppedStep ==
    ASSUME CoreInv, [Next]_vars
    PROVE  BatchDropped'
  <1> USE DEF CoreInv, BatchDropped, durableVars, sharedVars, actorVars,
     seenVars, hostVars, boundVars
  <1>1. ASSUME NEW k \in Kinds, Submit(k) PROVE BatchDropped'
      BY <1>1 DEF Submit, SaturateQueue, Enqueue
  <1>2. CASE PublishEphemeral
      BY <1>2 DEF PublishEphemeral, Enqueue
  <1>3. CASE PauseWithCheckpoint
      BY <1>3 DEF PauseWithCheckpoint, SaturateQueue, Enqueue
  <1>4. CASE Quiet
      BY <1>4, QuietFrame
  <1>5. CASE RecvDurable
      BY <1>5 DEF RecvDurable, NextSequence
  <1>6. CASE RecvPreview
      BY <1>6 DEF RecvPreview, NextSequence
  <1>7. CASE RecvPause
      BY <1>7 DEF RecvPause, NextSequence
  <1>8. CASE FlushTick
      BY <1>8 DEF FlushTick
  <1>9. CASE CommitBatch
    <2>1. pc' = "deliver" /\ after' = after /\ pending' = pending /\ pc = "commit"
        BY <1>9 DEF CommitBatch
    <2> QED
        BY <2>1
  <1>10. CASE CommitFails
      BY <1>10 DEF CommitFails, BeginFailClosed
  <1>11. CASE CommitRefused
      BY <1>11 DEF CommitRefused, BeginFailClosed
  <1>12. CASE CommitCheckpoint
      BY <1>12 DEF CommitCheckpoint
  <1>13. CASE CheckpointRefused
      BY <1>13 DEF CheckpointRefused, BeginFailClosed
  <1>14. CASE DeliverBatch
      BY <1>14 DEF DeliverBatch
  <1>15. CASE DeliverBeforePreview
      BY <1>15 DEF DeliverBeforePreview
  <1>16. CASE DeliverBeforePause
      BY <1>16 DEF DeliverBeforePause, NextSequence
  <1>17. CASE DeliverCheckpoint
      BY <1>17 DEF DeliverCheckpoint, AnswerPause
  <1>18. CASE BeginDrain
      BY <1>18 DEF BeginDrain
  <1>19. CASE DrainCommand
      BY <1>19 DEF DrainCommand, NextSequence
  <1>20. CASE DrainEnds
      BY <1>20 DEF DrainEnds, BeginFailClosed
  <1>21. CASE ClaimFailure
      BY <1>21 DEF ClaimFailure
  <1>22. CASE DeliverFailure
      BY <1>22 DEF DeliverFailure, FailWaiters, AnswerPause
  <1>23. CASE ClaimLost
      BY <1>23 DEF ClaimLost, AnswerPause
  <1>24. CASE ClaimFails
      BY <1>24 DEF ClaimFails, FailWaiters, AnswerPause
  <1>25. CASE Open
      BY <1>25 DEF Open, OpenOutbox, InitialSequence
  <1> QED
      BY <1>1, <1>2, <1>3, <1>4, <1>5, <1>6, <1>7, <1>8, <1>9, <1>10, <1>11,
         <1>12, <1>13, <1>14, <1>15, <1>16, <1>17, <1>18, <1>19, <1>20, <1>21,
         <1>22, <1>23, <1>24, <1>25 DEF Next, Producer, Actor, Host, Quiet

(* Every step keeps submission closed behind a failure or a terminal.      *)
LEMMA ClosedOnFailureStep ==
    ASSUME TypeOK, CoreInv, [Next]_vars
    PROVE  ClosedOnFailure'
  <1> USE DEF CoreInv, ClosedOnFailure, durableVars, sharedVars, actorVars,
     seenVars, hostVars, boundVars
  <1>1. ASSUME NEW k \in Kinds, Submit(k) PROVE ClosedOnFailure'
      BY <1>1 DEF Submit, SubmissionOpen, SaturateQueue, Enqueue, ClosesRun
  <1>2. CASE PublishEphemeral
      BY <1>2 DEF PublishEphemeral, SubmissionOpen, Enqueue
  <1>3. CASE PauseWithCheckpoint
      BY <1>3 DEF PauseWithCheckpoint, SubmissionOpen, SaturateQueue, Enqueue
  <1>4. CASE Quiet
      BY <1>4, QuietFrame
  <1>5. CASE RecvDurable
    <2>1. ClosesRun(Head(queue)) => terminalSubmitted
        BY <1>5, NoneClosesTaken DEF RecvDurable, TerminalPlaced, TypeOK, TypeRows
    <2>2. UNCHANGED <<terminalSubmitted, failureRequest>>
        BY <1>5 DEF RecvDurable
    <2>3. \/ pc' = "recv"
          \/ pc' = "commit" /\ after' = "loop"
          \/ pc' = "commit" /\ after' = "terminal" /\ ClosesRun(Head(queue))
        BY <1>5 DEF RecvDurable
    <2> QED
        BY <2>1, <2>2, <2>3
  <1>6. CASE RecvPreview
      BY <1>6 DEF RecvPreview, NextSequence
  <1>7. CASE RecvPause
      BY <1>7 DEF RecvPause, NextSequence
  <1>8. CASE FlushTick
      BY <1>8 DEF FlushTick
  <1>9. CASE CommitBatch
    <2>1. /\ pc' = "deliver" /\ after' = after /\ pc = "commit"
          /\ UNCHANGED <<terminalSubmitted, failureRequest>>
        BY <1>9 DEF CommitBatch
    <2> QED
        BY <2>1 DEF BatchDropped
  <1>10. CASE CommitFails
      BY <1>10 DEF CommitFails, BeginFailClosed, ClosesRun
  <1>11. CASE CommitRefused
      BY <1>11 DEF CommitRefused, BeginFailClosed, ClosesRun
  <1>12. CASE CommitCheckpoint
      BY <1>12 DEF CommitCheckpoint, ClosesRun
  <1>13. CASE CheckpointRefused
      BY <1>13 DEF CheckpointRefused, BeginFailClosed, ClosesRun
  <1>14. CASE DeliverBatch
      BY <1>14 DEF DeliverBatch
  <1>15. CASE DeliverBeforePreview
      BY <1>15 DEF DeliverBeforePreview
  <1>16. CASE DeliverBeforePause
      BY <1>16 DEF DeliverBeforePause, NextSequence
  <1>17. CASE DeliverCheckpoint
      BY <1>17 DEF DeliverCheckpoint, AnswerPause
  <1>18. CASE BeginDrain
      BY <1>18 DEF BeginDrain
  <1>19. CASE DrainCommand
      BY <1>19 DEF DrainCommand, NextSequence
  <1>20. CASE DrainEnds
      BY <1>20 DEF DrainEnds, BeginFailClosed
  <1>21. CASE ClaimFailure
      BY <1>21 DEF ClaimFailure, ClosesRun
  <1>22. CASE DeliverFailure
      BY <1>22 DEF DeliverFailure, FailWaiters, AnswerPause
  <1>23. CASE ClaimLost
      BY <1>23 DEF ClaimLost, AnswerPause, ClosesRun
  <1>24. CASE ClaimFails
      BY <1>24 DEF ClaimFails, FailWaiters, AnswerPause
  <1>25. CASE Open
      BY <1>25 DEF Open, OpenOutbox, InitialSequence, ClosesRun
  <1> QED
      BY <1>1, <1>2, <1>3, <1>4, <1>5, <1>6, <1>7, <1>8, <1>9, <1>10, <1>11,
         <1>12, <1>13, <1>14, <1>15, <1>16, <1>17, <1>18, <1>19, <1>20, <1>21,
         <1>22, <1>23, <1>24, <1>25 DEF Next, Producer, Actor, Host, Quiet

(* Every step keeps terminals in their place.                              *)
LEMMA TerminalPlacedStep ==
    ASSUME TypeOK, CoreInv, [Next]_vars
    PROVE  TerminalPlaced'
  <1> USE DEF TypeOK, TypeNumbers, TypeRows, CoreInv, BatchDropped,
     ClosedOnFailure, TerminalPlaced, durableVars, sharedVars, actorVars,
     seenVars, hostVars, boundVars
  <1>1. ASSUME NEW k \in Kinds, Submit(k) PROVE TerminalPlaced'
    <2>1. UNCHANGED <<pc, after, pending>> /\ ~terminalSubmitted
        BY <1>1 DEF Submit, SubmissionOpen
    <2>2. CASE QueueFull
        BY <1>1, <2>1, <2>2 DEF Submit, SaturateQueue
    <2>3. CASE ~QueueFull
      <3>1. queue' = Append(queue, k) /\ UNCHANGED failureRequest
          BY <1>1, <2>3 DEF Submit, Enqueue
      <3>2. ~terminalSubmitted' => ~ClosesRun(k)
          BY <1>1, <2>3 DEF Submit
      <3>3. ~terminalSubmitted' => NoneCloses(queue')
          BY <2>1, <3>1, <3>2, NoneClosesAppended
      <3> QED
          BY <2>1, <3>1, <3>3
    <2> QED
        BY <2>2, <2>3
  <1>2. CASE PublishEphemeral
      BY <1>2, NoneClosesAppended, OtherKinds DEF PublishEphemeral,
         SubmissionOpen, Enqueue
  <1>3. CASE PauseWithCheckpoint
      BY <1>3, NoneClosesAppended, OtherKinds DEF PauseWithCheckpoint,
         SubmissionOpen, SaturateQueue, Enqueue
  <1>4. CASE Quiet
      BY <1>4, QuietFrame
  <1>5. CASE RecvDurable
      BY <1>5, NoneClosesTaken, TerminalAppended, OtherKinds DEF RecvDurable,
         NextSequence
  <1>6. CASE RecvPreview
      BY <1>6, NoneClosesTaken DEF RecvPreview, NextSequence
  <1>7. CASE RecvPause
      BY <1>7, NoneClosesTaken DEF RecvPause, NextSequence
  <1>8. CASE FlushTick
      BY <1>8, EmptyBatch DEF FlushTick
  <1>9. CASE CommitBatch
    <2>1. /\ pc' = "deliver" /\ pc = "commit"
          /\ UNCHANGED <<queue, terminalSubmitted, failureRequest, after, pending>>
        BY <1>9 DEF CommitBatch
    <2> QED
        BY <2>1
  <1>10. CASE CommitFails
      BY <1>10, EmptyBatch DEF CommitFails, BeginFailClosed
  <1>11. CASE CommitRefused
      BY <1>11, EmptyBatch DEF CommitRefused, BeginFailClosed
  <1>12. CASE CommitCheckpoint
    <2>1. /\ pending' = <<Row(sequence, "paused")>> /\ after' = "paused"
          /\ UNCHANGED <<queue, terminalSubmitted, failureRequest>>
          /\ sequence = DurableHead + 1
        BY <1>12 DEF CommitCheckpoint, CanCheckpoint
    <2> QED
        BY <2>1, CheckpointRow
  <1>13. CASE CheckpointRefused
      BY <1>13, EmptyBatch DEF CheckpointRefused, BeginFailClosed
  <1>14. CASE DeliverBatch
      BY <1>14, EmptyBatch DEF DeliverBatch
  <1>15. CASE DeliverBeforePreview
      BY <1>15, EmptyBatch DEF DeliverBeforePreview
  <1>16. CASE DeliverBeforePause
      BY <1>16, EmptyBatch DEF DeliverBeforePause, NextSequence
  <1>17. CASE DeliverCheckpoint
      BY <1>17, EmptyBatch DEF DeliverCheckpoint, AnswerPause
  <1>18. CASE BeginDrain
      BY <1>18, EmptyBatch DEF BeginDrain
  <1>19. CASE DrainCommand
    <2>1. /\ UNCHANGED <<terminalSubmitted, failureRequest>> /\ queue' = Tail(queue)
          /\ queue # <<>> /\ pc = "drain"
        BY <1>19 DEF DrainCommand
    <2>2. failureRequest /\ NoTerminal(pending)
        BY <2>1
    <2>3. NoneCloses(queue') /\ ~ClosesRun(Head(queue))
        BY <2>1, <2>2, NoneClosesTaken
    <2>4. CASE Head(queue) \in {"pause", "preview"}
      <3>1. UNCHANGED <<pc, after, pending>>
          BY <1>19, <2>4 DEF DrainCommand
      <3> QED
          BY <2>1, <2>2, <2>3, <3>1
    <2>5. CASE Head(queue) \notin {"pause", "preview"}
      <3>1. NoTerminal(Append(pending, Row(NextSequence, Head(queue))))
          BY <2>2, <2>3, TerminalAppended
      <3>2. pending' = Append(pending, Row(NextSequence, Head(queue)))
          BY <1>19, <2>5, DrainEffect
      <3>3. NoTerminal(pending') /\ TerminalLast(pending')
          BY <3>1, <3>2 DEF NoTerminal, TerminalLast
      <3> QED
          BY <2>1, <2>3, <3>3
    <2> QED
        BY <2>4, <2>5
  <1>20. CASE DrainEnds
      BY <1>20, EmptyBatch DEF DrainEnds, BeginFailClosed
  <1>21. CASE ClaimFailure
      BY <1>21, EmptyBatch DEF ClaimFailure
  <1>22. CASE DeliverFailure
      BY <1>22, EmptyBatch DEF DeliverFailure, FailWaiters, AnswerPause
  <1>23. CASE ClaimLost
      BY <1>23, EmptyBatch DEF ClaimLost, AnswerPause
  <1>24. CASE ClaimFails
      BY <1>24, EmptyBatch DEF ClaimFails, FailWaiters, AnswerPause
  <1>25. CASE Open
      BY <1>25, NoneClosesEmpty, EmptyBatch DEF Open, OpenOutbox,
         InitialSequence
  <1> QED
      BY <1>1, <1>2, <1>3, <1>4, <1>5, <1>6, <1>7, <1>8, <1>9, <1>10, <1>11,
         <1>12, <1>13, <1>14, <1>15, <1>16, <1>17, <1>18, <1>19, <1>20, <1>21,
         <1>22, <1>23, <1>24, <1>25 DEF Next, Producer, Actor, Host, Quiet

(* A launched run satisfies the invariant.                                 *)
LEMMA InitCore == Init => LedgerOrdered /\ CoreInv
  <1> SUFFICES ASSUME Init PROVE LedgerOrdered /\ CoreInv
      OBVIOUS
  <1>1. LedgerOrdered /\ DurableHead = 0
      BY DEF Init, LedgerOrdered, Increasing, DurableHead
  <1>2. BatchNumbered /\ BatchDropped
      BY <1>1, EmptyBatch DEF Init, BatchNumbered, BatchDropped
  <1>3. ClosedOnFailure /\ TerminalPlaced
      BY EmptyBatch, NoneClosesEmpty DEF Init, ClosedOnFailure, TerminalPlaced
  <1> QED
      BY <1>1, <1>2, <1>3 DEF CoreInv

(* The inductive invariant holds in every reachable state.                 *)
LEMMA CoreCorrect == Spec => [](TypeOK /\ LedgerOrdered /\ CoreInv)
  <1> DEFINE IInv == TypeOK /\ LedgerOrdered /\ CoreInv
  <1>1. Init => IInv
      BY InitTyped, InitCore
  <1>2. IInv /\ [Next]_vars => IInv'
    <2> SUFFICES ASSUME IInv, [Next]_vars PROVE IInv'
        OBVIOUS
    <2>1. TypeOK'
        BY TypeFlagsStep, TypeNumbersStep, TypeRowsStep, TypeStatesStep DEF TypeOK
    <2>2. LedgerOrdered'
        BY LedgerOrderedStep
    <2>3. CoreInv'
        BY BatchNumberedStep, BatchDroppedStep, ClosedOnFailureStep, TerminalPlacedStep
           DEF CoreInv
    <2> QED
        BY <2>1, <2>2, <2>3
  <1> QED
      BY <1>1, <1>2, PTL DEF Spec
----------------------------------------------------------------------------
(*                               Theorems                                  *)

(* agent_run_events is strictly increasing in commit order and a true      *)
(* terminal is its last row, for every capacity, batch size and number of  *)
(* failures.                                                               *)
THEOREM LedgerIsOrdered == Spec => []LedgerOrdered
  BY CoreCorrect, PTL

(* An actor that has stopped, after a terminal or a failure, has closed    *)
(* submission and holds no event.                                          *)
THEOREM StoppedActorIsClosed == Spec => []StoppedIsClosed
  <1>1. CoreInv => StoppedIsClosed
      BY DEF CoreInv, BatchDropped, ClosedOnFailure, StoppedIsClosed
  <1> QED
      BY CoreCorrect, <1>1, PTL

(* No step rewrites or removes a durable row, and none follows a terminal. *)
THEOREM HistoryIsAppendOnly == Spec => LedgerAppendOnly
  <1> DEFINE Extends == /\ Len(ledger') >= Len(ledger)
                        /\ SubSeq(ledger', 1, Len(ledger)) = ledger
                        /\ LedgerTerminal => ledger' = ledger
  <1>1. TypeOK /\ [Next]_vars => Extends
    <2> SUFFICES ASSUME TypeOK, [Next]_vars PROVE Extends
        OBVIOUS
    <2> USE DEF TypeOK, TypeRows, TypeNumbers
    <2>1. CASE UNCHANGED ledger
        BY <2>1
    <2>2. CASE CommitBatch
      <3>1. ledger' = ledger \o pending /\ ~LedgerTerminal
          BY <2>2 DEF CommitBatch, WithRows, RunClosed
      <3> QED
          BY <3>1
    <2>3. CASE CommitCheckpoint
      <3>1. ledger' = Append(ledger, Row(sequence, "paused")) /\ ~LedgerTerminal
          BY <2>3 DEF CommitCheckpoint, CanCheckpoint, RunClosed
      <3> QED
          BY <3>1
    <2> QED
        BY <2>1, <2>2, <2>3, LedgerWriters
  <1> QED
      BY CoreCorrect, <1>1, PTL DEF Spec, LedgerAppendOnly
=============================================================================
