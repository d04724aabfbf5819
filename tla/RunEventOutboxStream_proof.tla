--------------------- MODULE RunEventOutboxStream_proof ---------------------
(***************************************************************************)
(* Theorems about what others see of the outbox: the live stream of the    *)
(* window, and the flush barrier.  Both rest on CoreCorrect.               *)
(***************************************************************************)
EXTENDS RunEventOutbox_proof

(* A durable row stays durable.                                            *)
LEMMA LedgerGrows ==
    ASSUME TypeOK, [Next]_vars
    PROVE  \A r : (\E j \in 1..Len(ledger) : ledger[j] = r) =>
                        \E j \in 1..Len(ledger') : ledger'[j] = r
  <1> USE DEF TypeOK, TypeRows, TypeNumbers
  <1>1. CASE UNCHANGED ledger
      BY <1>1
  <1>2. CASE CommitBatch
    <2>1. ledger' = ledger \o pending
        BY <1>2 DEF CommitBatch, WithRows
    <2> QED
        BY <2>1
  <1>3. CASE CommitCheckpoint
    <2>1. ledger' = Append(ledger, Row(sequence, "paused"))
        BY <1>3 DEF CommitCheckpoint
    <2> QED
        BY <2>1
  <1> QED
      BY <1>1, <1>2, <1>3, LedgerWriters

(* Deliveries carry sequence numbers.                                      *)
LEMMA SeenNumbered ==
    ASSUME NEW seen \in Seq(Deliveries), NEW i \in 1..Len(seen)
    PROVE  seen[i].seq \in Nat
  <1>1. seen[i] \in Deliveries
      OBVIOUS
  <1> QED
      BY <1>1 DEF Deliveries

(* A stream stays below a counter that goes up.                            *)
LEMMA SeenWeakens ==
    ASSUME NEW seen \in Seq(Deliveries), NEW n \in Int, NEW m \in Int, n <= m,
           UpTo(seen, n)
    PROVE  UpTo(seen, m)
  <1> SUFFICES ASSUME NEW i \in 1..Len(seen) PROVE seen[i].seq <= m
      BY DEF UpTo
  <1>1. seen[i].seq \in Nat /\ seen[i].seq <= n
      BY SeenNumbered DEF UpTo
  <1> QED
      BY <1>1

(* Nothing is required of an empty batch or of an empty stream.            *)
LEMMA EmptyStream ==
    ASSUME NEW seen, NEW n
    PROVE  /\ Precedes(seen, <<>>) /\ Stored(<<>>)
           /\ Increasing(<<>>) /\ UpTo(<<>>, n) /\ NoEnd(<<>>) /\ Above(<<>>, n)
  BY DEF Precedes, Stored, Increasing, UpTo, NoEnd, Above

(* An event numbered above the counter joins a batch above the stream.     *)
LEMMA BatchStaysAbove ==
    ASSUME NEW seen \in Seq(Deliveries), NEW rows \in Seq(Rows), NEW n \in Nat, NEW k,
           UpTo(seen, n), Precedes(seen, rows)
    PROVE  Precedes(seen, Append(rows, Row(n + 1, k)))
  <1> DEFINE more == Append(rows, Row(n + 1, k))
  <1> SUFFICES ASSUME NEW i \in 1..Len(seen), NEW j \in 1..Len(more)
               PROVE  seen[i].seq < more[j].seq
      BY DEF Precedes
  <1>1. seen[i].seq \in Nat /\ seen[i].seq <= n
      BY SeenNumbered DEF UpTo
  <1>2. Len(more) = Len(rows) + 1 /\ more[Len(more)].seq = n + 1
      BY DEF Row
  <1>3. CASE j = Len(more)
      BY <1>1, <1>2, <1>3
  <1>4. CASE j # Len(more)
    <2>1. j \in 1..Len(rows) /\ more[j] = rows[j]
        BY <1>2, <1>4
    <2> QED
        BY <2>1 DEF Precedes
  <1> QED
      BY <1>3, <1>4

(* A delivered batch extends the stream in order.                          *)
LEMMA BatchDelivered ==
    ASSUME NEW seen \in Seq(Deliveries), NEW rows \in Seq(Rows),
           Increasing(seen), Increasing(rows), Precedes(seen, rows)
    PROVE  /\ Increasing(seen \o rows)
           /\ \A n : UpTo(seen, n) /\ UpTo(rows, n) => UpTo(seen \o rows, n)
           /\ NoEnd(seen) /\ NoTerminal(rows) => NoEnd(seen \o rows)
  <1>1. /\ \A x \in Deliveries : x.seq \in Nat
        /\ \A x \in Rows : x.seq \in Nat
      BY DEF Deliveries, Rows
  <1>2. Increasing(seen \o rows)
      BY <1>1, IncreasingConcat DEF Precedes
  <1>3. ASSUME NEW i \in 1..Len(seen \o rows)
        PROVE  \/ i \in 1..Len(seen) /\ (seen \o rows)[i] = seen[i]
               \/ /\ i - Len(seen) \in 1..Len(rows)
                  /\ (seen \o rows)[i] = rows[i - Len(seen)]
      OBVIOUS
  <1>4. ASSUME NEW n, UpTo(seen, n), UpTo(rows, n) PROVE UpTo(seen \o rows, n)
    <2> SUFFICES ASSUME NEW i \in 1..Len(seen \o rows)
                 PROVE  (seen \o rows)[i].seq <= n
        BY DEF UpTo
    <2> QED
        BY <1>3, <1>4 DEF UpTo
  <1>5. ASSUME NoEnd(seen), NoTerminal(rows) PROVE NoEnd(seen \o rows)
    <2> SUFFICES ASSUME NEW i \in 1..Len(seen \o rows)
                 PROVE  /\ ~ClosesRun((seen \o rows)[i].kind)
                        /\ (seen \o rows)[i].kind # "outbox_failed"
        BY DEF NoEnd
    <2>1. CASE i \in 1..Len(seen) /\ (seen \o rows)[i] = seen[i]
        BY <1>5, <2>1 DEF NoEnd
    <2>2. CASE /\ i - Len(seen) \in 1..Len(rows)
               /\ (seen \o rows)[i] = rows[i - Len(seen)]
      <3>1. rows[i - Len(seen)] \in Rows
          BY <2>2
      <3>2. rows[i - Len(seen)].kind # "outbox_failed"
          BY <3>1 DEF Rows, DurableKinds, EventKinds, TerminalStatuses
      <3> QED
          BY <1>5, <2>2, <3>2 DEF NoTerminal
    <2> QED
        BY <1>3, <2>1, <2>2
  <1> QED
      BY <1>2, <1>4, <1>5

(* A delivery above the counter extends the stream in order.               *)
LEMMA OneDelivered ==
    ASSUME NEW seen \in Seq(Deliveries), NEW n \in Int, NEW m \in Nat, NEW k, n < m,
           Increasing(seen), UpTo(seen, n)
    PROVE  /\ Increasing(Append(seen, Row(m, k)))
           /\ UpTo(Append(seen, Row(m, k)), m)
           /\ NoEnd(seen) /\ k = "preview" => NoEnd(Append(seen, Row(m, k)))
  <1> DEFINE more == Append(seen, Row(m, k))
  <1>1. Len(more) = Len(seen) + 1 /\ more[Len(more)].seq = m /\ more[Len(more)].kind = k
      BY DEF Row
  <1>2. ASSUME NEW i \in 1..Len(more), i # Len(more)
        PROVE  i \in 1..Len(seen) /\ more[i] = seen[i]
      BY <1>1, <1>2
  <1>3. ASSUME NEW i \in 1..Len(seen)
        PROVE  seen[i].seq \in Nat /\ seen[i].seq < m
      BY SeenNumbered DEF UpTo
  <1>4. Increasing(more)
    <2> SUFFICES ASSUME NEW i \in 1..Len(more), NEW j \in 1..Len(more), i < j
                 PROVE  more[i].seq < more[j].seq
        BY DEF Increasing
    <2>1. i # Len(more)
        BY <1>1
    <2>2. CASE j = Len(more)
        BY <1>1, <1>2, <1>3, <2>1, <2>2
    <2>3. CASE j # Len(more)
        BY <1>2, <2>1, <2>3 DEF Increasing
    <2> QED
        BY <2>2, <2>3
  <1>5. UpTo(more, m)
    <2> SUFFICES ASSUME NEW i \in 1..Len(more) PROVE more[i].seq <= m
        BY DEF UpTo
    <2> QED
        BY <1>1, <1>2, <1>3
  <1>6. ASSUME NoEnd(seen), k = "preview" PROVE NoEnd(more)
      BY <1>1, <1>2, <1>6, OtherKinds DEF NoEnd
  <1> QED
      BY <1>4, <1>5, <1>6

(* A batch under delivery stays durable.                                   *)
LEMMA StoredKept == ASSUME UNCHANGED <<ledger, pending>>, Stored(pending) PROVE Stored(pending)'
  BY DEF Stored

(* Every step keeps the stream below the batch and the batch durable.      *)
LEMMA StreamInvStep ==
    ASSUME TypeOK, CoreInv, DeliveredInOrder, StreamInv, [Next]_vars
    PROVE  StreamInv'
  <1> USE DEF TypeOK, TypeNumbers, TypeRows, CoreInv, BatchNumbered,
     BatchDropped, StreamInv, durableVars, sharedVars, actorVars, seenVars,
     hostVars, boundVars
  <1>1. ASSUME NEW k \in Kinds, Submit(k) PROVE StreamInv'
      BY <1>1, StoredKept DEF Submit, SaturateQueue, Enqueue
  <1>2. CASE PublishEphemeral
      BY <1>2, StoredKept DEF PublishEphemeral, Enqueue
  <1>3. CASE PauseWithCheckpoint
      BY <1>3, StoredKept DEF PauseWithCheckpoint, SaturateQueue, Enqueue
  <1>4. CASE Quiet
      BY <1>4, QuietFrame, StoredKept
  <1>5. CASE RecvDurable
      BY <1>5, SeenWeakens, BatchStaysAbove DEF RecvDurable, NextSequence
  <1>6. CASE RecvPreview
    <2>1. /\ pc = "recv" /\ sequence' = sequence + 1 /\ UNCHANGED pending
        BY <1>6 DEF RecvPreview, NextSequence
    <2>2. sequence \in Int /\ sequence + 1 \in Nat /\ sequence < sequence + 1
        OBVIOUS
    <2>3. CASE pending # <<>>
      <3>1. pc' = "commit" /\ after' = "preview" /\ UNCHANGED delivered
          BY <1>6, <2>3 DEF RecvPreview
      <3>2. UpTo(delivered, sequence) /\ UpTo(delivered, sequence + 1)
          BY <2>1, <2>2, SeenWeakens
      <3>3. sequence' - 1 = sequence
          BY <2>1
      <3> QED
          BY <2>1, <3>1, <3>2, <3>3
    <2>4. CASE pending = <<>>
      <3>1. /\ delivered' = Append(delivered, Row(sequence + 1, "preview"))
            /\ pc' = "recv"
          BY <1>6, <2>4 DEF RecvPreview, NextSequence
      <3>2. UpTo(delivered, sequence) /\ NoEnd(delivered) /\ Increasing(delivered)
          BY <2>1 DEF DeliveredInOrder
      <3>3. UpTo(delivered', sequence + 1) /\ NoEnd(delivered')
          BY <2>2, <3>1, <3>2, OneDelivered
      <3> QED
          BY <2>1, <2>4, <3>1, <3>3, EmptyStream
    <2> QED
        BY <2>3, <2>4
  <1>7. CASE RecvPause
      BY <1>7, SeenWeakens DEF RecvPause, NextSequence
  <1>8. CASE FlushTick
      BY <1>8 DEF FlushTick
  <1>9. CASE CommitBatch
    <2>1. /\ pc = "commit" /\ pc' = "deliver" /\ ledger' = ledger \o pending
          /\ UNCHANGED <<after, sequence, pending, delivered>>
        BY <1>9 DEF CommitBatch, WithRows
    <2>2. Stored(pending)'
      <3> SUFFICES ASSUME NEW j \in 1..Len(pending)
                   PROVE  \E i \in 1..Len(ledger') : ledger'[i] = pending[j]
          BY <2>1 DEF Stored
      <3>1. /\ Len(ledger) + j \in 1..Len(ledger')
            /\ ledger'[Len(ledger) + j] = pending[j]
          BY <2>1
      <3> QED
          BY <3>1
    <2> QED
        BY <2>1, <2>2
  <1>10. CASE CommitFails
      BY <1>10, EmptyStream DEF CommitFails, BeginFailClosed
  <1>11. CASE CommitRefused
      BY <1>11, EmptyStream DEF CommitRefused, BeginFailClosed
  <1>12. CASE CommitCheckpoint
    <2> DEFINE row == Row(sequence, "paused")
    <2>1. /\ pc = "pause" /\ pc' = "deliver" /\ after' = "paused"
          /\ ledger' = Append(ledger, row) /\ pending' = <<row>>
          /\ UNCHANGED <<sequence, delivered>>
        BY <1>12 DEF CommitCheckpoint
    <2>2. Stored(pending)'
      <3>1. /\ Len(ledger) + 1 \in 1..Len(ledger')
            /\ ledger'[Len(ledger) + 1] = row
          BY <2>1
      <3>2. Len(pending') = 1 /\ pending'[1] = row
          BY <2>1
      <3> QED
          BY <3>1, <3>2 DEF Stored
    <2>3. Precedes(delivered, pending')
      <3>2. UpTo(delivered, sequence - 1)
          BY <2>1
      <3>3. ASSUME NEW i \in 1..Len(delivered) PROVE delivered[i].seq < sequence
          BY <3>2, SeenNumbered DEF UpTo
      <3>4. Len(pending') = 1 /\ pending'[1].seq = sequence
          BY <2>1 DEF Row
      <3> QED
          BY <3>3, <3>4 DEF Precedes
    <2> QED
        BY <2>1, <2>2, <2>3
  <1>13. CASE CheckpointRefused
      BY <1>13, EmptyStream DEF CheckpointRefused, BeginFailClosed
  <1>14. CASE DeliverBatch
    <2>1. /\ pc = "deliver" /\ delivered' = delivered \o pending /\ pending' = <<>>
          /\ sequence' = sequence /\ after' = after
          /\ after = "loop" => pc' = "recv"
          /\ after = "terminal" => pc' = "stopped"
          /\ after = "drain" => pc' = "drain"
          /\ after \in {"loop", "terminal", "drain"}
        BY <1>14 DEF DeliverBatch
    <2>2. UpTo(delivered \o pending, sequence)
        BY <2>1, BatchDelivered DEF DeliveredInOrder
    <2>3. NoTerminal(pending) => NoEnd(delivered \o pending)
        BY <2>1, BatchDelivered DEF DeliveredInOrder
    <2>4. after # "terminal" => NoTerminal(pending)
        BY DEF TerminalPlaced
    <2>5. pc' # "stopped" => NoEnd(delivered')
        BY <2>1, <2>3, <2>4
    <2> QED
        BY <2>1, <2>2, <2>5, EmptyStream
  <1>15. CASE DeliverBeforePreview
    <2>1. /\ pc = "deliver" /\ after = "preview" /\ pending' = <<>> /\ pc' = "recv"
          /\ delivered' = Append(delivered \o pending, Row(sequence, "preview"))
          /\ sequence' = sequence
        BY <1>15 DEF DeliverBeforePreview
    <2> DEFINE seen == delivered \o pending
    <2>2. Increasing(seen) /\ UpTo(seen, sequence - 1)
        BY <2>1, BatchDelivered DEF DeliveredInOrder
    <2>3. NoEnd(seen)
        BY <2>1, BatchDelivered DEF DeliveredInOrder, TerminalPlaced
    <2>4. seen \in Seq(Deliveries) /\ delivered' = Append(seen, Row(sequence, "preview"))
        BY <2>1, DeliveredTyped
    <2> HIDE DEF seen
    <2>5. sequence - 1 \in Int /\ sequence \in Nat /\ sequence - 1 < sequence
        OBVIOUS
    <2>6. UpTo(delivered', sequence) /\ NoEnd(delivered')
        BY <2>2, <2>3, <2>4, <2>5, OneDelivered
    <2> QED
        BY <2>1, <2>6, EmptyStream
  <1>16. CASE DeliverBeforePause
    <2>1. /\ pc = "deliver" /\ delivered' = delivered \o pending /\ pending' = <<>>
          /\ sequence' = sequence + 1 /\ after = "pause" /\ pc' = "pause"
          /\ after' = after
        BY <1>16 DEF DeliverBeforePause, NextSequence
    <2>2. UpTo(delivered \o pending, sequence)
        BY <2>1, BatchDelivered DEF DeliveredInOrder
    <2>3. NoTerminal(pending) => NoEnd(delivered \o pending)
        BY <2>1, BatchDelivered DEF DeliveredInOrder
    <2>4. NoTerminal(pending)
        BY <2>1 DEF TerminalPlaced
    <2>5. delivered' \in Seq(Deliveries) /\ UpTo(delivered', sequence)
        BY <2>1, <2>2, DeliveredTyped
    <2>6. UpTo(delivered', sequence + 1)
      <3>1. sequence \in Int /\ sequence + 1 \in Int /\ sequence <= sequence + 1
          OBVIOUS
      <3> QED
          BY <2>5, <3>1, SeenWeakens
    <2> QED
        BY <2>1, <2>2, <2>3, <2>4, <2>6, EmptyStream
  <1>17. CASE DeliverCheckpoint
    <2>1. /\ pc = "deliver" /\ delivered' = delivered \o pending /\ pending' = <<>>
          /\ sequence' = sequence /\ after = "paused" /\ pc' = "recv"
        BY <1>17 DEF DeliverCheckpoint
    <2>2. UpTo(delivered \o pending, sequence)
        BY <2>1, BatchDelivered DEF DeliveredInOrder
    <2>3. NoTerminal(pending) => NoEnd(delivered \o pending)
        BY <2>1, BatchDelivered DEF DeliveredInOrder
    <2>4. NoTerminal(pending)
        BY <2>1 DEF TerminalPlaced
    <2> QED
        BY <2>1, <2>2, <2>3, <2>4, EmptyStream
  <1>18. CASE BeginDrain
      BY <1>18 DEF BeginDrain
  <1>19. CASE DrainCommand
    <2>1. pc = "drain" /\ UNCHANGED delivered
        BY <1>19 DEF DrainCommand
    <2>2. UpTo(delivered, sequence) /\ UpTo(delivered, sequence + 1)
        BY <2>1, SeenWeakens
    <2>3. CASE Head(queue) \in {"pause", "preview"}
      <3>1. /\ UNCHANGED <<pending, pc, after>>
            /\ sequence' \in {sequence, sequence + 1}
          BY <1>19, <2>3 DEF DrainCommand, NextSequence
      <3> QED
          BY <2>1, <2>2, <3>1
    <2>4. CASE Head(queue) \notin {"pause", "preview"}
      <3>1. sequence' = sequence + 1
          BY <1>19, <2>4 DEF DrainCommand, NextSequence
      <3>2. /\ pending' = Append(pending, Row(sequence + 1, Head(queue)))
            /\ pc' = "drain" \/ (pc' = "commit" /\ after' = "drain")
          BY <1>19, <2>4, DrainEffect DEF NextSequence
      <3>3. Precedes(delivered, pending')
          BY <2>1, <2>2, <3>2, BatchStaysAbove
      <3> QED
          BY <2>1, <2>2, <3>1, <3>2, <3>3
    <2> QED
        BY <2>3, <2>4
  <1>20. CASE DrainEnds
      BY <1>20, EmptyStream DEF DrainEnds, BeginFailClosed
  <1>21. CASE ClaimFailure
      BY <1>21, EmptyStream, StoredKept DEF ClaimFailure
  <1>22. CASE DeliverFailure
      BY <1>22, EmptyStream DEF DeliverFailure, FailWaiters, AnswerPause
  <1>23. CASE ClaimLost
      BY <1>23, EmptyStream DEF ClaimLost, AnswerPause
  <1>24. CASE ClaimFails
      BY <1>24, EmptyStream DEF ClaimFails, FailWaiters, AnswerPause
  <1>25. CASE Open
      BY <1>25, EmptyStream DEF Open, OpenOutbox, InitialSequence
  <1> QED
      BY <1>1, <1>2, <1>3, <1>4, <1>5, <1>6, <1>7, <1>8, <1>9, <1>10, <1>11,
         <1>12, <1>13, <1>14, <1>15, <1>16, <1>17, <1>18, <1>19, <1>20, <1>21,
         <1>22, <1>23, <1>24, <1>25 DEF Next, Producer, Actor, Host, Quiet

(* The steps that write the live stream; a new actor starts a new one.    *)
Delivery ==
    \/ RecvPreview \/ DeliverBatch \/ DeliverBeforePreview \/ DeliverBeforePause
    \/ DeliverCheckpoint \/ DeliverFailure \/ Open

(* Only deliveries and a new actor write the stream.                       *)
LEMMA StreamWriters ==
    ASSUME [Next]_vars
    PROVE  UNCHANGED delivered \/ Delivery
  <1> USE DEF Delivery, durableVars, sharedVars, actorVars, seenVars, hostVars,
     boundVars
  <1>1. ASSUME NEW k \in Kinds, Submit(k) PROVE UNCHANGED delivered \/ Delivery
      BY <1>1 DEF Submit, SaturateQueue, Enqueue
  <1>2. CASE PublishEphemeral
      BY <1>2 DEF PublishEphemeral, Enqueue
  <1>3. CASE PauseWithCheckpoint
      BY <1>3 DEF PauseWithCheckpoint, SaturateQueue, Enqueue
  <1>4. CASE Quiet
      BY <1>4, QuietFrame
  <1>5. CASE RecvDurable
      BY <1>5 DEF RecvDurable, NextSequence
  <1>6. CASE RecvPreview
      BY <1>6 DEF RecvPreview, NextSequence
  <1>7. CASE RecvPause
      BY <1>7 DEF RecvPause, NextSequence
  <1>8. CASE FlushTick
      BY <1>8 DEF FlushTick
  <1>9. CASE CommitBatch
      BY <1>9 DEF CommitBatch
  <1>10. CASE CommitFails
      BY <1>10 DEF CommitFails, BeginFailClosed
  <1>11. CASE CommitRefused
      BY <1>11 DEF CommitRefused, BeginFailClosed
  <1>12. CASE CommitCheckpoint
      BY <1>12 DEF CommitCheckpoint
  <1>13. CASE CheckpointRefused
      BY <1>13 DEF CheckpointRefused, BeginFailClosed
  <1>14. CASE DeliverBatch
      BY <1>14 DEF DeliverBatch
  <1>15. CASE DeliverBeforePreview
      BY <1>15 DEF DeliverBeforePreview
  <1>16. CASE DeliverBeforePause
      BY <1>16 DEF DeliverBeforePause, NextSequence
  <1>17. CASE DeliverCheckpoint
      BY <1>17 DEF DeliverCheckpoint, AnswerPause
  <1>18. CASE BeginDrain
      BY <1>18 DEF BeginDrain
  <1>19. CASE DrainCommand
      BY <1>19 DEF DrainCommand, NextSequence
  <1>20. CASE DrainEnds
      BY <1>20 DEF DrainEnds, BeginFailClosed
  <1>21. CASE ClaimFailure
      BY <1>21 DEF ClaimFailure
  <1>22. CASE DeliverFailure
      BY <1>22 DEF DeliverFailure, FailWaiters, AnswerPause
  <1>23. CASE ClaimLost
      BY <1>23 DEF ClaimLost, AnswerPause
  <1>24. CASE ClaimFails
      BY <1>24 DEF ClaimFails, FailWaiters, AnswerPause
  <1>25. CASE Open
      BY <1>25 DEF Open, OpenOutbox, InitialSequence
  <1> QED
      BY <1>1, <1>2, <1>3, <1>4, <1>5, <1>6, <1>7, <1>8, <1>9, <1>10, <1>11,
         <1>12, <1>13, <1>14, <1>15, <1>16, <1>17, <1>18, <1>19, <1>20, <1>21,
         <1>22, <1>23, <1>24, <1>25 DEF Next, Producer, Actor, Host, Quiet

(* What each delivery appends to the stream.                               *)
LEMMA DeliveryEffect ==
    ASSUME TypeOK, CoreInv, StreamInv, Delivery
    PROVE  \/ delivered' = <<>>
           \/ /\ pc = "deliver" /\ delivered' = delivered \o pending
              /\ NoTerminal(pending) \/ pc' = "stopped"
           \/ /\ pc = "deliver" /\ after = "preview"
              /\ delivered' = Append(delivered \o pending, Row(sequence, "preview"))
           \/ /\ pc = "recv"
              /\ delivered' \in {delivered, Append(delivered, Row(sequence + 1, "preview"))}
           \/ /\ pc = "deliver" /\ pending = <<>>
              /\ delivered' = Append(delivered,
                                   Row(Max2(DurableHead, sequence) + 1, "outbox_failed"))
  <1> USE DEF CoreInv
  <1>1. CASE RecvPreview
    <2>1. pc = "recv"
        BY <1>1 DEF RecvPreview
    <2>2. delivered' \in {delivered, Append(delivered, Row(sequence + 1, "preview"))}
        BY <1>1 DEF RecvPreview, NextSequence, seenVars
    <2> QED
        BY <2>1, <2>2
  <1>2. CASE DeliverBatch
    <2>1. /\ pc = "deliver" /\ delivered' = delivered \o pending
          /\ after = "terminal" => pc' = "stopped"
        BY <1>2 DEF DeliverBatch
    <2>2. after # "terminal" => NoTerminal(pending)
        BY DEF TerminalPlaced
    <2> QED
        BY <2>1, <2>2
  <1>3. CASE DeliverBeforePreview
      BY <1>3 DEF DeliverBeforePreview
  <1>4. CASE DeliverBeforePause
    <2>1. pc = "deliver" /\ after = "pause" /\ delivered' = delivered \o pending
        BY <1>4 DEF DeliverBeforePause
    <2> QED
        BY <2>1 DEF TerminalPlaced
  <1>5. CASE DeliverCheckpoint
    <2>1. pc = "deliver" /\ after = "paused" /\ delivered' = delivered \o pending
        BY <1>5 DEF DeliverCheckpoint
    <2> QED
        BY <2>1 DEF TerminalPlaced
  <1>6. CASE DeliverFailure
      BY <1>6 DEF DeliverFailure, BatchDropped
  <1>7. CASE Open
      BY <1>7 DEF Open, OpenOutbox
  <1> QED
      BY <1>1, <1>2, <1>3, <1>4, <1>5, <1>6, <1>7 DEF Delivery

(* Every step keeps the stream increasing.                                 *)
LEMMA DeliveredInOrderStep ==
    ASSUME TypeOK, CoreInv, StreamInv, DeliveredInOrder, [Next]_vars
    PROVE  DeliveredInOrder'
  <1> USE DEF DeliveredInOrder, TypeOK, TypeNumbers, TypeRows, CoreInv, BatchNumbered
  <1>1. CASE UNCHANGED delivered
      BY <1>1
  <1>2. CASE delivered' = <<>>
      BY <1>2, EmptyStream
  <1>3. CASE pc = "deliver" /\ delivered' = delivered \o pending
    <2>1. Increasing(delivered \o pending)
        BY <1>3, BatchDelivered DEF StreamInv
    <2> QED
        BY <1>3, <2>1
  <1>4. CASE /\ pc = "deliver" /\ after = "preview"
             /\ delivered' = Append(delivered \o pending, Row(sequence, "preview"))
    <2> DEFINE seen == delivered \o pending
    <2>1. Increasing(seen) /\ UpTo(seen, sequence - 1)
        BY <1>4, BatchDelivered DEF StreamInv
    <2>2. seen \in Seq(Deliveries) /\ delivered' = Append(seen, Row(sequence, "preview"))
        BY <1>4, DeliveredTyped
    <2> HIDE DEF seen
    <2>3. sequence - 1 \in Int /\ sequence \in Nat /\ sequence - 1 < sequence
        OBVIOUS
    <2> QED
        BY <2>1, <2>2, <2>3, OneDelivered
  <1>5. CASE /\ pc = "recv"
             /\ delivered' \in {delivered, Append(delivered, Row(sequence + 1, "preview"))}
    <2>1. sequence \in Int /\ sequence + 1 \in Nat /\ sequence < sequence + 1
        OBVIOUS
    <2>2. UpTo(delivered, sequence)
        BY <1>5 DEF StreamInv
    <2>3. Increasing(Append(delivered, Row(sequence + 1, "preview")))
        BY <2>1, <2>2, OneDelivered
    <2> QED
        BY <1>5, <2>3
  <1>6. CASE /\ pc = "deliver"
             /\ delivered' = Append(delivered,
                                  Row(Max2(DurableHead, sequence) + 1, "outbox_failed"))
    <2> DEFINE n == Max2(DurableHead, sequence) + 1
    <2>1. n \in Nat /\ sequence < n
        BY FailureNumber
    <2>2. UpTo(delivered, sequence)
        BY <1>6 DEF StreamInv
    <2> HIDE DEF n
    <2>3. Increasing(Append(delivered, Row(n, "outbox_failed")))
        BY <2>1, <2>2, OneDelivered
    <2> QED
        BY <1>6, <2>3 DEF n
  <1> QED
      BY <1>1, <1>2, <1>3, <1>4, <1>5, <1>6, StreamWriters, DeliveryEffect

(* Every step keeps what the window has seen durable.                      *)
LEMMA DeliveredIsDurableStep ==
    ASSUME TypeOK, CoreInv, StreamInv, DeliveredIsDurable, [Next]_vars
    PROVE  DeliveredIsDurable'
  <1> SUFFICES ASSUME NEW i \in 1..Len(delivered'), delivered'[i].kind \in DurableKinds
               PROVE  \E j \in 1..Len(ledger') : ledger'[j] = delivered'[i]
      BY DEF DeliveredIsDurable
  <1> DEFINE InLedger(r) == \E j \in 1..Len(ledger) : ledger[j] = r
  <1> USE DEF TypeOK, TypeRows
  <1>1. ASSUME NEW j \in 1..Len(delivered), delivered[j].kind \in DurableKinds
        PROVE  InLedger(delivered[j])
      BY <1>1 DEF DeliveredIsDurable
  <1>2. ASSUME pc = "deliver", NEW j \in 1..Len(pending) PROVE InLedger(pending[j])
      BY <1>2 DEF StreamInv, Stored
  <1>3. "preview" \notin DurableKinds /\ "outbox_failed" \notin DurableKinds
      BY DEF DurableKinds, EventKinds, TerminalStatuses
  <1>4. InLedger(delivered'[i])
    <2>1. CASE UNCHANGED delivered
        BY <1>1, <2>1
    <2>2. CASE delivered' = <<>>
        BY <2>2
    <2>3. CASE pc = "deliver" /\ delivered' = delivered \o pending
      <3>1. CASE i \in 1..Len(delivered)
          BY <1>1, <2>3, <3>1
      <3>2. CASE i \notin 1..Len(delivered)
        <4>1. /\ i - Len(delivered) \in 1..Len(pending)
              /\ delivered'[i] = pending[i - Len(delivered)]
            BY <2>3, <3>2
        <4> QED
            BY <1>2, <2>3, <4>1
      <3> QED
          BY <3>1, <3>2
    <2>4. CASE /\ pc = "deliver" /\ after = "preview"
               /\ delivered' = Append(delivered \o pending, Row(sequence, "preview"))
      <3>1. CASE i \in 1..Len(delivered)
        <4>1. delivered'[i] = delivered[i]
            BY <2>4, <3>1
        <4> QED
            BY <1>1, <3>1, <4>1
      <3>2. CASE i \notin 1..Len(delivered) /\ i # Len(delivered')
        <4>1. /\ i - Len(delivered) \in 1..Len(pending)
              /\ delivered'[i] = pending[i - Len(delivered)]
            BY <2>4, <3>2
        <4> QED
            BY <1>2, <2>4, <4>1
      <3>3. CASE i = Len(delivered')
        <4>1. delivered'[i].kind = "preview"
            BY <2>4, <3>3 DEF Row
        <4> QED
            BY <1>3, <4>1
      <3> QED
          BY <3>1, <3>2, <3>3
    <2>5. ASSUME NEW n, NEW k \in {"preview", "outbox_failed"},
                 delivered' = Append(delivered, Row(n, k))
          PROVE  InLedger(delivered'[i])
      <3>1. CASE i \in 1..Len(delivered)
          BY <1>1, <2>5, <3>1
      <3>2. CASE i \notin 1..Len(delivered)
        <4>1. delivered'[i].kind = k
            BY <2>5, <3>2 DEF Row
        <4> QED
            BY <1>3, <4>1
      <3> QED
          BY <3>1, <3>2
    <2> QED
        BY <2>1, <2>2, <2>3, <2>4, <2>5, StreamWriters, DeliveryEffect
  <1> QED
      BY <1>4, LedgerGrows

(* Every step keeps a delivered terminal last.                             *)
LEMMA TerminalEndsStreamStep ==
    ASSUME TypeOK, CoreInv, StreamInv, TerminalEndsStream, [Next]_vars
    PROVE  TerminalEndsStream'
  <1> SUFFICES ASSUME NEW i \in 1..Len(delivered'),
                      ClosesRun(delivered'[i].kind) \/ delivered'[i].kind = "outbox_failed"
               PROVE  i = Len(delivered')
      BY DEF TerminalEndsStream
  <1> USE DEF TypeOK, TypeRows
  <1>1. CASE UNCHANGED delivered
      BY <1>1 DEF TerminalEndsStream
  <1>2. CASE delivered' = <<>>
      BY <1>2
  <1>3. CASE pc = "deliver" /\ delivered' = delivered \o pending
    <2>1. i \notin 1..Len(delivered)
        BY <1>3 DEF StreamInv, NoEnd
    <2>2. /\ Len(delivered') = Len(delivered) + Len(pending)
          /\ i - Len(delivered) \in 1..Len(pending)
          /\ delivered'[i] = pending[i - Len(delivered)]
        BY <1>3, <2>1
    <2>3. pending[i - Len(delivered)] \in Rows
        BY <2>2
    <2>4. pending[i - Len(delivered)].kind # "outbox_failed"
        BY <2>3 DEF Rows, DurableKinds, EventKinds, TerminalStatuses
    <2>5. i - Len(delivered) = Len(pending)
        BY <2>2, <2>4 DEF CoreInv, TerminalPlaced, TerminalLast
    <2> QED
        BY <2>2, <2>5
  <1>4. CASE /\ pc = "deliver" /\ after = "preview"
             /\ delivered' = Append(delivered \o pending, Row(sequence, "preview"))
    <2>1. NoEnd(delivered) /\ NoTerminal(pending)
        BY <1>4 DEF StreamInv, CoreInv, TerminalPlaced
    <2>2. CASE i \in 1..Len(delivered)
      <3>1. delivered'[i] = delivered[i]
          BY <1>4, <2>2
      <3> QED
          BY <2>1, <2>2, <3>1 DEF NoEnd
    <2>3. CASE i \notin 1..Len(delivered) /\ i # Len(delivered')
      <3>1. /\ i - Len(delivered) \in 1..Len(pending)
            /\ delivered'[i] = pending[i - Len(delivered)]
          BY <1>4, <2>3
      <3>2. pending[i - Len(delivered)] \in Rows
          BY <3>1
      <3>3. pending[i - Len(delivered)].kind # "outbox_failed"
          BY <3>2 DEF Rows, DurableKinds, EventKinds, TerminalStatuses
      <3> QED
          BY <2>1, <3>1, <3>3 DEF NoTerminal
    <2> QED
        BY <2>2, <2>3
  <1>5. ASSUME NEW n, NEW k, pc # "stopped", delivered' = Append(delivered, Row(n, k))
        PROVE  i = Len(delivered')
      BY <1>5 DEF StreamInv, NoEnd
  <1> QED
      BY <1>1, <1>2, <1>3, <1>4, <1>5, StreamWriters, DeliveryEffect

(* Every step counts the commands it accepts, numbers or drops.            *)
LEMMA AcceptedCountedStep ==
    ASSUME TypeOK, CoreInv, AcceptedCounted, [Next]_vars
    PROVE  AcceptedCounted'
  <1> USE DEF TypeOK, TypeNumbers, TypeRows, CoreInv, AcceptedCounted,
     durableVars, sharedVars, actorVars, seenVars, hostVars, boundVars
  <1>1. ASSUME NEW k \in Kinds, Submit(k) PROVE AcceptedCounted'
      BY <1>1 DEF Submit, SaturateQueue, Enqueue
  <1>2. CASE PublishEphemeral
      BY <1>2 DEF PublishEphemeral, Enqueue
  <1>3. CASE PauseWithCheckpoint
      BY <1>3 DEF PauseWithCheckpoint, SaturateQueue, Enqueue
  <1>4. CASE Quiet
      BY <1>4, QuietFrame
  <1>5. CASE RecvDurable
      BY <1>5 DEF RecvDurable, NextSequence
  <1>6. CASE RecvPreview
      BY <1>6 DEF RecvPreview, NextSequence
  <1>7. CASE RecvPause
      BY <1>7 DEF RecvPause, NextSequence
  <1>8. CASE FlushTick
      BY <1>8 DEF FlushTick
  <1>9. CASE CommitBatch
      BY <1>9 DEF CommitBatch
  <1>10. CASE CommitFails
      BY <1>10 DEF CommitFails, BeginFailClosed
  <1>11. CASE CommitRefused
      BY <1>11 DEF CommitRefused, BeginFailClosed
  <1>12. CASE CommitCheckpoint
      BY <1>12 DEF CommitCheckpoint
  <1>13. CASE CheckpointRefused
      BY <1>13 DEF CheckpointRefused, BeginFailClosed
  <1>14. CASE DeliverBatch
      BY <1>14 DEF DeliverBatch
  <1>15. CASE DeliverBeforePreview
      BY <1>15 DEF DeliverBeforePreview
  <1>16. CASE DeliverBeforePause
      BY <1>16 DEF DeliverBeforePause, NextSequence
  <1>17. CASE DeliverCheckpoint
      BY <1>17 DEF DeliverCheckpoint, AnswerPause
  <1>18. CASE BeginDrain
      BY <1>18 DEF BeginDrain
  <1>19. CASE DrainCommand
    <2>1. Len(queue') = Len(queue) - 1 /\ Len(queue) \in Nat /\ Len(queue') \in Nat
        BY <1>19 DEF DrainCommand
    <2>2. sequence' <= sequence + 1 /\ sequence' \in Nat /\ accepted' = accepted
        BY <1>19 DEF DrainCommand, NextSequence
    <2>3. ~(after' = "pause" /\ pc' \in {"commit", "deliver"})
        BY <1>19 DEF DrainCommand
    <2> QED
        BY <2>1, <2>2, <2>3
  <1>20. CASE DrainEnds
      BY <1>20 DEF DrainEnds, BeginFailClosed
  <1>21. CASE ClaimFailure
      BY <1>21 DEF ClaimFailure
  <1>22. CASE DeliverFailure
      BY <1>22 DEF DeliverFailure, FailWaiters, AnswerPause
  <1>23. CASE ClaimLost
      BY <1>23 DEF ClaimLost, AnswerPause
  <1>24. CASE ClaimFails
      BY <1>24 DEF ClaimFails, FailWaiters, AnswerPause
  <1>25. CASE Open
      BY <1>25 DEF Open, OpenOutbox, InitialSequence
  <1> QED
      BY <1>1, <1>2, <1>3, <1>4, <1>5, <1>6, <1>7, <1>8, <1>9, <1>10, <1>11,
         <1>12, <1>13, <1>14, <1>15, <1>16, <1>17, <1>18, <1>19, <1>20, <1>21,
         <1>22, <1>23, <1>24, <1>25 DEF Next, Producer, Actor, Host, Quiet

(* Every step keeps the reported number below the batch.                   *)
LEMMA MarkBelowBatchStep ==
    ASSUME TypeOK, CoreInv, MarkBelowBatch, [Next]_vars
    PROVE  MarkBelowBatch'
  <1> USE DEF TypeOK, TypeNumbers, TypeRows, CoreInv, BatchNumbered,
     MarkBelowBatch, durableVars, sharedVars, actorVars, seenVars, hostVars,
     boundVars
  <1>1. ASSUME NEW k \in Kinds, Submit(k) PROVE MarkBelowBatch'
      BY <1>1 DEF Submit, SaturateQueue, Enqueue
  <1>2. CASE PublishEphemeral
      BY <1>2 DEF PublishEphemeral, Enqueue
  <1>3. CASE PauseWithCheckpoint
      BY <1>3 DEF PauseWithCheckpoint, SaturateQueue, Enqueue
  <1>4. CASE Quiet
      BY <1>4, QuietFrame
  <1>5. CASE RecvDurable
    <2>1. /\ pc' # "pause" /\ sequence' = sequence + 1 /\ UNCHANGED durability
          /\ pending' = Append(pending, Row(sequence + 1, Head(queue)))
        BY <1>5 DEF RecvDurable, NextSequence
    <2>2. durability.seq \in Nat
        OBVIOUS
    <2>3. durability.ok => Above(pending', durability.seq)
        BY <2>1, <2>2, BatchAppended
    <2> QED
        BY <2>1, <2>2, <2>3
  <1>6. CASE RecvPreview
    <2>1. pc = "recv" /\ pc' # "pause" /\ sequence' = sequence + 1 /\ UNCHANGED pending
        BY <1>6 DEF RecvPreview, NextSequence
    <2>2. durability.seq \in Nat
        OBVIOUS
    <2>3. CASE pending # <<>>
      <3>1. UNCHANGED durability
          BY <1>6, <2>3 DEF RecvPreview
      <3> QED
          BY <2>1, <2>2, <3>1
    <2>4. CASE pending = <<>>
      <3>1. durability' = [ok |-> TRUE, seq |-> sequence + 1]
          BY <1>6, <2>4 DEF RecvPreview, NextSequence
      <3> QED
          BY <2>1, <2>4, <3>1, EmptyStream
    <2> QED
        BY <2>3, <2>4
  <1>7. CASE RecvPause
    <2>1. UNCHANGED <<pending, durability>>
        BY <1>7 DEF RecvPause
    <2>2. durability.seq \in Nat
        OBVIOUS
    <2>3. \/ pc' = "commit" /\ sequence' = sequence
          \/ pc' = "pause" /\ sequence' = sequence + 1
        BY <1>7 DEF RecvPause, NextSequence
    <2> QED
        BY <2>1, <2>2, <2>3
  <1>8. CASE FlushTick
      BY <1>8 DEF FlushTick
  <1>9. CASE CommitBatch
    <2>1. pc' = "deliver" /\ UNCHANGED <<sequence, pending, durability>>
        BY <1>9 DEF CommitBatch
    <2> QED
        BY <2>1
  <1>10. CASE CommitFails
      BY <1>10, EmptyStream DEF CommitFails, BeginFailClosed
  <1>11. CASE CommitRefused
      BY <1>11, EmptyStream DEF CommitRefused, BeginFailClosed
  <1>12. CASE CommitCheckpoint
    <2>1. /\ pc = "pause" /\ pc' = "deliver" /\ UNCHANGED <<sequence, durability>>
          /\ pending' = <<Row(sequence, "paused")>>
        BY <1>12 DEF CommitCheckpoint
    <2>2. Len(pending') = 1 /\ pending'[1].seq = sequence
        BY <2>1 DEF Row
    <2>3. durability.ok => Above(pending', durability.seq)
        BY <2>1, <2>2 DEF Above
    <2> QED
        BY <2>1, <2>3
  <1>13. CASE CheckpointRefused
      BY <1>13, EmptyStream DEF CheckpointRefused, BeginFailClosed
  <1>14. CASE DeliverBatch
    <2>1. /\ pending' = <<>> /\ durability' = [ok |-> TRUE, seq |-> sequence]
          /\ sequence' = sequence /\ pc' # "pause"
        BY <1>14 DEF DeliverBatch
    <2>2. durability'.seq = sequence
        BY <2>1
    <2>3. Above(pending', durability'.seq)
        BY <2>1, EmptyStream
    <2> QED
        BY <2>1, <2>2, <2>3
  <1>15. CASE DeliverBeforePreview
    <2>1. /\ pending' = <<>> /\ durability' = [ok |-> TRUE, seq |-> sequence]
          /\ sequence' = sequence /\ pc' # "pause"
        BY <1>15 DEF DeliverBeforePreview
    <2>2. durability'.seq = sequence
        BY <2>1
    <2>3. Above(pending', durability'.seq)
        BY <2>1, EmptyStream
    <2> QED
        BY <2>1, <2>2, <2>3
  <1>16. CASE DeliverBeforePause
    <2>1. /\ pending' = <<>> /\ durability' = [ok |-> TRUE, seq |-> sequence]
          /\ sequence' = sequence + 1
        BY <1>16 DEF DeliverBeforePause, NextSequence
    <2>2. durability'.seq = sequence
        BY <2>1
    <2>3. Above(pending', durability'.seq)
        BY <2>1, EmptyStream
    <2> QED
        BY <2>1, <2>2, <2>3
  <1>17. CASE DeliverCheckpoint
    <2>1. /\ pending' = <<>> /\ durability' = [ok |-> TRUE, seq |-> sequence]
          /\ sequence' = sequence /\ pc' # "pause"
        BY <1>17 DEF DeliverCheckpoint
    <2>2. durability'.seq = sequence
        BY <2>1
    <2>3. Above(pending', durability'.seq)
        BY <2>1, EmptyStream
    <2> QED
        BY <2>1, <2>2, <2>3
  <1>18. CASE BeginDrain
      BY <1>18 DEF BeginDrain
  <1>19. CASE DrainCommand
    <2>1. /\ pc' # "pause" /\ sequence' \in {sequence, sequence + 1}
          /\ UNCHANGED durability
        BY <1>19 DEF DrainCommand, NextSequence
    <2>2. durability.seq \in Nat
        OBVIOUS
    <2>3. \/ pending' = pending
          \/ pending' = Append(pending, Row(sequence + 1, Head(queue)))
        BY <1>19 DEF DrainCommand, NextSequence
    <2>4. durability.ok => Above(pending', durability.seq)
        BY <2>2, <2>3, BatchAppended
    <2> QED
        BY <2>1, <2>2, <2>4
  <1>20. CASE DrainEnds
      BY <1>20, EmptyStream DEF DrainEnds, BeginFailClosed
  <1>21. CASE ClaimFailure
      BY <1>21, EmptyStream DEF ClaimFailure
  <1>22. CASE DeliverFailure
    <2>1. durability' = [durability EXCEPT !.ok = FALSE]
        BY <1>22 DEF DeliverFailure, FailWaiters
    <2>2. ~durability'.ok
        BY <2>1
    <2> QED
        BY <2>2
  <1>23. CASE ClaimLost
    <2>1. /\ pc' = "stopped" /\ durability' = [ok |-> TRUE, seq |-> DurableHead]
          /\ UNCHANGED <<sequence, pending>> /\ pending = <<>>
        BY <1>23 DEF ClaimLost, BatchDropped
    <2> QED
        BY <2>1, EmptyStream DEF BatchNumbered
  <1>24. CASE ClaimFails
    <2>1. durability' = [durability EXCEPT !.ok = FALSE]
        BY <1>24 DEF ClaimFails, FailWaiters
    <2>2. ~durability'.ok
        BY <2>1
    <2> QED
        BY <2>2
  <1>25. CASE Open
    <2>1. /\ pc' # "pause" /\ durability' = [ok |-> TRUE, seq |-> DurableHead]
          /\ sequence' = DurableHead /\ pending' = <<>>
        BY <1>25 DEF Open, OpenOutbox, InitialSequence
    <2>2. DurableHead \in Nat
        BY HeadIsNat
    <2>3. durability'.seq = sequence' /\ sequence' \in Nat
        BY <2>1, <2>2
    <2>4. Above(pending', durability'.seq)
        BY <2>1, EmptyStream
    <2> QED
        BY <2>1, <2>3, <2>4
  <1> QED
      BY <1>1, <1>2, <1>3, <1>4, <1>5, <1>6, <1>7, <1>8, <1>9, <1>10, <1>11,
         <1>12, <1>13, <1>14, <1>15, <1>16, <1>17, <1>18, <1>19, <1>20, <1>21,
         <1>22, <1>23, <1>24, <1>25 DEF Next, Producer, Actor, Host, Quiet

(* The invariants of the stream and of the flush barrier hold at launch.   *)
LEMMA InitStream ==
    Init => /\ DeliveredInOrder /\ DeliveredIsDurable /\ TerminalEndsStream
            /\ StreamInv /\ FlushInv
  <1> SUFFICES ASSUME Init
               PROVE  /\ DeliveredInOrder /\ DeliveredIsDurable /\ TerminalEndsStream
                      /\ StreamInv /\ FlushInv
      OBVIOUS
  <1>1. DeliveredInOrder /\ DeliveredIsDurable /\ TerminalEndsStream
      BY DEF Init, DeliveredInOrder, Increasing, DeliveredIsDurable, TerminalEndsStream
  <1>2. StreamInv
      BY EmptyStream DEF Init, StreamInv
  <1>3. AcceptedCounted
      BY DEF Init, AcceptedCounted
  <1>4. MarkBelowBatch
      BY EmptyStream DEF Init, MarkBelowBatch
  <1> QED
      BY <1>1, <1>2, <1>3, <1>4 DEF FlushInv

(* They hold in every reachable state.                                     *)
LEMMA StreamCorrect ==
    Spec => []( /\ DeliveredInOrder /\ DeliveredIsDurable /\ TerminalEndsStream
                /\ StreamInv /\ FlushInv )
  <1> DEFINE Core == TypeOK /\ LedgerOrdered /\ CoreInv
             Seen == /\ DeliveredInOrder /\ DeliveredIsDurable /\ TerminalEndsStream
                     /\ StreamInv /\ FlushInv
  <1>1. Core /\ Seen /\ [Next]_vars => Seen'
    <2> SUFFICES ASSUME Core, Seen, [Next]_vars PROVE Seen'
        OBVIOUS
    <2>1. StreamInv'
        BY StreamInvStep
    <2>2. DeliveredInOrder'
        BY DeliveredInOrderStep
    <2>3. DeliveredIsDurable'
        BY DeliveredIsDurableStep
    <2>4. TerminalEndsStream'
        BY TerminalEndsStreamStep
    <2>5. FlushInv'
        BY AcceptedCountedStep, MarkBelowBatchStep DEF FlushInv
    <2> QED
        BY <2>1, <2>2, <2>3, <2>4, <2>5
  <1> QED
      BY InitStream, CoreCorrect, <1>1, PTL DEF Spec
----------------------------------------------------------------------------
(*                               Theorems                                  *)

(* The live stream of an actor is strictly increasing, previews and the    *)
(* failure terminal included.                                              *)
THEOREM StreamIsInOrder == Spec => []DeliveredInOrder
  BY StreamCorrect, PTL

(* The actor delivers a durable event only after its transaction           *)
(* committed: the window never shows an event a restart would not find.    *)
THEOREM StreamIsDurable == Spec => []DeliveredIsDurable
  BY StreamCorrect, PTL

(* At most one terminal is delivered, and nothing after it.                *)
THEOREM StreamEndsOnce == Spec => []TerminalEndsStream
  BY StreamCorrect, PTL

(* The accounting of commands makes the flush a barrier.                   *)
LEMMA CountingIsBarrier ==
    ASSUME TypeOK, CoreInv, FlushInv
    PROVE  FlushBarrier
  <1> SUFFICES ASSUME durability.ok
               PROVE  /\ Above(pending, durability.seq)
                      /\ durability.seq >= accepted => queue = <<>> /\ pending = <<>>
      BY DEF FlushBarrier, Above
  <1> USE DEF TypeOK, TypeNumbers, TypeRows
  <1>1. /\ durability.seq \in Nat /\ durability.seq <= sequence
        /\ Above(pending, durability.seq)
        /\ accepted >= sequence + Len(queue)
      BY DEF FlushInv, MarkBelowBatch, AcceptedCounted
  <1>2. ASSUME durability.seq >= accepted PROVE queue = <<>> /\ pending = <<>>
    <2>1. Len(queue) = 0 /\ sequence = durability.seq
        BY <1>1, <1>2
    <2>2. queue = <<>>
        BY <2>1
    <2>3. ASSUME pending # <<>> PROVE FALSE
      <3>1. 1 \in 1..Len(pending)
          BY <2>3
      <3>2. pending[1].seq \in Nat
          BY <3>1, RowsNumbered
      <3>3. durability.seq < pending[1].seq /\ pending[1].seq <= sequence
          BY <1>1, <3>1 DEF Above, CoreInv, BatchNumbered, UpTo
      <3> QED
          BY <1>1, <2>1, <3>2, <3>3
    <2> QED
        BY <2>2, <2>3
  <1> QED
      BY <1>1, <1>2

(* flush is a processed-through barrier: when the durable number reaches   *)
(* the accepted one, neither queue nor batch holds an event.               *)
THEOREM FlushIsBarrier == Spec => []FlushBarrier
  <1>1. TypeOK /\ CoreInv /\ FlushInv => FlushBarrier
      BY CountingIsBarrier
  <1> QED
      BY CoreCorrect, StreamCorrect, <1>1, PTL
=============================================================================
