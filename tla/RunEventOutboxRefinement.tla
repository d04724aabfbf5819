----------------------- MODULE RunEventOutboxRefinement -----------------------
(***************************************************************************)
(* The outbox actor implements RunLedger.  An event is in flight from the  *)
(* moment the queue takes it until its transaction commits: in the queue,  *)
(* in the actor's batch, or, for a checkpoint, in the actor's hands.       *)
(***************************************************************************)
EXTENDS RunEventOutbox

KindsOf(rows) == [i \in 1..Len(rows) |-> rows[i].kind]

(* The batch while its transaction has not committed.                      *)
UncommittedBatch == IF pc = "deliver" THEN <<>> ELSE KindsOf(pending)

(* A checkpoint command the actor has taken from the queue.                *)
HeldCheckpoint ==
    IF pc = "pause" \/ (after = "pause" /\ pc \in {"commit", "deliver"})
    THEN <<"paused">> ELSE <<>>

(* Commands that will reach SQLite, a checkpoint as its paused event: the  *)
(* events among the first n commands of a queue, for every n.              *)
EventOf(command) == IF command = "pause" THEN "paused" ELSE command

EventsUpTo(commands) ==
    LET upto[n \in 0..Len(commands)] ==
            IF n = 0 THEN <<>>
            ELSE IF IsDurable(commands[n])
                 THEN Append(upto[n-1], EventOf(commands[n]))
                 ELSE upto[n-1]
    IN  upto

EventsIn(commands) == EventsUpTo(commands)[Len(commands)]

QueuedEvents == EventsIn(queue)

(* Once the actor fails closed, what it still holds is lost.               *)
Failing == pc \in {"absent", "claim", "stopped"} \/ (pc = "deliver" /\ after = "failed")

Inflight ==
    IF Failing THEN <<>> ELSE UncommittedBatch \o HeldCheckpoint \o QueuedEvents

Abstract == INSTANCE RunLedger WITH
    Events    <- DurableKinds,
    Terminals <- TerminalStatuses,
    committed <- KindsOf(ledger),
    inflight  <- Inflight,
    closed    <- terminalSubmitted

(* The outbox implements its abstract promise, with saturation, failed and *)
(* refused transactions, checkpoints, reopening and direct task writes:    *)
(* durable history is a concatenation of prefixes of what was accepted,    *)
(* and nothing that was accepted stays in flight for ever.                 *)
ImplementsLedger == Abstract!FairSpec
=============================================================================
