--------------------- MODULE RunEventOutboxPause_proof ---------------------
(***************************************************************************)
(* Theorems about the projections of RunEventOutbox, for every capacity,   *)
(* batch size and bound and every set of event kinds: a wait for the user  *)
(* is not lifted by ordinary events, and a checkpoint is a clean boundary. *)
(***************************************************************************)
EXTENDS RunEventOutbox_proof, WellFoundedInduction

----------------------------------------------------------------------------
(*                   What a committed batch projects                       *)

(* A non-empty set of numbers has a least member.                          *)
LEMMA LeastNumber ==
    ASSUME NEW S \in SUBSET Nat, S # {}
    PROVE  \E x \in S : \A y \in S : x <= y
  <1> DEFINE R == OpToRel(<, Nat)
  <1>1. IsWellFoundedOn(R, Nat)
      BY NatLessThanWellFounded
  <1>2. PICK x \in S : \A y \in S : ~(<<y, x>> \in R)
      BY <1>1, WFMin
  <1>3. ASSUME NEW y \in S PROVE x <= y
    <2>1. x \in Nat /\ y \in Nat
        OBVIOUS
    <2>2. y < x => <<y, x>> \in R
        BY <2>1 DEF OpToRel
    <2>3. ~(y < x)
        BY <1>2, <2>2
    <2> QED
        BY <2>1, <2>3
  <1> QED
      BY <1>3

(* Induction over the numbers, for a set.                                  *)
LEMMA SetInduction ==
    ASSUME NEW S, 0 \in S, \A n \in Nat : n \in S => n + 1 \in S
    PROVE  \A n \in Nat : n \in S
  <1> DEFINE Rest == {n \in Nat : n \notin S}
  <1> SUFFICES ASSUME Rest # {} PROVE FALSE
      OBVIOUS
  <1>1. PICK x \in Rest : \A y \in Rest : x <= y
      BY LeastNumber
  <1>2. x \in Nat /\ x # 0
      BY <1>1
  <1>3. x - 1 \in Nat /\ ~(x <= x - 1) /\ (x - 1) + 1 = x
      BY <1>2
  <1>4. x - 1 \in S
      BY <1>1, <1>3
  <1>5. x \in S
      BY <1>3, <1>4
  <1> QED
      BY <1>1, <1>5

(* The projections of a batch follow their definition: they start from the *)
(* rows that the transaction finds, and every event moves them on.         *)
LEMMA ProjectionsUnfold ==
    ASSUME NEW s, NEW t, NEW events, NEW b, Len(events) \in Nat
    PROVE  LET P == Projections(s, t, events, b)
           IN  /\ P[0] = [task |-> s, turn |-> t]
               /\ \A i \in 1..Len(events) :
                    P[i] = [task |-> ProjectTask(P[i-1].task, events[i].kind, b),
                            turn |-> ProjectTurn(P[i-1].turn, events[i].kind,
                                       ProjectTask(P[i-1].task, events[i].kind, b))]
  <1> DEFINE Step(x, i) ==
                [task |-> ProjectTask(x.task, events[i].kind, b),
                 turn |-> ProjectTurn(x.turn, events[i].kind,
                                      ProjectTask(x.task, events[i].kind, b))]
             Base == [task |-> s, turn |-> t]
             Body(f, n) == [i \in 0..n |-> IF i = 0 THEN Base ELSE Step(f[i-1], i)]
             Good == {n \in Nat : \E f : f = Body(f, n)}
  <1> HIDE DEF Step, Base
  <1>1. 0 \in Good
    <2> DEFINE f == [i \in 0..0 |-> Base]
    <2>1. f = Body(f, 0)
        OBVIOUS
    <2> QED
        BY <2>1
  <1>2. ASSUME NEW n \in Nat, n \in Good PROVE n + 1 \in Good
    <2>1. PICK f : f = Body(f, n)
        BY <1>2
    <2> DEFINE g == [i \in 0..n+1 |-> IF i = n + 1 THEN Step(f[n], n + 1) ELSE f[i]]
    <2>2. ASSUME NEW i \in 0..n+1
          PROVE  g[i] = IF i = 0 THEN Base ELSE Step(g[i-1], i)
      <3>1. CASE i = 0
          BY <2>1, <3>1
      <3>2. CASE i = n + 1
          BY <3>2
      <3>3. CASE i # 0 /\ i # n + 1
        <4>1. i \in 0..n /\ i - 1 \in 0..n /\ i - 1 # n + 1 /\ i - 1 \in 0..n+1
            BY <3>3
        <4>2. g[i] = f[i] /\ g[i-1] = f[i-1]
            BY <3>3, <4>1
        <4> QED
            BY <2>1, <3>3, <4>1, <4>2
      <3> QED
          BY <3>1, <3>2, <3>3
    <2>3. g = Body(g, n + 1)
        BY <2>2
    <2>4. \E h : h = Body(h, n + 1)
      <3> HIDE DEF g, Body
      <3> QED
          BY <2>3
    <2>5. n + 1 \in Nat
        BY <1>2
    <2> QED
        BY <2>4, <2>5
  <1>3. Len(events) \in Good
    <2> HIDE DEF Good
    <2> QED
        BY <1>1, <1>2, SetInduction
  <1>4. PICK f : f = Body(f, Len(events))
      BY <1>3
  <1> DEFINE P == Projections(s, t, events, b)
  <1>5. P = CHOOSE g : g = Body(g, Len(events))
      BY DEF Projections, Step, Base
  <1>6. P = Body(P, Len(events))
      BY <1>4, <1>5
  <1> QED
      BY <1>6 DEF Step, Base

(* One event moves the task row on.                                        *)
LEMMA ProjectedStep ==
    ASSUME NEW s, NEW t, NEW events, NEW b, Len(events) \in Nat,
           NEW i \in 1..Len(events)
    PROVE  Projections(s, t, events, b)[i].task
             = ProjectTask(Projections(s, t, events, b)[i-1].task, events[i].kind, b)
  <1> DEFINE P == Projections(s, t, events, b)
             x == ProjectTask(P[i-1].task, events[i].kind, b)
             y == ProjectTurn(P[i-1].turn, events[i].kind, x)
  <1>1. /\ P[0] = [task |-> s, turn |-> t]
        /\ \A j \in 1..Len(events) :
              P[j] = [task |-> ProjectTask(P[j-1].task, events[j].kind, b),
                      turn |-> ProjectTurn(P[j-1].turn, events[j].kind,
                                 ProjectTask(P[j-1].task, events[j].kind, b))]
      BY ProjectionsUnfold
  <1> HIDE DEF P
  <1>2. P[i] = [task |-> x, turn |-> y]
      BY <1>1, Zenon
  <1>3. [task |-> x, turn |-> y].task = x
      OBVIOUS
  <1> QED
      BY <1>2, <1>3 DEF P

(* What every event of a batch from the l-th on preserves, that part of    *)
(* the batch preserves.                                                    *)
LEMMA ProjectedFrom ==
    ASSUME NEW s, NEW t, NEW events, NEW b, Len(events) \in Nat,
           NEW l \in 0..Len(events), NEW m \in l..Len(events), NEW S,
           Projections(s, t, events, b)[l].task \in S,
           \A x \in S : \A i \in l+1..m : ProjectTask(x, events[i].kind, b) \in S
    PROVE  Projections(s, t, events, b)[m].task \in S
  <1> DEFINE P == Projections(s, t, events, b)
             Good == {n \in Nat : l + n <= m => P[l + n].task \in S}
  <1>1. \A i \in 1..Len(events) :
           P[i].task = ProjectTask(P[i-1].task, events[i].kind, b)
      BY ProjectedStep
  <1>0. P[l].task \in S
      OBVIOUS
  <1> HIDE DEF P
  <1>2. 0 \in Good
      BY <1>0
  <1>3. ASSUME NEW n \in Nat, n \in Good PROVE n + 1 \in Good
    <2> SUFFICES ASSUME l + (n + 1) <= m PROVE P[l + (n + 1)].task \in S
        OBVIOUS
    <2> DEFINE i == l + (n + 1)
    <2>1. /\ l + n <= m /\ i \in l+1..m /\ i \in 1..Len(events)
          /\ i - 1 = l + n
        OBVIOUS
    <2>2. P[l + n].task \in S
        BY <1>3, <2>1
    <2> HIDE DEF i
    <2>3. P[i].task = ProjectTask(P[l + n].task, events[i].kind, b)
        BY <1>1, <2>1
    <2>4. P[i].task \in S
        BY <2>1, <2>2, <2>3
    <2> QED
        BY <2>4 DEF i
  <1>4. m - l \in Nat /\ l + (m - l) = m /\ m <= m
      OBVIOUS
  <1>5. m - l \in Good
    <2> HIDE DEF Good
    <2> QED
        BY <1>2, <1>3, <1>4, SetInduction
  <1> QED
      BY <1>4, <1>5 DEF P

(* The same from its beginning.                                            *)
LEMMA ProjectedWithin ==
    ASSUME NEW s, NEW t, NEW events, NEW b, Len(events) \in Nat,
           NEW m \in 0..Len(events), NEW S, s \in S,
           \A x \in S : \A i \in 1..m : ProjectTask(x, events[i].kind, b) \in S
    PROVE  Projections(s, t, events, b)[m].task \in S
  <1> DEFINE P == Projections(s, t, events, b)
  <1>1. P[0] = [task |-> s, turn |-> t]
      BY ProjectionsUnfold
  <1>2. [task |-> s, turn |-> t].task = s
      OBVIOUS
  <1>3. P[0].task \in S
      BY <1>1, <1>2
  <1>4. 0 \in 0..Len(events) /\ m \in 0..Len(events) /\ 0 + 1 = 1
      OBVIOUS
  <1> QED
      BY <1>3, <1>4, ProjectedFrom

(* The last event of a batch, on the row that the others have projected.   *)
LEMMA BatchUnfold ==
    ASSUME CommitBatch, pending \in Seq(Rows)
    PROVE  LET P == Projections(task, turn, pending, barrier)
           IN  /\ task' = P[Len(pending)].task
               /\ \A i \in 1..Len(pending) :
                     P[i].task = ProjectTask(P[i-1].task, pending[i].kind, barrier)
  <1> DEFINE P == Projections(task, turn, pending, barrier)
  <1>1. PICK s \in TaskStatuses, t \in TurnStatuses :
            /\ [task |-> s, turn |-> t] = ProjectBatch(task, turn, pending, barrier)
            /\ task' = s
      BY DEF CommitBatch
  <1>2. [task |-> s, turn |-> t].task = s
      OBVIOUS
  <1>3. task' = P[Len(pending)].task
      BY <1>1, <1>2 DEF ProjectBatch
  <1>4. ASSUME NEW i \in 1..Len(pending)
        PROVE  P[i].task = ProjectTask(P[i-1].task, pending[i].kind, barrier)
    <2>1. Len(pending) \in Nat
        OBVIOUS
    <2> QED
        BY <2>1, ProjectedStep
  <1> QED
      BY <1>3, <1>4

(* The task row after a batch whose events all preserve S.                 *)
LEMMA BatchWithin ==
    ASSUME CommitBatch, pending \in Seq(Rows), NEW S, task \in S,
           \A x \in S : \A i \in 1..Len(pending) :
                ProjectTask(x, pending[i].kind, barrier) \in S
    PROVE  task' \in S
  <1>1. Len(pending) \in Nat /\ Len(pending) \in 0..Len(pending)
      OBVIOUS
  <1>2. Projections(task, turn, pending, barrier)[Len(pending)].task \in S
      BY <1>1, ProjectedWithin
  <1> QED
      BY <1>2, BatchUnfold

(* A batch that is committed is a suffix of the ledger.                    *)
LEMMA BatchIsStored ==
    ASSUME CommitBatch, pending \in Seq(Rows), ledger \in Seq(Rows)
    PROVE  /\ Len(ledger') = Len(ledger) + Len(pending)
           /\ \A i \in 1..Len(pending) : ledger'[Len(ledger) + i] = pending[i]
  <1>1. ledger' = ledger \o pending
      BY DEF CommitBatch, WithRows
  <1> QED
      BY <1>1

(* The steps that write the ledger or the task row.                        *)
LEMMA RowWriters ==
    ASSUME [Next]_vars
    PROVE  \/ UNCHANGED <<ledger, task>>
           \/ CommitBatch \/ CommitCheckpoint \/ ClaimFailure
           \/ ExecutorProgress \/ SuspendForInteraction \/ AnswerInteraction
           \/ ResumeFromCheckpoint \/ ReconcileFailedStop \/ FinalizeTurn
  <1> USE DEF durableVars
  <1>1. ASSUME NEW k \in Kinds, Submit(k) PROVE UNCHANGED <<ledger, task>>
      BY <1>1 DEF Submit
  <1>2. CASE PublishEphemeral
      BY <1>2 DEF PublishEphemeral
  <1>3. CASE \/ RecvDurable \/ RecvPreview \/ RecvPause \/ FlushTick
             \/ CommitFails \/ CommitRefused \/ CheckpointRefused
      BY <1>3 DEF RecvDurable, RecvPreview, RecvPause, FlushTick,
            CommitFails, CommitRefused, CheckpointRefused
  <1>4. CASE \/ DeliverBatch \/ DeliverBeforePreview \/ DeliverBeforePause
             \/ DeliverCheckpoint \/ BeginDrain \/ DrainCommand \/ DrainEnds
             \/ DeliverFailure \/ ClaimLost \/ ClaimFails
      BY <1>4 DEF DeliverBatch, DeliverBeforePreview, DeliverBeforePause,
            DeliverCheckpoint, BeginDrain, DrainCommand, DrainEnds, DeliverFailure,
            ClaimLost, ClaimFails
  <1>5. CASE \/ FenceExecutor \/ FlushedForPause \/ PauseWithCheckpoint
             \/ PauseRejected \/ PauseAbandoned \/ ResumeSubmissions
             \/ ResumeRejected \/ LaunchSuperseded \/ CreateInteraction
             \/ WithdrawInteraction
      BY <1>5 DEF FenceExecutor, FlushedForPause, PauseWithCheckpoint,
            PauseRejected, PauseAbandoned, ResumeSubmissions, ResumeRejected,
            LaunchSuperseded, CreateInteraction, WithdrawInteraction
  <1>6. CASE \/ BeginStop \/ StopFindsClosed \/ CancelInteractions
             \/ StopAbandoned \/ StopEnds \/ ExecutorFinalizesTurn
             \/ ExecutorReturns \/ Open
      BY <1>6 DEF BeginStop, StopFindsClosed, CancelInteractions,
            StopAbandoned, StopEnds, ExecutorFinalizesTurn, ExecutorReturns, Open
  <1>7. CASE UNCHANGED vars
      BY <1>7 DEF vars
  <1> QED
      BY <1>1, <1>2, <1>3, <1>4, <1>5, <1>6, <1>7 DEF Next, Producer, Actor, Host

(* No step lifts the wait for the user.                                    *)
BarrierStep ==
    task = "awaiting_user_input" /\ executor \in {"asked", "ended"} /\ barrier /\ barrier'
        => \/ task' \in {"awaiting_user_input"} \cup TerminalStatuses
           \/ StoresStop

LEMMA BarrierHeld ==
    ASSUME TypeOK, [Next]_vars
    PROVE  BarrierStep
  <1> SUFFICES ASSUME task = "awaiting_user_input", executor \in {"asked", "ended"},
                      barrier, barrier'
               PROVE  \/ task' \in {"awaiting_user_input"} \cup TerminalStatuses
                      \/ StoresStop
      BY DEF BarrierStep
  <1> DEFINE Goal == \/ task' \in {"awaiting_user_input"} \cup TerminalStatuses
                     \/ StoresStop
  <1>1. task' = task => Goal
      OBVIOUS
  <1>2. CASE CommitBatch
    <2> SUFFICES ASSUME ~StoresStop
                 PROVE  task' \in {"awaiting_user_input"} \cup TerminalStatuses
        OBVIOUS
    <2>1. pending \in Seq(Rows) /\ ledger \in Seq(Rows)
        BY DEF TypeOK, TypeRows
    <2>2. ASSUME NEW i \in 1..Len(pending) PROVE pending[i].kind # "cancelling"
      <3>1. /\ Len(ledger') = Len(ledger) + Len(pending)
            /\ ledger'[Len(ledger) + i] = pending[i]
          BY <1>2, <2>1, BatchIsStored
      <3>2. Len(ledger) \in Nat /\ Len(pending) \in Nat
          BY <2>1
      <3>3. Len(ledger) + i \in Len(ledger)+1..Len(ledger')
          BY <3>1, <3>2
      <3> QED
          BY <3>1, <3>3 DEF StoresStop
    <2> DEFINE S == {"awaiting_user_input"} \cup TerminalStatuses
    <2>3. ASSUME NEW x \in S, NEW i \in 1..Len(pending)
          PROVE  ProjectTask(x, pending[i].kind, barrier) \in S
      <3>1. pending[i].kind # "cancelling"
          BY <2>2
      <3> QED
          BY <3>1 DEF ProjectTask, OverridesBarrier, AwaitsUser, ClosesRun, AskedStatus,
                      TerminalStatuses
    <2> HIDE DEF S
    <2>4. task \in S
        BY DEF S
    <2>5. task' \in S
        BY <1>2, <2>1, <2>3, <2>4, BatchWithin
    <2> QED
        BY <2>5 DEF S
  <1>3. CASE CommitCheckpoint
      BY <1>3 DEF CommitCheckpoint, CanCheckpoint
  <1>4. CASE ClaimFailure
      BY <1>4 DEF ClaimFailure, TerminalStatuses
  <1>5. CASE ExecutorProgress
      BY <1>5 DEF ExecutorProgress
  <1>6. CASE SuspendForInteraction
      BY <1>6 DEF SuspendForInteraction
  <1>7. CASE AnswerInteraction
      BY <1>7 DEF AnswerInteraction
  <1>8. CASE ResumeFromCheckpoint
      BY <1>8 DEF ResumeFromCheckpoint
  <1>9. CASE ReconcileFailedStop
      BY <1>9 DEF ReconcileFailedStop, TerminalStatuses
  <1>10. CASE FinalizeTurn
      BY <1>10 DEF FinalizeTurn
  <1> HIDE DEF Goal
  <1>11. Goal
      BY <1>1, <1>2, <1>3, <1>4, <1>5, <1>6, <1>7, <1>8, <1>9, <1>10, RowWriters
         DEF Goal
  <1> QED
      BY <1>11 DEF Goal

(* BarrierHolds, for every instance: ordinary events, checkpoints, resumes *)
(* and direct writes never lift the wait for an answer once the executor   *)
(* has gone to wait for it.                                                *)
THEOREM BarrierIsKept == Spec => BarrierHolds
  <1>1. TypeOK /\ [Next]_vars => [BarrierStep]_vars
      BY BarrierHeld
  <1>2. [][BarrierStep]_vars => BarrierHolds
      BY PTL DEF BarrierStep, BarrierHolds
  <1> QED
      BY <1>1, <1>2, TypeCorrect, PTL DEF Spec

----------------------------------------------------------------------------
(*                   A checkpoint is a clean boundary                      *)

(* No tool has asked the user: nobody waits, is stopped while waiting, or  *)
(* has a cancelling event in the outbox.                                   *)
Unasked ==
    /\ ~barrier /\ executor # "asked"
    /\ task \notin {"awaiting_user_input", "cancelling"}
    /\ lifecycle \in {"free", "launch"}
    /\ \A i \in 1..Len(queue) : queue[i] # "cancelling"
    /\ \A i \in 1..Len(pending) : pending[i].kind # "cancelling"

(* Only the checkpoint's own transaction stores a paused event.            *)
BatchUnpaused ==
    /\ pc # "deliver" => \A i \in 1..Len(pending) : pending[i].kind # "paused"
    /\ pc = "commit" => after # "paused"

(* A paused run is taken out of the pause before its launch goes on, and a *)
(* pause fences the executor before it flushes.                            *)
PauseExcludesExecutor ==
    /\ executor # "ended" \/ lifecycle = "launch" => task # "paused"
    /\ pauseReply \in {"flushing", "flushed"} =>
            executor = "ended" /\ lifecycle = "free" /\ task # "paused"

(* The checkpoint command is in the queue, or the actor has taken it.      *)
PauseQueued == \E i \in 1..Len(queue) : queue[i] = "pause"
PauseTaken == pc = "pause" \/ (after = "pause" /\ pc \in {"commit", "deliver"})

(* It is the last command that the outbox accepts, and one is under way at *)
(* a time.                                                                 *)
CheckpointIsLast ==
    /\ Live /\ (PauseQueued \/ PauseTaken) =>
            /\ submissionsPaused /\ pauseReply = "waiting"
            /\ executor = "ended" /\ lifecycle = "free" /\ task # "paused"
            /\ \A i \in 1..Len(queue) : queue[i] = "pause" => i = Len(queue)
            /\ PauseTaken => queue = <<>>
    /\ pc = "deliver" /\ after = "paused" => pauseReply = "waiting" /\ ~PauseQueued

Quiescent ==
    task = "paused" /\ lifecycle # "launch" =>
        /\ ledger # <<>> /\ ledger[Len(ledger)].kind = "paused"
        /\ Live => queue = <<>> /\ (pc # "deliver" => pending = <<>>)

PauseInv ==
    /\ Unasked /\ BatchUnpaused /\ PauseExcludesExecutor /\ CheckpointIsLast
    /\ Quiescent
UnaskedPauseInv == interactions = 0 => PauseInv

(* The host's and the executor's own steps.                                *)
LEMMA PauseInvQuietStep ==
    ASSUME TypeOK, interactions = 0, interactions' = 0, PauseInv, Quiet
    PROVE  PauseInv'
  <1> USE DEF PauseInv, Unasked, BatchUnpaused, PauseExcludesExecutor,
              CheckpointIsLast, Quiescent, PauseQueued, PauseTaken, Live,
              sharedVars, actorVars, durableVars, seenVars, hostVars, boundVars
  <1>0. /\ ledger' = ledger /\ queue' = queue /\ pending' = pending
        /\ pc' = pc /\ after' = after
      BY QuietFrame
  <1>1. CASE FenceExecutor
      BY <1>0, <1>1 DEF FenceExecutor, PauseUnderWay, PausableStatuses
  <1>2. CASE FlushedForPause
      BY <1>0, <1>2 DEF FlushedForPause
  <1>3. CASE PauseRejected
      BY <1>0, <1>3 DEF PauseRejected
  <1>4. CASE PauseAbandoned
      BY <1>0, <1>4 DEF PauseAbandoned
  <1>5. CASE ReconcileFailedStop
      BY <1>0, <1>5 DEF ReconcileFailedStop
  <1>6. CASE ResumeFromCheckpoint
      BY <1>0, <1>6 DEF ResumeFromCheckpoint, Requeue
  <1>7. CASE ResumeSubmissions
      BY <1>0, <1>7 DEF ResumeSubmissions, PauseUnderWay
  <1>8. CASE ResumeRejected
      BY <1>0, <1>8 DEF ResumeRejected
  <1>9. CASE LaunchSuperseded
      BY <1>0, <1>9 DEF LaunchSuperseded
  <1>10. CASE CreateInteraction
      BY <1>0, <1>10 DEF CreateInteraction
  <1>11. CASE SuspendForInteraction
      BY <1>0, <1>11 DEF SuspendForInteraction
  <1>12. CASE AnswerInteraction
      BY <1>0, <1>12 DEF AnswerInteraction
  <1>13. CASE BeginStop
      BY <1>0, <1>13 DEF BeginStop
  <1>14. CASE StopFindsClosed
      BY <1>0, <1>14 DEF StopFindsClosed
  <1>15. CASE CancelInteractions
      BY <1>0, <1>15 DEF CancelInteractions
  <1>16. CASE StopAbandoned
      BY <1>0, <1>16 DEF StopAbandoned
  <1>17. CASE StopEnds
      BY <1>0, <1>17 DEF StopEnds
  <1>18. CASE ExecutorProgress
      BY <1>0, <1>18 DEF ExecutorProgress
  <1>19. CASE ExecutorFinalizesTurn
      BY <1>0, <1>19 DEF ExecutorFinalizesTurn
  <1>20. CASE ExecutorReturns
      BY <1>0, <1>20 DEF ExecutorReturns
  <1>21. CASE FinalizeTurn
      BY <1>0, <1>21 DEF FinalizeTurn
  <1>22. CASE UNCHANGED vars
      BY <1>0, <1>22 DEF vars
  <1>23. CASE WithdrawInteraction
      BY <1>0, <1>23 DEF WithdrawInteraction
  <1> QED
      BY <1>1, <1>2, <1>3, <1>4, <1>5, <1>6, <1>7, <1>8, <1>9, <1>10, <1>11, <1>12, <1>13, <1>14, <1>15, <1>16, <1>17, <1>18, <1>19, <1>20, <1>21, <1>22, <1>23 DEF Quiet

(* Where the members of an extended and of a shortened queue come from.    *)
LEMMA QueueExtended ==
    ASSUME NEW S, NEW q \in Seq(S), NEW k \in S
    PROVE  /\ Len(Append(q, k)) = Len(q) + 1 /\ Len(q) \in Nat
           /\ \A i \in 1..Len(Append(q, k)) :
                 \/ i \in 1..Len(q) /\ Append(q, k)[i] = q[i]
                 \/ i = Len(q) + 1 /\ Append(q, k)[i] = k
  OBVIOUS

LEMMA QueueShortened ==
    ASSUME NEW S, NEW q \in Seq(S), q # <<>>
    PROVE  /\ Len(Tail(q)) = Len(q) - 1 /\ Len(q) \in Nat \ {0}
           /\ Head(q) = q[1]
           /\ \A i \in 1..Len(Tail(q)) :
                 i + 1 \in 1..Len(q) /\ Tail(q)[i] = q[i + 1]
  OBVIOUS

(* The steps of the producers and of the actor.                            *)
LEMMA PauseInvStep ==
    ASSUME TypeOK, CoreInv, interactions = 0, interactions' = 0, PauseInv, [Next]_vars
    PROVE  PauseInv'
  <1> USE DEF PauseInv, Unasked, BatchUnpaused, PauseExcludesExecutor,
              CheckpointIsLast, Quiescent, PauseQueued, PauseTaken, Live,
              sharedVars, actorVars, durableVars, seenVars, hostVars, boundVars
  <1>0. /\ ledger \in Seq(Rows) /\ pending \in Seq(Rows)
        /\ queue \in Seq(EventKinds \cup {"pause"})
      BY DEF TypeOK, TypeRows
  <1>1. ASSUME NEW k \in Kinds, Submit(k) PROVE PauseInv'
    <2>1. k # "pause" /\ k # "cancelling" /\ k \in EventKinds \cup {"pause"}
        BY <1>1, ConstantsAssumption DEF Submit, MayProduce, EventKinds, TerminalStatuses
    <2>2. ~submissionsPaused /\ Live
        BY <1>1 DEF Submit, SubmissionOpen
    <2>3. ~PauseQueued /\ ~PauseTaken
        BY <2>2
    <2>4. task = "paused" => lifecycle = "launch"
        BY <1>1, <2>1 DEF Submit, MayProduce
    <2>5. UNCHANGED <<ledger, pending, task, barrier, pc, after, pauseReply, lifecycle>>
        BY <1>1, <2>1 DEF Submit
    <2>6. executor' \in {executor, "ended"}
        BY <1>1 DEF Submit
    <2>7. queue' = queue \/ queue' = Append(queue, k)
        BY <1>1 DEF Submit, SaturateQueue, Enqueue
    <2>8. \A i \in 1..Len(queue') : queue'[i] # "pause" /\ queue'[i] # "cancelling"
      <3>1. CASE queue' = queue
          BY <2>3, <3>1
      <3>2. CASE queue' = Append(queue, k)
          BY <1>0, <2>1, <2>3, <3>2, QueueExtended
      <3> QED
          BY <2>7, <3>1, <3>2
    <2> QED
        BY <2>3, <2>4, <2>5, <2>6, <2>8
  <1>2. CASE PublishEphemeral
    <2>1. ~submissionsPaused /\ Live /\ executor = "running"
        BY <1>2 DEF PublishEphemeral, SubmissionOpen
    <2>2. ~PauseQueued /\ ~PauseTaken
        BY <2>1
    <2>3. task # "paused"
        BY <2>1
    <2>4. UNCHANGED <<ledger, pending, task, barrier, pc, after, pauseReply, lifecycle,
                      executor>>
        BY <1>2 DEF PublishEphemeral
    <2>5. queue' = queue \/ queue' = Append(queue, "preview")
        BY <1>2 DEF PublishEphemeral, Enqueue
    <2>6. \A i \in 1..Len(queue') : queue'[i] # "pause" /\ queue'[i] # "cancelling"
      <3>1. CASE queue' = queue
          BY <2>2, <3>1
      <3>2. CASE queue' = Append(queue, "preview")
        <4>1. "preview" \in EventKinds \cup {"pause"}
            BY DEF EventKinds
        <4> QED
            BY <1>0, <2>2, <3>2, <4>1, QueueExtended
      <3> QED
          BY <2>5, <3>1, <3>2
    <2> QED
        BY <2>2, <2>3, <2>4, <2>6
  <1>3. CASE PauseWithCheckpoint
    <2>1. ~submissionsPaused /\ Live /\ pauseReply = "flushed"
        BY <1>3 DEF PauseWithCheckpoint, SubmissionOpen
    <2>2. ~PauseQueued /\ ~PauseTaken
        BY <2>1
    <2>3. executor = "ended" /\ lifecycle = "free" /\ task # "paused"
        BY <2>1
    <2>4. UNCHANGED <<ledger, pending, task, barrier, pc, after, lifecycle, executor>>
        BY <1>3 DEF PauseWithCheckpoint
    <2>5. ~(pc = "deliver" /\ after = "paused")
        BY <2>1
    <2>6. CASE queue' = queue /\ pauseReply' = "failed"
        BY <2>2, <2>3, <2>4, <2>5, <2>6
    <2>7. CASE queue' = Append(queue, "pause") /\ pauseReply' = "waiting"
      <3>1. submissionsPaused'
          BY <1>3 DEF PauseWithCheckpoint
      <3>2. \A i \in 1..Len(queue') :
               queue'[i] # "cancelling" /\ (queue'[i] = "pause" => i = Len(queue'))
          BY <1>0, <2>2, <2>7, QueueExtended
      <3> QED
          BY <2>2, <2>3, <2>4, <2>5, <2>7, <3>1, <3>2
    <2> QED
        BY <1>3, <2>6, <2>7 DEF PauseWithCheckpoint, SaturateQueue, Enqueue
  <1>4. CASE RecvDurable
    <2> DEFINE row == Row(sequence + 1, Head(queue))
    <2>1. /\ pc = "recv" /\ queue # <<>> /\ queue' = Tail(queue)
          /\ Head(queue) \notin {"preview", "pause"}
          /\ pending' = Append(pending, row)
          /\ UNCHANGED <<ledger, task, barrier, pauseReply, lifecycle, executor,
                         submissionsPaused>>
        BY <1>4 DEF RecvDurable, NextSequence
    <2>2. \/ pc' = "commit" /\ after' \in {"terminal", "loop"}
          \/ UNCHANGED <<pc, after>>
        BY <1>4 DEF RecvDurable
    <2>3. /\ Len(Tail(queue)) = Len(queue) - 1 /\ Len(queue) \in Nat \ {0}
          /\ Head(queue) = queue[1]
          /\ \A i \in 1..Len(Tail(queue)) :
                 i + 1 \in 1..Len(queue) /\ Tail(queue)[i] = queue[i + 1]
        BY <1>0, <2>1, QueueShortened
    <2>4. ASSUME NEW i \in 1..Len(queue')
          PROVE  /\ queue'[i] # "cancelling"
                 /\ queue'[i] = "pause" => PauseQueued /\ i = Len(queue')
      <3>1. i + 1 \in 1..Len(queue) /\ queue'[i] = queue[i + 1]
          BY <2>1, <2>3
      <3>2. queue[i + 1] # "cancelling"
          BY <3>1
      <3>3. queue[i + 1] = "pause" => PauseQueued
          BY <3>1
      <3>4. queue[i + 1] = "pause" => i + 1 = Len(queue)
          BY <2>1, <3>1, <3>3
      <3>5. Len(queue') = Len(queue) - 1
          BY <2>1, <2>3
      <3>6. i \in Int /\ Len(queue) \in Int
          BY <1>0
      <3>7. i + 1 = Len(queue) => i = Len(queue')
          BY <3>5, <3>6
      <3> HIDE DEF PauseQueued
      <3> QED
          BY <3>1, <3>2, <3>3, <3>4, <3>7
    <2>5. Head(queue) \in EventKinds /\ Head(queue) # "paused" /\ Head(queue) # "cancelling"
      <3>0. 1 \in 1..Len(queue)
          BY <1>0, <2>1
      <3>1. Head(queue) \in EventKinds \cup {"pause"}
          BY <1>0, <2>1, QueueTyped
      <3>2. Head(queue) # "cancelling"
          BY <2>3, <3>0
      <3> QED
          BY <2>1, <3>1, <3>2 DEF EventKinds, TerminalStatuses
    <2>6. sequence + 1 \in Nat
        BY DEF TypeOK, TypeNumbers
    <2>7. row \in Rows /\ row.kind = Head(queue)
        BY <2>1, <2>5, <2>6 DEF Row, Rows, DurableKinds
    <2>8. \A i \in 1..Len(pending') :
             pending'[i].kind # "cancelling" /\ pending'[i].kind # "paused"
      <3> HIDE DEF row
      <3> QED
          BY <1>0, <2>1, <2>5, <2>7, QueueExtended
    <2>9. ~(task = "paused" /\ lifecycle # "launch")
        BY <2>1
    <2>10. ~PauseTaken /\ ~PauseTaken'
        BY <2>1, <2>2
    <2> HIDE DEF row
    <2> QED
        BY <2>1, <2>2, <2>4, <2>8, <2>9, <2>10
  <1>5. CASE RecvPreview
      BY <1>0, <1>5 DEF RecvPreview, NextSequence
  <1>6. CASE RecvPause
      BY <1>0, <1>6 DEF RecvPause, NextSequence
  <1>7. CASE FlushTick
      BY <1>0, <1>7 DEF FlushTick
  <1>8. CASE CommitFails
      BY <1>0, <1>8 DEF CommitFails, BeginFailClosed
  <1>9. CASE CommitRefused
      BY <1>0, <1>9 DEF CommitRefused, BeginFailClosed
  <1>10. CASE CommitCheckpoint
      BY <1>0, <1>10 DEF CommitCheckpoint, ProjectTask, LeavesTask, CanCheckpoint, Row, TerminalStatuses, PausableStatuses, AskedStatus
  <1>11. CASE CheckpointRefused
      BY <1>0, <1>11 DEF CheckpointRefused, BeginFailClosed
  <1>12. CASE DeliverBatch
      BY <1>0, <1>12 DEF DeliverBatch
  <1>13. CASE DeliverBeforePreview
      BY <1>0, <1>13 DEF DeliverBeforePreview
  <1>14. CASE DeliverBeforePause
      BY <1>0, <1>14 DEF DeliverBeforePause
  <1>15. CASE DeliverCheckpoint
      BY <1>0, <1>15 DEF DeliverCheckpoint, AnswerPause
  <1>16. CASE BeginDrain
      BY <1>0, <1>16 DEF BeginDrain
  <1>17. CASE DrainCommand
    <2> DEFINE row == Row(sequence + 1, Head(queue))
    <2>1. /\ pc = "drain" /\ queue # <<>> /\ queue' = Tail(queue)
          /\ UNCHANGED <<ledger, task, barrier, pauseReply, lifecycle, executor,
                         submissionsPaused>>
        BY <1>17 DEF DrainCommand
    <2>2. \/ pc' = "commit" /\ after' = "drain"
          \/ UNCHANGED <<pc, after>>
        BY <1>17 DEF DrainCommand
    <2>3. /\ Len(Tail(queue)) = Len(queue) - 1 /\ Len(queue) \in Nat \ {0}
          /\ Head(queue) = queue[1]
          /\ \A i \in 1..Len(Tail(queue)) :
                 i + 1 \in 1..Len(queue) /\ Tail(queue)[i] = queue[i + 1]
        BY <1>0, <2>1, QueueShortened
    <2>4. ASSUME NEW i \in 1..Len(queue')
          PROVE  /\ queue'[i] # "cancelling"
                 /\ queue'[i] = "pause" => PauseQueued /\ i = Len(queue')
      <3>1. i + 1 \in 1..Len(queue) /\ queue'[i] = queue[i + 1]
          BY <2>1, <2>3
      <3>2. queue[i + 1] # "cancelling"
          BY <3>1
      <3>3. queue[i + 1] = "pause" => PauseQueued
          BY <3>1
      <3>4. queue[i + 1] = "pause" => i + 1 = Len(queue)
          BY <2>1, <3>1, <3>3
      <3>5. Len(queue') = Len(queue) - 1
          BY <2>1, <2>3
      <3>6. i \in Int /\ Len(queue) \in Int
          BY <1>0
      <3>7. i + 1 = Len(queue) => i = Len(queue')
          BY <3>5, <3>6
      <3> HIDE DEF PauseQueued
      <3> QED
          BY <3>1, <3>2, <3>3, <3>4, <3>7
    <2>5. Head(queue) # "paused" /\ Head(queue) # "cancelling"
      <3>0. 1 \in 1..Len(queue)
          BY <1>0, <2>1
      <3>1. Head(queue) \in EventKinds \cup {"pause"}
          BY <1>0, <2>1, QueueTyped
      <3>2. Head(queue) # "cancelling"
          BY <2>3, <3>0
      <3> QED
          BY <3>1, <3>2 DEF EventKinds, TerminalStatuses
    <2>6. \A i \in 1..Len(pending') :
             pending'[i].kind # "cancelling" /\ pending'[i].kind # "paused"
      <3>1. CASE Head(queue) \in {"pause", "preview"}
          BY <1>17, <2>1, <3>1 DEF DrainCommand
      <3>2. CASE Head(queue) \notin {"pause", "preview"}
        <4>1. Head(queue) \in EventKinds
            BY <1>0, <2>1, <3>2, QueueTyped
        <4>2. sequence + 1 \in Nat
            BY DEF TypeOK, TypeNumbers
        <4>3. row \in Rows /\ row.kind = Head(queue)
            BY <3>2, <4>1, <4>2 DEF Row, Rows, DurableKinds
        <4>4. pending' = Append(pending, row)
            BY <1>17, <3>2 DEF DrainCommand, NextSequence
        <4> HIDE DEF row
        <4> QED
            BY <1>0, <2>1, <2>5, <4>3, <4>4, QueueExtended
      <3> QED
          BY <3>1, <3>2
    <2>7. ~(task = "paused" /\ lifecycle # "launch")
        BY <2>1
    <2>8. ~PauseTaken /\ ~PauseTaken'
        BY <2>1, <2>2
    <2> HIDE DEF row
    <2> QED
        BY <2>1, <2>2, <2>4, <2>6, <2>7, <2>8
  <1>18. CASE DrainEnds
      BY <1>0, <1>18 DEF DrainEnds, BeginFailClosed
  <1>19. CASE ClaimFailure
      BY <1>0, <1>19 DEF ClaimFailure
  <1>20. CASE DeliverFailure
    <2>1. /\ pc' = "stopped"
          /\ UNCHANGED <<ledger, queue, pending, task, barrier, lifecycle, executor>>
        BY <1>20 DEF DeliverFailure
    <2>2. pauseReply' \in {pauseReply, "failed"}
        BY <1>20 DEF DeliverFailure, FailWaiters, AnswerPause
    <2>3. pending = <<>>
        BY <1>20 DEF DeliverFailure, CoreInv, BatchDropped
    <2> QED
        BY <2>1, <2>2, <2>3
  <1>21. CASE ClaimLost
      BY <1>0, <1>21 DEF ClaimLost, AnswerPause
  <1>22. CASE ClaimFails
      BY <1>0, <1>22 DEF ClaimFails, FailWaiters, AnswerPause
  <1>23. CASE Open
      BY <1>0, <1>23 DEF Open, OpenOutbox, PauseUnderWay
  <1>24. CASE CommitBatch
    <2>1. /\ pc = "commit" /\ pc' = "deliver" /\ ledger' = ledger \o pending
          /\ UNCHANGED <<queue, pending, after, barrier, pauseReply, lifecycle,
                         executor, submissionsPaused>>
        BY <1>24 DEF CommitBatch, WithRows
    <2>2. after # "paused"
        BY <2>1
    <2> DEFINE S == TaskStatuses \ {"paused", "awaiting_user_input", "cancelling"}
    <2>3. ASSUME NEW x \in S, NEW i \in 1..Len(pending)
          PROVE  ProjectTask(x, pending[i].kind, barrier) \in S
      <3>1. pending[i] \in Rows
          BY <1>0
      <3>2. /\ pending[i].kind \in DurableKinds
            /\ pending[i].kind # "paused" /\ pending[i].kind # "cancelling"
          BY <2>1, <3>1 DEF Rows
      <3> QED
          BY <3>2 DEF ProjectTask, AwaitsUser, LeavesTask, AskedStatus, DurableKinds, EventKinds,
                      TaskStatuses, TerminalStatuses
    <2>4. CASE task # "paused"
      <3> HIDE DEF S
      <3>1. task \in S
          BY <2>4 DEF S, TypeOK, TypeStates
      <3>2. task' \in S
          BY <1>0, <1>24, <2>3, <3>1, BatchWithin
      <3>3. task' \notin {"paused", "awaiting_user_input", "cancelling"}
          BY <3>2 DEF S
      <3> QED
          BY <2>1, <2>2, <2>4, <3>3
    <2>5. CASE task = "paused"
      <3>1. lifecycle # "launch" /\ pending = <<>> /\ queue = <<>>
          BY <2>1, <2>5
      <3>2. ledger' = ledger
          BY <1>0, <2>1, <3>1
      <3>3. \A x \in {"paused"} : \A i \in 1..Len(pending) :
                ProjectTask(x, pending[i].kind, barrier) \in {"paused"}
          BY <3>1
      <3>4. task' \in {"paused"}
          BY <1>0, <1>24, <2>5, <3>3, BatchWithin
      <3> QED
          BY <2>1, <2>2, <2>5, <3>1, <3>2, <3>4
    <2> QED
        BY <2>4, <2>5
  <1>25. CASE Quiet
      BY <1>25, PauseInvQuietStep
  <1> QED
      BY <1>1, <1>2, <1>3, <1>4, <1>5, <1>6, <1>7, <1>8, <1>9, <1>10, <1>11, <1>12, <1>13, <1>14, <1>15, <1>16, <1>17, <1>18, <1>19, <1>20, <1>21, <1>22, <1>23, <1>24, <1>25
         DEF Next, Producer, Actor, Host, Quiet

(* Requests to the user are only ever added.                               *)
LEMMA RequestsAreCounted ==
    ASSUME TypeOK, [Next]_vars, interactions' = 0
    PROVE  interactions = 0
  <1>1. interactions \in Nat
      BY DEF TypeOK, TypeNumbers
  <1>2. interactions' = interactions \/ interactions' = interactions + 1
    <2> USE DEF boundVars
    <2>1. CASE Producer
        BY <2>1 DEF Producer, Submit, PublishEphemeral
    <2>2. CASE Actor
        BY <2>2 DEF Actor, RecvDurable, RecvPreview, RecvPause, FlushTick, CommitBatch,
              CommitFails, CommitRefused, CommitCheckpoint, CheckpointRefused,
              DeliverBatch, DeliverBeforePreview, DeliverBeforePause, DeliverCheckpoint,
              BeginDrain, DrainCommand, DrainEnds, ClaimFailure, DeliverFailure,
              ClaimLost, ClaimFails
    <2>3. CASE Host
        BY <2>3 DEF Host, FenceExecutor, FlushedForPause, PauseWithCheckpoint,
              PauseRejected, PauseAbandoned, ReconcileFailedStop, ResumeFromCheckpoint,
              ResumeSubmissions, ResumeRejected, LaunchSuperseded, CreateInteraction,
              WithdrawInteraction, SuspendForInteraction, AnswerInteraction, BeginStop, StopFindsClosed,
              CancelInteractions, StopAbandoned, StopEnds, ExecutorProgress,
              ExecutorFinalizesTurn, ExecutorReturns, FinalizeTurn, Open
    <2>4. CASE UNCHANGED vars
        BY <2>4 DEF vars
    <2> QED
        BY <2>1, <2>2, <2>3, <2>4 DEF Next
  <1> QED
      BY <1>1, <1>2

(* The invariant holds as long as no tool has asked the user.              *)
LEMMA UnaskedPauseCorrect == Spec => []UnaskedPauseInv
  <1>1. Init => UnaskedPauseInv
      BY DEF Init, UnaskedPauseInv, PauseInv, Unasked, BatchUnpaused,
             PauseExcludesExecutor, CheckpointIsLast, Quiescent, PauseQueued,
             PauseTaken, Live
  <1>2. TypeOK /\ CoreInv /\ UnaskedPauseInv /\ [Next]_vars => UnaskedPauseInv'
    <2> SUFFICES ASSUME TypeOK, CoreInv, UnaskedPauseInv, [Next]_vars, interactions' = 0
                 PROVE  PauseInv'
        BY DEF UnaskedPauseInv
    <2>1. interactions = 0
        BY RequestsAreCounted
    <2>2. PauseInv
        BY <2>1 DEF UnaskedPauseInv
    <2> QED
        BY <2>1, <2>2, PauseInvStep
  <1> QED
      BY <1>1, <1>2, CoreCorrect, PTL DEF Spec

(* PausedIsQuiescent, for every capacity, batch size and fault, as long as *)
(* no tool has asked the user.  (With a question, the answer's launch may  *)
(* overtake the checkpoint of a stop: see CheckpointIsFenced.)             *)
THEOREM CheckpointIsClean == Spec => [](interactions = 0 => PausedIsQuiescent)
  <1>1. UnaskedPauseInv => (interactions = 0 => PausedIsQuiescent)
      BY DEF UnaskedPauseInv, PauseInv, Quiescent, PausedIsQuiescent
  <1> QED
      BY <1>1, UnaskedPauseCorrect, PTL
=============================================================================
