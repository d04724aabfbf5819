-------------------------- MODULE Delegation_proof --------------------------
(***************************************************************************)
(* Theorems about Delegation, for every set of calls, limit, batch and     *)
(* number of failures: the types, the call limit with its reserved share,  *)
(* the books of the shared budget, the bounds on parallel work, the waits  *)
(* that are woken, and the agreement of a worker's handle, row and outcome. *)
(***************************************************************************)
EXTENDS Delegation, FiniteSetTheorems, WellFoundedInduction, TLAPS

Positions == Holding \cup {"absent", "idle", "launching", "preparing", "queued", "returning",
                            "settling", "notifying", "done"}
Rows == {"none", "queued", "running", "completed", "failed", "cancelled", "timed_out"}

(* The part of TypeOK the proofs use.                                      *)
Typed ==
    /\ limits \in Limits /\ request \in Requests
    /\ calls \in Nat /\ verifications \in Nat /\ judgements \in Nat
    /\ pc \in [Calls -> Positions]
    /\ outcome \in [Calls -> Ran \cup {"none", "unstarted"}]
    /\ verdict \in [Workers -> Ended \cup {"none"}]
    /\ handle \in [Workers -> Ended \cup Live \cup {"none", "closed"}]
    /\ waits \in [Workers -> {"no", "armed", "asleep", "woken"}]
    /\ row \in [Calls -> Rows]
    /\ \A c \in Calls : pc[c] = "accounting" => outcome[c] \in Ran

(* Where the records of a call stand while it is on its way.               *)
Story(c) ==
    /\ pc[c] \in {"absent", "idle", "launching", "preparing"} =>
          row[c] = "none" /\ outcome[c] = "none"
    /\ pc[c] \in {"queued", "granted", "charged", "starting", "executing"} =>
          row[c] # "completed" /\ outcome[c] = "none"
    /\ pc[c] = "accounting" => row[c] # "completed"
    /\ pc[c] \in {"returning", "settling", "notifying", "done"} =>
          /\ row[c] \notin {"queued", "running"} \/ c \in lost
          /\ c \notin lost => (row[c] = "completed" <=> outcome[c] = "ok")

HandleStory(w) ==
    /\ pc[w] = "settling" => (verdict[w] = "completed" <=> outcome[w] = "ok")
    /\ handle[w] \in Ended =>
          pc[w] \in {"notifying", "done"} /\ (handle[w] = "completed" <=> outcome[w] = "ok")

(* Nothing has happened to the workers of a batch that is still to come.   *)
Unspawned == batch = "none" => \A w \in Batch : pc[w] = "idle"

IStory ==
    /\ \A c \in Calls : Story(c)
    /\ \A w \in Workers : HandleStory(w)
    /\ Unspawned

-----------------------------------------------------------------------------
(* Types.                                                                  *)

(* A worker is a call and not a judge.                                     *)
LEMMA WorkersAreCalls ==
    /\ Workers \subseteq Calls /\ Judges \subseteq Calls /\ Workers \cap Judges = {}
    /\ Explorers \cup Verifiers = Workers
  BY CallAssumption DEF Workers, Calls

(* Taking back a charge keeps the counters natural numbers.                *)
LEMMA RollBackTyped ==
    ASSUME Typed, NEW d \in Calls, RollBack(d)
    PROVE  calls' \in Nat /\ verifications' \in Nat /\ judgements' \in Nat
  BY DEF Typed, RollBack, SaturatingSub

(* The initial values have their types.                                    *)
LEMMA TypedInit == ASSUME Init PROVE Typed
  BY LimitAssumption DEF Init, Typed, Requests, Positions, Rows, Holding

(* Every step keeps the types.                                             *)
LEMMA TypedStep == ASSUME Typed, [Next]_vars PROVE Typed'
  <1>1. ASSUME NEW d \in Calls, Begin(d) PROVE Typed'
      BY <1>1, WorkersAreCalls DEF Typed, Positions, Rows, Holding, Ended, Live, Ran,
          Begin, Go, WakeAll, budget, group
  <1>2. ASSUME NEW d \in Calls, BeginFails(d) PROVE Typed'
      BY <1>2, WorkersAreCalls DEF Typed, Positions, Rows, Holding, Ended, Live, Ran,
          BeginFails, Go, WakeAll, Fails, budget, group
  <1>3. ASSUME NEW d \in Calls, PrepareFails(d) PROVE Typed'
      BY <1>3, WorkersAreCalls DEF Typed, Positions, Rows, Holding, Ended, Live, Ran,
          PrepareFails, Go, Fails, budget, group
  <1>4. ASSUME NEW d \in Calls, Enqueue(d) PROVE Typed'
      BY <1>4, WorkersAreCalls DEF Typed, Positions, Rows, Holding, Ended, Live, Ran,
          Enqueue, Go, Asks, budget, group
  <1>5. ASSUME NEW d \in Calls, EnqueueRefused(d) PROVE Typed'
      BY <1>5, WorkersAreCalls DEF Typed, Positions, Rows, Holding, Ended, Live, Ran,
          EnqueueRefused, EndUnstarted, CloseRow, Go, After, Asks, budget, group
  <1>6. ASSUME NEW d \in Calls, Grant(d) PROVE Typed'
      BY <1>6, WorkersAreCalls DEF Typed, Positions, Rows, Holding, Ended, Live, Ran,
          Grant, Go, budget, group
  <1>7. ASSUME NEW d \in Calls, Charge(d) PROVE Typed'
      BY <1>7, WorkersAreCalls DEF Typed, Positions, Rows, Holding, Ended, Live, Ran,
          Charge, Pay, Go, LaneOf, budget, group
  <1>8. ASSUME NEW d \in Calls, ChargeRefused(d) PROVE Typed'
      BY <1>8, WorkersAreCalls DEF Typed, Positions, Rows, Holding, Ended, Live, Ran,
          ChargeRefused, EndUnstarted, CloseRow, Go, After, budget, group
  <1>9. ASSUME NEW d \in Calls, TakeSlot(d) PROVE Typed'
      BY <1>9, WorkersAreCalls DEF Typed, Positions, Rows, Holding, Ended, Live, Ran,
          TakeSlot, Go, budget, group
  <1>10. ASSUME NEW d \in Calls, Start(d) PROVE Typed'
      BY <1>10, WorkersAreCalls DEF Typed, Positions, Rows, Holding, Ended, Live, Ran,
          Start, Go, budget, group
  <1>11. ASSUME NEW d \in Calls, ExecutionEnds(d) PROVE Typed'
      BY <1>11, WorkersAreCalls DEF Typed, Positions, Rows, Holding, Ended, Live, Ran,
          ExecutionEnds, Go, budget, group
  <1>12. ASSUME NEW d \in Calls, Account(d) PROVE Typed'
      BY <1>12, WorkersAreCalls DEF Typed, Positions, Rows, Holding, Ended, Live, Ran,
          Account, Go, After, CloseRow, RowStatus, FinishCall, budget, group
  <1>13. ASSUME NEW d \in Calls, Decide(d) PROVE Typed'
      BY <1>13, WorkersAreCalls DEF Typed, Positions, Rows, Holding, Ended, Live, Ran,
          Decide, Go, VerdictOf, budget, group
  <1>14. ASSUME NEW d \in Calls, Finish(d) PROVE Typed'
      BY <1>14, WorkersAreCalls DEF Typed, Positions, Rows, Holding, Ended, Live, Ran,
          Finish, Go, budget, group
  <1>15. ASSUME NEW d \in Calls, Notify(d) PROVE Typed'
      BY <1>15, WorkersAreCalls DEF Typed, Positions, Rows, Holding, Ended, Live, Ran,
          Notify, Go, WakeAll, RecordResult, budget, group
  <1>16. ASSUME NEW d \in Calls, SpawnFails(d) PROVE Typed'
      BY <1>16, WorkersAreCalls DEF Typed, Positions, Rows, Holding, Ended, Live, Ran,
          SpawnFails, Go, WakeAll, budget, group
  <1>17. ASSUME NEW d \in Calls, LaunchFails(d) PROVE Typed'
      BY <1>17, WorkersAreCalls DEF Typed, Positions, Rows, Holding, Ended, Live, Ran,
          LaunchFails, Go, Fails, budget, group
  <1>18. ASSUME NEW d \in Calls, LeaveLane(d) PROVE Typed'
      BY <1>18, WorkersAreCalls DEF Typed, Positions, Rows, Holding, Ended, Live, Ran,
          LeaveLane, EndUnstarted, CloseRow, Go, After, budget, group
  <1>19. ASSUME NEW d \in Calls, LeaveBatch(d) PROVE Typed'
      BY <1>19, WorkersAreCalls, RollBackTyped DEF Typed, Positions, Rows, Holding,
          Ended, Live, Ran, LeaveBatch, EndUnstarted, CloseRow, Go, After, budget, group
  <1>20. ASSUME NEW d \in Calls, StartFails(d) PROVE Typed'
      BY <1>20, WorkersAreCalls, RollBackTyped DEF Typed, Positions, Rows, Holding,
          Ended, Live, Ran, StartFails, Go, After, CloseRow, budget, group
  <1>21. ASSUME NEW d \in Calls, OwnerLookupFails(d) PROVE Typed'
      BY <1>21, WorkersAreCalls DEF Typed, Positions, Rows, Holding, Ended, Live, Ran,
          OwnerLookupFails, Go, CloseRow, budget, group
  <1>22. ASSUME NEW d \in Calls, JudgeAborted(d) PROVE Typed'
      BY <1>22, WorkersAreCalls DEF Typed, Positions, Rows, Holding, Ended, Live, Ran,
          JudgeAborted, Go, CloseRow, budget, group
  <1>23. ASSUME NEW d \in Workers, Spawn(d) PROVE Typed'
      BY <1>23, WorkersAreCalls DEF Typed, Positions, Rows, Holding, Ended, Live, Ran,
          Spawn, WakeAll, Go, budget, group
  <1>24. ASSUME NEW d \in Workers, Collect(d) PROVE Typed'
      BY <1>24, WorkersAreCalls DEF Typed, Positions, Rows, Holding, Ended, Live, Ran,
          Collect, Release, budget, group
  <1>25. ASSUME NEW d \in Workers, CancelWorker(d) PROVE Typed'
      BY <1>25, WorkersAreCalls DEF Typed, Positions, Rows, Holding, Ended, Live, Ran,
          CancelWorker, WakeAll, budget, group
  <1>26. ASSUME NEW d \in Workers, CloseHandle(d) PROVE Typed'
      BY <1>26, WorkersAreCalls DEF Typed, Positions, Rows, Holding, Ended, Live, Ran,
          CloseHandle, WakeAll, budget, group
  <1>27. ASSUME NEW d \in Workers, WaitRegisters(d) PROVE Typed'
      BY <1>27, WorkersAreCalls DEF Typed, Positions, Rows, Holding, Ended, Live, Ran,
          WaitRegisters, budget, group
  <1>28. ASSUME NEW d \in Workers, WaitReads(d) PROVE Typed'
      BY <1>28, WorkersAreCalls DEF Typed, Positions, Rows, Holding, Ended, Live, Ran,
          WaitReads, budget, group
  <1>29. ASSUME NEW d \in Workers, WaitTimesOut(d) PROVE Typed'
      BY <1>29, WorkersAreCalls DEF Typed, Positions, Rows, Holding, Ended, Live, Ran,
          WaitTimesOut, budget, group
  <1>30. ASSUME SpawnBatch PROVE Typed'
      BY <1>30, WorkersAreCalls DEF Typed, Positions, Rows, Holding, Ended, Live, Ran,
          SpawnBatch, WakeAll, budget, group
  <1>31. ASSUME StopCollecting PROVE Typed'
      BY <1>31, WorkersAreCalls DEF Typed, Positions, Rows, Holding, Ended, Live, Ran,
          StopCollecting, Release, budget, group
  <1>32. ASSUME CancelBatch PROVE Typed'
      BY <1>32, WorkersAreCalls DEF Typed, Positions, Rows, Holding, Ended, Live, Ran,
          CancelBatch, budget, group
  <1>33. ASSUME StopTurn PROVE Typed'
      BY <1>33, WorkersAreCalls DEF Typed, Positions, Rows, Holding, Ended, Live, Ran,
          StopTurn, budget, group
  <1>34. CASE UNCHANGED vars
      BY <1>34, WorkersAreCalls DEF Typed, vars, budget, group
  <1> QED
      BY <1>1, <1>2, <1>3, <1>4, <1>5, <1>6, <1>7, <1>8, <1>9, <1>10, <1>11, <1>12,
          <1>13, <1>14, <1>15, <1>16, <1>17, <1>18, <1>19, <1>20, <1>21, <1>22, <1>23,
          <1>24, <1>25, <1>26, <1>27, <1>28, <1>29, <1>30, <1>31, <1>32, <1>33, <1>34,
          WorkersAreCalls DEF Next, Step, Disturbance, Parent

-----------------------------------------------------------------------------
(* The call limit.                                                         *)

(* Every step but a charge and its taking back leaves the counters alone.  *)
Uncharged == UNCHANGED <<limits, calls, verifications, judgements>>

(* Only a charge raises the counters, and only a call that is taken back   *)
(* lowers them.                                                            *)
LEMMA CounterSteps ==
    ASSUME Typed, [Next]_vars
    PROVE  \/ Uncharged
           \/ \E d \in Calls : Charge(d) /\ UNCHANGED limits
           \/ \E d \in Calls : RollBack(d) /\ UNCHANGED limits
  <1>1. ASSUME NEW d \in Calls, Begin(d) PROVE Uncharged
      BY <1>1 DEF Uncharged, Begin, budget, group
  <1>2. ASSUME NEW d \in Calls, BeginFails(d) PROVE Uncharged
      BY <1>2 DEF Uncharged, BeginFails, budget, group
  <1>3. ASSUME NEW d \in Calls, PrepareFails(d) PROVE Uncharged
      BY <1>3 DEF Uncharged, PrepareFails, budget, group
  <1>4. ASSUME NEW d \in Calls, Enqueue(d) PROVE Uncharged
      BY <1>4 DEF Uncharged, Enqueue, budget, group
  <1>5. ASSUME NEW d \in Calls, EnqueueRefused(d) PROVE Uncharged
      BY <1>5 DEF Uncharged, EnqueueRefused, EndUnstarted, budget, group
  <1>6. ASSUME NEW d \in Calls, Grant(d) PROVE Uncharged
      BY <1>6 DEF Uncharged, Grant, budget, group
  <1>7. ASSUME NEW d \in Calls, Charge(d) PROVE Charge(d) /\ UNCHANGED limits
      BY <1>7 DEF Charge, Pay
  <1>8. ASSUME NEW d \in Calls, ChargeRefused(d) PROVE Uncharged
      BY <1>8 DEF Uncharged, ChargeRefused, EndUnstarted, budget, group
  <1>9. ASSUME NEW d \in Calls, TakeSlot(d) PROVE Uncharged
      BY <1>9 DEF Uncharged, TakeSlot, budget, group
  <1>10. ASSUME NEW d \in Calls, Start(d) PROVE Uncharged
      BY <1>10 DEF Uncharged, Start, budget, group
  <1>11. ASSUME NEW d \in Calls, ExecutionEnds(d) PROVE Uncharged
      BY <1>11 DEF Uncharged, ExecutionEnds, budget, group
  <1>12. ASSUME NEW d \in Calls, Account(d) PROVE Uncharged
      BY <1>12 DEF Uncharged, Account, FinishCall, budget, group
  <1>13. ASSUME NEW d \in Calls, Decide(d) PROVE Uncharged
      BY <1>13 DEF Uncharged, Decide, budget, group
  <1>14. ASSUME NEW d \in Calls, Finish(d) PROVE Uncharged
      BY <1>14 DEF Uncharged, Finish, budget, group
  <1>15. ASSUME NEW d \in Calls, Notify(d) PROVE Uncharged
      BY <1>15 DEF Uncharged, Notify, budget, group
  <1>16. ASSUME NEW d \in Calls, SpawnFails(d) PROVE Uncharged
      BY <1>16 DEF Uncharged, SpawnFails, budget, group
  <1>17. ASSUME NEW d \in Calls, LaunchFails(d) PROVE Uncharged
      BY <1>17 DEF Uncharged, LaunchFails, budget, group
  <1>18. ASSUME NEW d \in Calls, LeaveLane(d) PROVE Uncharged
      BY <1>18 DEF Uncharged, LeaveLane, EndUnstarted, budget, group
  <1>19. ASSUME NEW d \in Calls, LeaveBatch(d) PROVE RollBack(d) /\ UNCHANGED limits
      BY <1>19 DEF LeaveBatch, EndUnstarted
  <1>20. ASSUME NEW d \in Calls, StartFails(d) PROVE RollBack(d) /\ UNCHANGED limits
      BY <1>20 DEF StartFails
  <1>21. ASSUME NEW d \in Calls, OwnerLookupFails(d) PROVE Uncharged
      BY <1>21 DEF Uncharged, OwnerLookupFails, budget, group
  <1>22. ASSUME NEW d \in Calls, JudgeAborted(d) PROVE Uncharged
      BY <1>22 DEF Uncharged, JudgeAborted, budget, group
  <1>23. ASSUME NEW d \in Workers, Spawn(d) PROVE Uncharged
      BY <1>23 DEF Uncharged, Spawn, budget, group
  <1>24. ASSUME NEW d \in Workers, Collect(d) PROVE Uncharged
      BY <1>24 DEF Uncharged, Collect, budget, group
  <1>25. ASSUME NEW d \in Workers, CancelWorker(d) PROVE Uncharged
      BY <1>25 DEF Uncharged, CancelWorker, budget, group
  <1>26. ASSUME NEW d \in Workers, CloseHandle(d) PROVE Uncharged
      BY <1>26 DEF Uncharged, CloseHandle, budget, group
  <1>27. ASSUME NEW d \in Workers, WaitRegisters(d) PROVE Uncharged
      BY <1>27 DEF Uncharged, WaitRegisters, budget, group
  <1>28. ASSUME NEW d \in Workers, WaitReads(d) PROVE Uncharged
      BY <1>28 DEF Uncharged, WaitReads, budget, group
  <1>29. ASSUME NEW d \in Workers, WaitTimesOut(d) PROVE Uncharged
      BY <1>29 DEF Uncharged, WaitTimesOut, budget, group
  <1>30. ASSUME SpawnBatch PROVE Uncharged
      BY <1>30 DEF Uncharged, SpawnBatch, budget, group
  <1>31. ASSUME StopCollecting PROVE Uncharged
      BY <1>31 DEF Uncharged, StopCollecting, budget, group
  <1>32. ASSUME CancelBatch PROVE Uncharged
      BY <1>32 DEF Uncharged, CancelBatch, budget, group
  <1>33. ASSUME StopTurn PROVE Uncharged
      BY <1>33 DEF Uncharged, StopTurn, budget, group
  <1>34. CASE UNCHANGED vars
      BY <1>34 DEF Uncharged, vars, budget, group
  <1> QED
      BY <1>1, <1>2, <1>3, <1>4, <1>5, <1>6, <1>7, <1>8, <1>9, <1>10, <1>11, <1>12,
          <1>13, <1>14, <1>15, <1>16, <1>17, <1>18, <1>19, <1>20, <1>21, <1>22, <1>23,
          <1>24, <1>25, <1>26, <1>27, <1>28, <1>29, <1>30, <1>31, <1>32, <1>33, <1>34,
          WorkersAreCalls DEF Next, Step, Disturbance, Parent

(* The reserve is at most two calls, and none without lanes of their own.  *)
LEMMA ReserveBounded ==
    ASSUME Typed, NEW m \in Nat, NEW n \in Nat
    PROVE  Unused(m) + Unused(n) \in Nat /\ Unused(m) + Unused(n) <= limits.calls
  BY DEF Typed, Unused, Dedicated, Limits

(* The inductive step: a charge has just been validated against the share  *)
(* kept for the others; a charge taken back frees the call it may restore  *)
(* the reserve of.                                                         *)
LEMMA CreditsStep ==
    ASSUME Typed, Typed', CreditsReserved, [Next]_vars
    PROVE  CreditsReserved'
  <1>1. CASE Uncharged
      BY <1>1 DEF Uncharged, CreditsReserved, Unused, Dedicated
  <1>2. ASSUME NEW d \in Calls, Charge(d), UNCHANGED limits PROVE CreditsReserved'
    <2>1. CASE LaneOf(d) = "exploration"
        BY <1>2, <2>1 DEF Charge, Pay, ValidateAdmission, ReservedForOthers, CreditsReserved,
                          Unused, Dedicated, Typed, Limits
    <2>2. CASE LaneOf(d) = "verification"
        BY <1>2, <2>2 DEF Charge, Pay, ValidateAdmission, ReservedForOthers, CreditsReserved,
                          Unused, Dedicated, Typed, Limits
    <2>3. CASE LaneOf(d) = "judge"
        BY <1>2, <2>3 DEF Charge, Pay, ValidateAdmission, ReservedForOthers, CreditsReserved,
                          Unused, Dedicated, Typed, Limits
    <2> QED
        BY <2>1, <2>2, <2>3 DEF LaneOf
  <1>3. ASSUME NEW d \in Calls, RollBack(d), UNCHANGED limits PROVE CreditsReserved'
    <2>1. CASE calls = 0
        BY <1>3, <2>1 DEF RollBack, SaturatingSub, CreditsReserved, Unused, Dedicated, Typed,
                          Limits
    <2>2. CASE calls > 0
        BY <1>3, <2>2 DEF RollBack, SaturatingSub, CreditsReserved, Unused, Dedicated, Typed,
                          Limits, LaneOf
    <2> QED
        BY <2>1, <2>2 DEF Typed
  <1> QED
      BY <1>1, <1>2, <1>3, CounterSteps

(* delegation_scheduler.rs validate_admission and rollback_unstarted_*:    *)
(* the turn never makes more calls than its limit, and explorers never     *)
(* take the call kept for verification or for the judge.                   *)
THEOREM CreditsAreReserved == Spec => []CreditsReserved
  <1>1. Init => Typed /\ CreditsReserved
    <2> SUFFICES ASSUME Init PROVE Typed /\ CreditsReserved
        OBVIOUS
    <2>1. Typed
        BY TypedInit
    <2> QED
        BY <2>1 DEF Init, CreditsReserved, Unused, Dedicated, Typed, Limits
  <1>2. (Typed /\ CreditsReserved) /\ [Next]_vars => (Typed /\ CreditsReserved)'
      BY TypedStep, CreditsStep
  <1> QED
      BY <1>1, <1>2, PTL DEF Spec

-----------------------------------------------------------------------------
(* The waits.                                                              *)

(* A wait falls asleep only over a live worker; every later change of that *)
(* worker's handle but the one of finish wakes it in the same step, and    *)
(* the worker leaves "notifying" only by waking it.                        *)
LEMMA WaitStep == ASSUME Typed, WaitIsWoken, [Next]_vars PROVE WaitIsWoken'
  <1>1. ASSUME NEW d \in Calls, Begin(d) PROVE WaitIsWoken'
      BY <1>1, WorkersAreCalls DEF Typed, WaitIsWoken, Positions, Holding, Begin, Go,
          WakeAll, budget, group
  <1>2. ASSUME NEW d \in Calls, BeginFails(d) PROVE WaitIsWoken'
      BY <1>2, WorkersAreCalls DEF Typed, WaitIsWoken, Positions, Holding, BeginFails,
          Go, WakeAll, Fails, budget, group
  <1>3. ASSUME NEW d \in Calls, PrepareFails(d) PROVE WaitIsWoken'
      BY <1>3, WorkersAreCalls DEF Typed, WaitIsWoken, Positions, Holding, PrepareFails,
          Go, Fails, budget, group
  <1>4. ASSUME NEW d \in Calls, Enqueue(d) PROVE WaitIsWoken'
      BY <1>4, WorkersAreCalls DEF Typed, WaitIsWoken, Positions, Holding, Enqueue, Go,
          Asks, budget, group
  <1>5. ASSUME NEW d \in Calls, EnqueueRefused(d) PROVE WaitIsWoken'
      BY <1>5, WorkersAreCalls DEF Typed, WaitIsWoken, Positions, Holding,
          EnqueueRefused, EndUnstarted, CloseRow, Go, After, Asks, budget, group
  <1>6. ASSUME NEW d \in Calls, Grant(d) PROVE WaitIsWoken'
      BY <1>6, WorkersAreCalls DEF Typed, WaitIsWoken, Positions, Holding, Grant, Go,
          budget, group
  <1>7. ASSUME NEW d \in Calls, Charge(d) PROVE WaitIsWoken'
      BY <1>7, WorkersAreCalls DEF Typed, WaitIsWoken, Positions, Holding, Charge, Pay,
          Go, budget, group
  <1>8. ASSUME NEW d \in Calls, ChargeRefused(d) PROVE WaitIsWoken'
      BY <1>8, WorkersAreCalls DEF Typed, WaitIsWoken, Positions, Holding,
          ChargeRefused, EndUnstarted, CloseRow, Go, After, budget, group
  <1>9. ASSUME NEW d \in Calls, TakeSlot(d) PROVE WaitIsWoken'
      BY <1>9, WorkersAreCalls DEF Typed, WaitIsWoken, Positions, Holding, TakeSlot, Go,
          budget, group
  <1>10. ASSUME NEW d \in Calls, Start(d) PROVE WaitIsWoken'
      BY <1>10, WorkersAreCalls DEF Typed, WaitIsWoken, Positions, Holding, Start, Go,
          budget, group
  <1>11. ASSUME NEW d \in Calls, ExecutionEnds(d) PROVE WaitIsWoken'
      BY <1>11, WorkersAreCalls DEF Typed, WaitIsWoken, Positions, Holding,
          ExecutionEnds, Go, Ran, budget, group
  <1>12. ASSUME NEW d \in Calls, Account(d) PROVE WaitIsWoken'
      BY <1>12, WorkersAreCalls DEF Typed, WaitIsWoken, Positions, Holding, Account, Go,
          After, CloseRow, RowStatus, budget, group
  <1>13. ASSUME NEW d \in Calls, Decide(d) PROVE WaitIsWoken'
      BY <1>13, WorkersAreCalls DEF Typed, WaitIsWoken, Positions, Holding, Decide, Go,
          VerdictOf, budget, group
  <1>14. ASSUME NEW d \in Calls, Finish(d) PROVE WaitIsWoken'
      BY <1>14, WorkersAreCalls DEF Typed, WaitIsWoken, Positions, Holding, Finish, Go,
          budget, group
  <1>15. ASSUME NEW d \in Calls, Notify(d) PROVE WaitIsWoken'
      BY <1>15, WorkersAreCalls DEF Typed, WaitIsWoken, Positions, Holding, Notify, Go,
          WakeAll, budget, group
  <1>16. ASSUME NEW d \in Calls, SpawnFails(d) PROVE WaitIsWoken'
      BY <1>16, WorkersAreCalls DEF Typed, WaitIsWoken, Positions, Holding, SpawnFails,
          Go, WakeAll, budget, group
  <1>17. ASSUME NEW d \in Calls, LaunchFails(d) PROVE WaitIsWoken'
      BY <1>17, WorkersAreCalls DEF Typed, WaitIsWoken, Positions, Holding, LaunchFails,
          Go, Fails, budget, group
  <1>18. ASSUME NEW d \in Calls, LeaveLane(d) PROVE WaitIsWoken'
      BY <1>18, WorkersAreCalls DEF Typed, WaitIsWoken, Positions, Holding, LeaveLane,
          EndUnstarted, CloseRow, Go, After, budget, group
  <1>19. ASSUME NEW d \in Calls, LeaveBatch(d) PROVE WaitIsWoken'
      BY <1>19, WorkersAreCalls DEF Typed, WaitIsWoken, Positions, Holding, LeaveBatch,
          EndUnstarted, CloseRow, Go, After, budget, group
  <1>20. ASSUME NEW d \in Calls, StartFails(d) PROVE WaitIsWoken'
      BY <1>20, WorkersAreCalls DEF Typed, WaitIsWoken, Positions, Holding, StartFails,
          Go, After, CloseRow, budget, group
  <1>21. ASSUME NEW d \in Calls, OwnerLookupFails(d) PROVE WaitIsWoken'
      BY <1>21, WorkersAreCalls DEF Typed, WaitIsWoken, Positions, Holding,
          OwnerLookupFails, Go, CloseRow, budget, group
  <1>22. ASSUME NEW d \in Calls, JudgeAborted(d) PROVE WaitIsWoken'
      BY <1>22, WorkersAreCalls DEF Typed, WaitIsWoken, Positions, Holding,
          JudgeAborted, Go, CloseRow, budget, group
  <1>23. ASSUME NEW d \in Workers, Spawn(d) PROVE WaitIsWoken'
      BY <1>23, WorkersAreCalls DEF Typed, WaitIsWoken, Positions, Holding, Spawn,
          WakeAll, Go, budget, group
  <1>24. ASSUME NEW d \in Workers, Collect(d) PROVE WaitIsWoken'
      BY <1>24, WorkersAreCalls DEF Typed, WaitIsWoken, Positions, Holding, Collect,
          Release, budget, group
  <1>25. ASSUME NEW d \in Workers, CancelWorker(d) PROVE WaitIsWoken'
      BY <1>25, WorkersAreCalls DEF Typed, WaitIsWoken, Positions, Holding,
          CancelWorker, WakeAll, budget, group
  <1>26. ASSUME NEW d \in Workers, CloseHandle(d) PROVE WaitIsWoken'
      BY <1>26, WorkersAreCalls DEF Typed, WaitIsWoken, Positions, Holding, CloseHandle,
          WakeAll, budget, group
  <1>27. ASSUME NEW d \in Workers, WaitRegisters(d) PROVE WaitIsWoken'
      BY <1>27, WorkersAreCalls DEF Typed, WaitIsWoken, Positions, Holding,
          WaitRegisters, budget, group
  <1>28. ASSUME NEW d \in Workers, WaitReads(d) PROVE WaitIsWoken'
      BY <1>28, WorkersAreCalls DEF Typed, WaitIsWoken, Positions, Holding, WaitReads,
          budget, group
  <1>29. ASSUME NEW d \in Workers, WaitTimesOut(d) PROVE WaitIsWoken'
      BY <1>29, WorkersAreCalls DEF Typed, WaitIsWoken, Positions, Holding,
          WaitTimesOut, budget, group
  <1>30. ASSUME SpawnBatch PROVE WaitIsWoken'
      BY <1>30, WorkersAreCalls DEF Typed, WaitIsWoken, Positions, Holding, SpawnBatch,
          WakeAll, budget, group
  <1>31. ASSUME StopCollecting PROVE WaitIsWoken'
      BY <1>31, WorkersAreCalls DEF Typed, WaitIsWoken, Positions, Holding,
          StopCollecting, Release, budget, group
  <1>32. ASSUME CancelBatch PROVE WaitIsWoken'
      BY <1>32, WorkersAreCalls DEF Typed, WaitIsWoken, Positions, Holding, CancelBatch,
          budget, group
  <1>33. ASSUME StopTurn PROVE WaitIsWoken'
      BY <1>33, WorkersAreCalls DEF Typed, WaitIsWoken, Positions, Holding, StopTurn,
          budget, group
  <1>34. CASE UNCHANGED vars
      BY <1>34, WorkersAreCalls DEF Typed, WaitIsWoken, vars, budget, group
  <1> QED
      BY <1>1, <1>2, <1>3, <1>4, <1>5, <1>6, <1>7, <1>8, <1>9, <1>10, <1>11, <1>12,
          <1>13, <1>14, <1>15, <1>16, <1>17, <1>18, <1>19, <1>20, <1>21, <1>22, <1>23,
          <1>24, <1>25, <1>26, <1>27, <1>28, <1>29, <1>30, <1>31, <1>32, <1>33, <1>34,
          WorkersAreCalls DEF Next, Step, Disturbance, Parent

(* subagent_lifecycle.rs wait and finish: no parent sleeps over a worker   *)
(* whose end is already recorded and already announced.                    *)
THEOREM WaitersAreWoken == Spec => []WaitIsWoken
  <1>1. Init => Typed /\ WaitIsWoken
    <2> SUFFICES ASSUME Init PROVE Typed /\ WaitIsWoken
        OBVIOUS
    <2>1. Typed
        BY TypedInit
    <2> QED
        BY <2>1 DEF Init, WaitIsWoken
  <1>2. (Typed /\ WaitIsWoken) /\ [Next]_vars => (Typed /\ WaitIsWoken)'
      BY TypedStep, WaitStep
  <1> QED
      BY <1>1, <1>2, PTL DEF Spec

-----------------------------------------------------------------------------
(* The records of a call.                                                  *)

(* Every step keeps the story of every call.                               *)
LEMMA StoryStep == ASSUME Typed, IStory, [Next]_vars PROVE IStory'
  <1>1. ASSUME NEW d \in Calls, Begin(d) PROVE IStory'
      BY <1>1, WorkersAreCalls DEF Typed, IStory, Story, HandleStory, Unspawned, Batch,
          Requests, group, Positions, Rows, Holding, Ended, Live, Ran, Begin, Go,
          WakeAll, budget
  <1>2. ASSUME NEW d \in Calls, BeginFails(d) PROVE IStory'
      BY <1>2, WorkersAreCalls DEF Typed, IStory, Story, HandleStory, Unspawned, Batch,
          Requests, group, Positions, Rows, Holding, Ended, Live, Ran, BeginFails, Go,
          WakeAll, Fails, budget
  <1>3. ASSUME NEW d \in Calls, PrepareFails(d) PROVE IStory'
      BY <1>3, WorkersAreCalls DEF Typed, IStory, Story, HandleStory, Unspawned, Batch,
          Requests, group, Positions, Rows, Holding, Ended, Live, Ran, PrepareFails, Go,
          Fails, budget
  <1>4. ASSUME NEW d \in Calls, Enqueue(d) PROVE IStory'
      BY <1>4, WorkersAreCalls DEF Typed, IStory, Story, HandleStory, Unspawned, Batch,
          Requests, group, Positions, Rows, Holding, Ended, Live, Ran, Enqueue, Go,
          Asks, budget
  <1>5. ASSUME NEW d \in Calls, EnqueueRefused(d) PROVE IStory'
      BY <1>5, WorkersAreCalls DEF Typed, IStory, Story, HandleStory, Unspawned, Batch,
          Requests, group, Positions, Rows, Holding, Ended, Live, Ran, EnqueueRefused,
          EndUnstarted, CloseRow, Go, After, Asks, budget
  <1>6. ASSUME NEW d \in Calls, Grant(d) PROVE IStory'
      BY <1>6, WorkersAreCalls DEF Typed, IStory, Story, HandleStory, Unspawned, Batch,
          Requests, group, Positions, Rows, Holding, Ended, Live, Ran, Grant, Go, budget
  <1>7. ASSUME NEW d \in Calls, Charge(d) PROVE IStory'
      BY <1>7, WorkersAreCalls DEF Typed, IStory, Story, HandleStory, Unspawned, Batch,
          Requests, group, Positions, Rows, Holding, Ended, Live, Ran, Charge, Pay, Go,
          budget
  <1>8. ASSUME NEW d \in Calls, ChargeRefused(d) PROVE IStory'
      BY <1>8, WorkersAreCalls DEF Typed, IStory, Story, HandleStory, Unspawned, Batch,
          Requests, group, Positions, Rows, Holding, Ended, Live, Ran, ChargeRefused,
          EndUnstarted, CloseRow, Go, After, budget
  <1>9. ASSUME NEW d \in Calls, TakeSlot(d) PROVE IStory'
      BY <1>9, WorkersAreCalls DEF Typed, IStory, Story, HandleStory, Unspawned, Batch,
          Requests, group, Positions, Rows, Holding, Ended, Live, Ran, TakeSlot, Go,
          budget
  <1>10. ASSUME NEW d \in Calls, Start(d) PROVE IStory'
      BY <1>10, WorkersAreCalls DEF Typed, IStory, Story, HandleStory, Unspawned, Batch,
          Requests, group, Positions, Rows, Holding, Ended, Live, Ran, Start, Go, budget
  <1>11. ASSUME NEW d \in Calls, ExecutionEnds(d) PROVE IStory'
      BY <1>11, WorkersAreCalls DEF Typed, IStory, Story, HandleStory, Unspawned, Batch,
          Requests, group, Positions, Rows, Holding, Ended, Live, Ran, ExecutionEnds,
          Go, budget
  <1>12. ASSUME NEW d \in Calls, Account(d) PROVE IStory'
      BY <1>12, WorkersAreCalls DEF Typed, IStory, Story, HandleStory, Unspawned, Batch,
          Requests, group, Positions, Rows, Holding, Ended, Live, Ran, Account, Go,
          After, CloseRow, RowStatus, budget
  <1>13. ASSUME NEW d \in Calls, Decide(d) PROVE IStory'
      BY <1>13, WorkersAreCalls DEF Typed, IStory, Story, HandleStory, Unspawned, Batch,
          Requests, group, Positions, Rows, Holding, Ended, Live, Ran, Decide, Go,
          VerdictOf, budget
  <1>14. ASSUME NEW d \in Calls, Finish(d) PROVE IStory'
      BY <1>14, WorkersAreCalls DEF Typed, IStory, Story, HandleStory, Unspawned, Batch,
          Requests, group, Positions, Rows, Holding, Ended, Live, Ran, Finish, Go,
          budget
  <1>15. ASSUME NEW d \in Calls, Notify(d) PROVE IStory'
      BY <1>15, WorkersAreCalls DEF Typed, IStory, Story, HandleStory, Unspawned, Batch,
          Requests, group, Positions, Rows, Holding, Ended, Live, Ran, Notify, Go,
          WakeAll, budget
  <1>16. ASSUME NEW d \in Calls, SpawnFails(d) PROVE IStory'
      BY <1>16, WorkersAreCalls DEF Typed, IStory, Story, HandleStory, Unspawned, Batch,
          Requests, group, Positions, Rows, Holding, Ended, Live, Ran, SpawnFails, Go,
          WakeAll, budget
  <1>17. ASSUME NEW d \in Calls, LaunchFails(d) PROVE IStory'
      BY <1>17, WorkersAreCalls DEF Typed, IStory, Story, HandleStory, Unspawned, Batch,
          Requests, group, Positions, Rows, Holding, Ended, Live, Ran, LaunchFails, Go,
          Fails, budget
  <1>18. ASSUME NEW d \in Calls, LeaveLane(d) PROVE IStory'
      BY <1>18, WorkersAreCalls DEF Typed, IStory, Story, HandleStory, Unspawned, Batch,
          Requests, group, Positions, Rows, Holding, Ended, Live, Ran, LeaveLane,
          EndUnstarted, CloseRow, Go, After, budget
  <1>19. ASSUME NEW d \in Calls, LeaveBatch(d) PROVE IStory'
      BY <1>19, WorkersAreCalls DEF Typed, IStory, Story, HandleStory, Unspawned, Batch,
          Requests, group, Positions, Rows, Holding, Ended, Live, Ran, LeaveBatch,
          EndUnstarted, CloseRow, Go, After, budget
  <1>20. ASSUME NEW d \in Calls, StartFails(d) PROVE IStory'
      BY <1>20, WorkersAreCalls DEF Typed, IStory, Story, HandleStory, Unspawned, Batch,
          Requests, group, Positions, Rows, Holding, Ended, Live, Ran, StartFails, Go,
          After, CloseRow, budget
  <1>21. ASSUME NEW d \in Calls, OwnerLookupFails(d) PROVE IStory'
      BY <1>21, WorkersAreCalls DEF Typed, IStory, Story, HandleStory, Unspawned, Batch,
          Requests, group, Positions, Rows, Holding, Ended, Live, Ran, OwnerLookupFails,
          Go, CloseRow, budget
  <1>22. ASSUME NEW d \in Calls, JudgeAborted(d) PROVE IStory'
      BY <1>22, WorkersAreCalls DEF Typed, IStory, Story, HandleStory, Unspawned, Batch,
          Requests, group, Positions, Rows, Holding, Ended, Live, Ran, JudgeAborted, Go,
          CloseRow, budget
  <1>23. ASSUME NEW d \in Workers, Spawn(d) PROVE IStory'
      BY <1>23, WorkersAreCalls DEF Typed, IStory, Story, HandleStory, Unspawned, Batch,
          Requests, group, Positions, Rows, Holding, Ended, Live, Ran, Spawn, WakeAll,
          Go, budget
  <1>24. ASSUME NEW d \in Workers, Collect(d) PROVE IStory'
      BY <1>24, WorkersAreCalls DEF Typed, IStory, Story, HandleStory, Unspawned, Batch,
          Requests, group, Positions, Rows, Holding, Ended, Live, Ran, Collect, Release,
          budget
  <1>25. ASSUME NEW d \in Workers, CancelWorker(d) PROVE IStory'
      BY <1>25, WorkersAreCalls DEF Typed, IStory, Story, HandleStory, Unspawned, Batch,
          Requests, group, Positions, Rows, Holding, Ended, Live, Ran, CancelWorker,
          WakeAll, budget
  <1>26. ASSUME NEW d \in Workers, CloseHandle(d) PROVE IStory'
      BY <1>26, WorkersAreCalls DEF Typed, IStory, Story, HandleStory, Unspawned, Batch,
          Requests, group, Positions, Rows, Holding, Ended, Live, Ran, CloseHandle,
          WakeAll, budget
  <1>27. ASSUME NEW d \in Workers, WaitRegisters(d) PROVE IStory'
      BY <1>27, WorkersAreCalls DEF Typed, IStory, Story, HandleStory, Unspawned, Batch,
          Requests, group, Positions, Rows, Holding, Ended, Live, Ran, WaitRegisters,
          budget
  <1>28. ASSUME NEW d \in Workers, WaitReads(d) PROVE IStory'
      BY <1>28, WorkersAreCalls DEF Typed, IStory, Story, HandleStory, Unspawned, Batch,
          Requests, group, Positions, Rows, Holding, Ended, Live, Ran, WaitReads, budget
  <1>29. ASSUME NEW d \in Workers, WaitTimesOut(d) PROVE IStory'
      BY <1>29, WorkersAreCalls DEF Typed, IStory, Story, HandleStory, Unspawned, Batch,
          Requests, group, Positions, Rows, Holding, Ended, Live, Ran, WaitTimesOut,
          budget
  <1>30. ASSUME SpawnBatch PROVE IStory'
      BY <1>30, WorkersAreCalls DEF Typed, IStory, Story, HandleStory, Unspawned, Batch,
          Requests, group, Positions, Rows, Holding, Ended, Live, Ran, SpawnBatch,
          WakeAll, budget
  <1>31. ASSUME StopCollecting PROVE IStory'
      BY <1>31, WorkersAreCalls DEF Typed, IStory, Story, HandleStory, Unspawned, Batch,
          Requests, group, Positions, Rows, Holding, Ended, Live, Ran, StopCollecting,
          Release, budget
  <1>32. ASSUME CancelBatch PROVE IStory'
      BY <1>32, WorkersAreCalls DEF Typed, IStory, Story, HandleStory, Unspawned, Batch,
          Requests, group, Positions, Rows, Holding, Ended, Live, Ran, CancelBatch,
          budget
  <1>33. ASSUME StopTurn PROVE IStory'
      BY <1>33, WorkersAreCalls DEF Typed, IStory, Story, HandleStory, Unspawned, Batch,
          Requests, group, Positions, Rows, Holding, Ended, Live, Ran, StopTurn, budget
  <1>34. CASE UNCHANGED vars
      BY <1>34, WorkersAreCalls DEF IStory, Story, HandleStory, Unspawned, Batch, vars,
          budget, group
  <1> QED
      BY <1>1, <1>2, <1>3, <1>4, <1>5, <1>6, <1>7, <1>8, <1>9, <1>10, <1>11, <1>12,
          <1>13, <1>14, <1>15, <1>16, <1>17, <1>18, <1>19, <1>20, <1>21, <1>22, <1>23,
          <1>24, <1>25, <1>26, <1>27, <1>28, <1>29, <1>30, <1>31, <1>32, <1>33, <1>34,
          WorkersAreCalls DEF Next, Step, Disturbance, Parent

(* The story of a call begins with nothing.                                *)
LEMMA StoryInit == ASSUME Init, Typed PROVE IStory
  BY WorkersAreCalls, LimitAssumption
  DEF Init, IStory, Story, HandleStory, Unspawned, Batch, Ended, Typed, Requests

(* worker.rs settle_worker_lifecycle and SubtaskRecorder: handle, row and  *)
(* outcome of a worker agree, and no row stays open behind a call that is  *)
(* over unless its last write failed.                                      *)
THEOREM RecordsTellOneStory == Spec => []OneStory
  <1>1. Init => Typed /\ IStory
      BY TypedInit, StoryInit
  <1>2. (Typed /\ IStory) /\ [Next]_vars => (Typed /\ IStory)'
      BY TypedStep, StoryStep
  <1>3. Typed /\ IStory => OneStory
      BY WorkersAreCalls DEF Typed, IStory, Story, HandleStory, OneStory, Ended
  <1> QED
      BY <1>1, <1>2, <1>3, PTL DEF Spec

-----------------------------------------------------------------------------
(* The slots.                                                              *)

(* No call enters a lane, and no worker a slot of the batch.               *)
NobodyEnters ==
    /\ UNCHANGED <<limits, request>>
    /\ \A c \in Calls : pc'[c] \in Holding => pc[c] \in Holding
    /\ \A w \in Batch : pc'[w] \in InSlot => pc[w] \in InSlot

(* A lane is entered by Grant alone, a slot of the batch by TakeSlot.      *)
LEMMA EntrySteps ==
    ASSUME Typed, [Next]_vars
    PROVE  \/ NobodyEnters
           \/ \E d \in Calls : Grant(d) \/ TakeSlot(d)
  <1>1. ASSUME NEW d \in Calls, Begin(d) PROVE NobodyEnters
      BY <1>1, WorkersAreCalls DEF NobodyEnters, Typed, Requests, Batch, Holding,
          InSlot, Begin, Go, WakeAll, budget, group
  <1>2. ASSUME NEW d \in Calls, BeginFails(d) PROVE NobodyEnters
      BY <1>2, WorkersAreCalls DEF NobodyEnters, Typed, Requests, Batch, Holding,
          InSlot, BeginFails, Go, WakeAll, Fails, budget, group
  <1>3. ASSUME NEW d \in Calls, PrepareFails(d) PROVE NobodyEnters
      BY <1>3, WorkersAreCalls DEF NobodyEnters, Typed, Requests, Batch, Holding,
          InSlot, PrepareFails, Go, Fails, budget, group
  <1>4. ASSUME NEW d \in Calls, Enqueue(d) PROVE NobodyEnters
      BY <1>4, WorkersAreCalls DEF NobodyEnters, Typed, Requests, Batch, Holding,
          InSlot, Enqueue, Go, Asks, budget, group
  <1>5. ASSUME NEW d \in Calls, EnqueueRefused(d) PROVE NobodyEnters
      BY <1>5, WorkersAreCalls DEF NobodyEnters, Typed, Requests, Batch, Holding,
          InSlot, EnqueueRefused, EndUnstarted, CloseRow, Go, After, Asks, budget, group
  <1>6. ASSUME NEW d \in Calls, Grant(d) PROVE Grant(d)
      BY <1>6
  <1>7. ASSUME NEW d \in Calls, Charge(d) PROVE NobodyEnters
      BY <1>7, WorkersAreCalls DEF NobodyEnters, Typed, Requests, Batch, Holding,
          InSlot, Charge, Pay, Go, budget, group
  <1>8. ASSUME NEW d \in Calls, ChargeRefused(d) PROVE NobodyEnters
      BY <1>8, WorkersAreCalls DEF NobodyEnters, Typed, Requests, Batch, Holding,
          InSlot, ChargeRefused, EndUnstarted, CloseRow, Go, After, budget, group
  <1>9. ASSUME NEW d \in Calls, TakeSlot(d) PROVE TakeSlot(d)
      BY <1>9
  <1>10. ASSUME NEW d \in Calls, Start(d) PROVE NobodyEnters
      BY <1>10, WorkersAreCalls DEF NobodyEnters, Typed, Requests, Batch, Holding,
          InSlot, Start, Go, budget, group
  <1>11. ASSUME NEW d \in Calls, ExecutionEnds(d) PROVE NobodyEnters
      BY <1>11, WorkersAreCalls DEF NobodyEnters, Typed, Requests, Batch, Holding,
          InSlot, ExecutionEnds, Go, Ran, budget, group
  <1>12. ASSUME NEW d \in Calls, Account(d) PROVE NobodyEnters
      BY <1>12, WorkersAreCalls DEF NobodyEnters, Typed, Requests, Batch, Holding,
          InSlot, Account, Go, After, CloseRow, RowStatus, budget, group
  <1>13. ASSUME NEW d \in Calls, Decide(d) PROVE NobodyEnters
      BY <1>13, WorkersAreCalls DEF NobodyEnters, Typed, Requests, Batch, Holding,
          InSlot, Decide, Go, VerdictOf, budget, group
  <1>14. ASSUME NEW d \in Calls, Finish(d) PROVE NobodyEnters
      BY <1>14, WorkersAreCalls DEF NobodyEnters, Typed, Requests, Batch, Holding,
          InSlot, Finish, Go, budget, group
  <1>15. ASSUME NEW d \in Calls, Notify(d) PROVE NobodyEnters
      BY <1>15, WorkersAreCalls DEF NobodyEnters, Typed, Requests, Batch, Holding,
          InSlot, Notify, Go, WakeAll, budget, group
  <1>16. ASSUME NEW d \in Calls, SpawnFails(d) PROVE NobodyEnters
      BY <1>16, WorkersAreCalls DEF NobodyEnters, Typed, Requests, Batch, Holding,
          InSlot, SpawnFails, Go, WakeAll, budget, group
  <1>17. ASSUME NEW d \in Calls, LaunchFails(d) PROVE NobodyEnters
      BY <1>17, WorkersAreCalls DEF NobodyEnters, Typed, Requests, Batch, Holding,
          InSlot, LaunchFails, Go, Fails, budget, group
  <1>18. ASSUME NEW d \in Calls, LeaveLane(d) PROVE NobodyEnters
      BY <1>18, WorkersAreCalls DEF NobodyEnters, Typed, Requests, Batch, Holding,
          InSlot, LeaveLane, EndUnstarted, CloseRow, Go, After, budget, group
  <1>19. ASSUME NEW d \in Calls, LeaveBatch(d) PROVE NobodyEnters
      BY <1>19, WorkersAreCalls DEF NobodyEnters, Typed, Requests, Batch, Holding,
          InSlot, LeaveBatch, EndUnstarted, CloseRow, Go, After, budget, group
  <1>20. ASSUME NEW d \in Calls, StartFails(d) PROVE NobodyEnters
      BY <1>20, WorkersAreCalls DEF NobodyEnters, Typed, Requests, Batch, Holding,
          InSlot, StartFails, Go, After, CloseRow, budget, group
  <1>21. ASSUME NEW d \in Calls, OwnerLookupFails(d) PROVE NobodyEnters
      BY <1>21, WorkersAreCalls DEF NobodyEnters, Typed, Requests, Batch, Holding,
          InSlot, OwnerLookupFails, Go, CloseRow, budget, group
  <1>22. ASSUME NEW d \in Calls, JudgeAborted(d) PROVE NobodyEnters
      BY <1>22, WorkersAreCalls DEF NobodyEnters, Typed, Requests, Batch, Holding,
          InSlot, JudgeAborted, Go, CloseRow, budget, group
  <1>23. ASSUME NEW d \in Workers, Spawn(d) PROVE NobodyEnters
      BY <1>23, WorkersAreCalls DEF NobodyEnters, Typed, Requests, Batch, Holding,
          InSlot, Spawn, WakeAll, Go, budget, group
  <1>24. ASSUME NEW d \in Workers, Collect(d) PROVE NobodyEnters
      BY <1>24, WorkersAreCalls DEF NobodyEnters, Typed, Requests, Batch, Holding,
          InSlot, Collect, Release, budget, group
  <1>25. ASSUME NEW d \in Workers, CancelWorker(d) PROVE NobodyEnters
      BY <1>25, WorkersAreCalls DEF NobodyEnters, Typed, Requests, Batch, Holding,
          InSlot, CancelWorker, WakeAll, budget, group
  <1>26. ASSUME NEW d \in Workers, CloseHandle(d) PROVE NobodyEnters
      BY <1>26, WorkersAreCalls DEF NobodyEnters, Typed, Requests, Batch, Holding,
          InSlot, CloseHandle, WakeAll, budget, group
  <1>27. ASSUME NEW d \in Workers, WaitRegisters(d) PROVE NobodyEnters
      BY <1>27, WorkersAreCalls DEF NobodyEnters, Typed, Requests, Batch, Holding,
          InSlot, WaitRegisters, budget, group
  <1>28. ASSUME NEW d \in Workers, WaitReads(d) PROVE NobodyEnters
      BY <1>28, WorkersAreCalls DEF NobodyEnters, Typed, Requests, Batch, Holding,
          InSlot, WaitReads, budget, group
  <1>29. ASSUME NEW d \in Workers, WaitTimesOut(d) PROVE NobodyEnters
      BY <1>29, WorkersAreCalls DEF NobodyEnters, Typed, Requests, Batch, Holding,
          InSlot, WaitTimesOut, budget, group
  <1>30. ASSUME SpawnBatch PROVE NobodyEnters
      BY <1>30, WorkersAreCalls DEF NobodyEnters, Typed, Requests, Batch, Holding,
          InSlot, SpawnBatch, WakeAll, budget, group
  <1>31. ASSUME StopCollecting PROVE NobodyEnters
      BY <1>31, WorkersAreCalls DEF NobodyEnters, Typed, Requests, Batch, Holding,
          InSlot, StopCollecting, Release, budget, group
  <1>32. ASSUME CancelBatch PROVE NobodyEnters
      BY <1>32, WorkersAreCalls DEF NobodyEnters, Typed, Requests, Batch, Holding,
          InSlot, CancelBatch, budget, group
  <1>33. ASSUME StopTurn PROVE NobodyEnters
      BY <1>33, WorkersAreCalls DEF NobodyEnters, Typed, Requests, Batch, Holding,
          InSlot, StopTurn, budget, group
  <1>34. CASE UNCHANGED vars
      BY <1>34, WorkersAreCalls DEF NobodyEnters, Typed, Requests, Batch, Holding,
          InSlot, vars, budget, group
  <1> QED
      BY <1>1, <1>2, <1>3, <1>4, <1>5, <1>6, <1>7, <1>8, <1>9, <1>10, <1>11, <1>12,
          <1>13, <1>14, <1>15, <1>16, <1>17, <1>18, <1>19, <1>20, <1>21, <1>22, <1>23,
          <1>24, <1>25, <1>26, <1>27, <1>28, <1>29, <1>30, <1>31, <1>32, <1>33, <1>34,
          WorkersAreCalls DEF Next, Step, Disturbance, Parent

Lanes == IF Dedicated THEN {"exploration", "verification", "judge"} ELSE {"shared"}
IParallel ==
    /\ \A s \in Lanes : Cardinality(Holders(s)) <= Slots(s)
    /\ Cardinality(BatchHolders) <= BatchSlots

(* Holders are finitely many.                                              *)
LEMMA HoldersFinite ==
    /\ \A s : IsFiniteSet(Holders(s)) /\ Cardinality(Holders(s)) \in Nat
    /\ request \in Requests => IsFiniteSet(BatchHolders) /\ Cardinality(BatchHolders) \in Nat
  <1>1. IsFiniteSet(Calls)
      BY CallAssumption
  <1>2. \A T \in SUBSET Calls : IsFiniteSet(T) /\ Cardinality(T) \in Nat
      BY <1>1, FS_Subset, FS_CardinalityType
  <1>3. \A s : Holders(s) \in SUBSET Calls
      BY DEF Holders
  <1>4. request \in Requests => BatchHolders \in SUBSET Calls
      BY WorkersAreCalls DEF BatchHolders, Batch, Requests
  <1> QED
      BY <1>2, <1>3, <1>4

(* Where nobody enters, the holders become fewer.                          *)
LEMMA FewerHolders ==
    ASSUME Typed, IParallel, NobodyEnters
    PROVE  IParallel'
  <1>1. limits' = limits /\ request' = request /\ Dedicated' = Dedicated
      BY DEF NobodyEnters, Dedicated
  <1>2. ASSUME NEW s \in Lanes PROVE Cardinality(Holders(s)') <= Cardinality(Holders(s))
    <2>1. Holders(s)' \in SUBSET Holders(s)
        BY <1>1 DEF NobodyEnters, Holders, SemaphoreFor
    <2> QED
        BY <2>1, HoldersFinite, FS_Subset
  <1>3. ASSUME NEW s \in Lanes PROVE Cardinality(Holders(s)') \in Nat /\ Slots(s)' = Slots(s)
    <2>1. Holders(s)' \in SUBSET Holders(s)
        BY <1>1 DEF NobodyEnters, Holders, SemaphoreFor
    <2> QED
        BY <1>1, <2>1, HoldersFinite, FS_Subset, FS_CardinalityType DEF Slots
  <1>4. Cardinality(BatchHolders') <= Cardinality(BatchHolders) /\ Cardinality(BatchHolders') \in Nat
    <2>1. BatchHolders' \in SUBSET BatchHolders
        BY <1>1 DEF NobodyEnters, BatchHolders, Batch
    <2>2. IsFiniteSet(BatchHolders)
        BY HoldersFinite DEF Typed
    <2> QED
        BY <2>1, <2>2, FS_Subset, FS_CardinalityType
  <1>5. BatchSlots' = BatchSlots /\ Lanes' = Lanes /\ BatchSlots \in Int
      BY <1>1 DEF BatchSlots, Lanes, Typed, Limits, Requests
  <1>6. \A s \in Lanes : Slots(s) \in Int
      BY DEF Lanes, Slots, Typed, Limits
  <1>7. \A s \in Lanes' : Cardinality(Holders(s)') <= Slots(s)'
      BY <1>2, <1>3, <1>5, <1>6, HoldersFinite DEF IParallel
  <1>8. Cardinality(BatchHolders') <= BatchSlots'
      BY <1>4, <1>5, HoldersFinite DEF IParallel, Typed
  <1> QED
      BY <1>7, <1>8 DEF IParallel

(* A lane that grants a slot has one left.                                 *)
LEMMA GrantHolders ==
    ASSUME Typed, IParallel, NEW d \in Calls, Grant(d)
    PROVE  IParallel'
  <1>1. limits' = limits /\ request' = request /\ Dedicated' = Dedicated
      BY DEF Grant, group, Dedicated
  <1>2. pc' = [pc EXCEPT ![d] = "granted"] /\ pc[d] = "queued"
      BY DEF Grant, Go
  <1>3. BatchHolders' = BatchHolders /\ BatchSlots' = BatchSlots /\ Lanes' = Lanes
      BY <1>1, <1>2, WorkersAreCalls
      DEF BatchHolders, BatchSlots, Lanes, Batch, InSlot, Typed, Requests
  <1>4. \A s \in Lanes : Slots(s)' = Slots(s) /\ Slots(s) \in Int
      BY <1>1 DEF Lanes, Slots, Typed, Limits
  <1>5. ASSUME NEW s \in Lanes PROVE Cardinality(Holders(s)') <= Slots(s)'
    <2>1. CASE s # SemaphoreFor(d)
      <3>1. Holders(s)' = Holders(s)
          BY <1>1, <1>2, <2>1 DEF Holders, SemaphoreFor, Typed
      <3> QED
          BY <1>4, <1>5, <3>1 DEF IParallel
    <2>2. CASE s = SemaphoreFor(d)
      <3>1. Holders(s)' = Holders(s) \cup {d}
          BY <1>1, <1>2, <2>2 DEF Holders, SemaphoreFor, Holding, Typed
      <3>2. d \notin Holders(s)
          BY <1>2 DEF Holders, Holding
      <3>3. Cardinality(Holders(s) \cup {d}) = Cardinality(Holders(s)) + 1
          BY <3>2, HoldersFinite, FS_AddElement
      <3>4. Cardinality(Holders(s)) < Slots(s)
          BY <2>2 DEF Grant
      <3> QED
          BY <1>4, <1>5, <3>1, <3>3, <3>4, HoldersFinite
    <2> QED
        BY <2>1, <2>2
  <1> QED
      BY <1>3, <1>5 DEF IParallel

(* A batch that hands out a slot has one left.                             *)
LEMMA TakeSlotHolders ==
    ASSUME Typed, IParallel, NEW d \in Calls, TakeSlot(d)
    PROVE  IParallel'
  <1>1. limits' = limits /\ request' = request /\ Dedicated' = Dedicated
      BY DEF TakeSlot, group, Dedicated
  <1>2. pc' = [pc EXCEPT ![d] = "starting"] /\ pc[d] = "charged" /\ d \in Batch
      BY DEF TakeSlot, Go
  <1>3. \A s : Holders(s)' = Holders(s)
      BY <1>1, <1>2 DEF Holders, SemaphoreFor, Holding, Typed
  <1>4. \A s \in Lanes : Slots(s)' = Slots(s)
      BY <1>1 DEF Slots
  <1>5. BatchSlots' = BatchSlots /\ Lanes' = Lanes /\ BatchSlots \in Int
      BY <1>1 DEF BatchSlots, Lanes, Typed, Limits, Requests
  <1>6. BatchHolders' = BatchHolders \cup {d} /\ d \notin BatchHolders
      BY <1>1, <1>2, WorkersAreCalls DEF BatchHolders, Batch, InSlot, Typed, Requests
  <1>7. Cardinality(BatchHolders \cup {d}) = Cardinality(BatchHolders) + 1
      BY <1>6, HoldersFinite, FS_AddElement DEF Typed
  <1>8. Cardinality(BatchHolders) < BatchSlots
      BY DEF TakeSlot
  <1>9. Cardinality(BatchHolders') <= BatchSlots'
      BY <1>5, <1>6, <1>7, <1>8, HoldersFinite DEF Typed
  <1> QED
      BY <1>3, <1>4, <1>5, <1>9 DEF IParallel

(* Disjoint sets have as many elements as both.                            *)
LEMMA DisjointUnion ==
    ASSUME NEW A, NEW B, IsFiniteSet(A), IsFiniteSet(B), A \cap B = {}
    PROVE  /\ IsFiniteSet(A \cup B) /\ Cardinality(A \cup B) \in Nat
           /\ Cardinality(A \cup B) <= Cardinality(A) + Cardinality(B)
  <1>1. Cardinality(A \cup B) = Cardinality(A) + Cardinality(B) - Cardinality(A \cap B)
      BY FS_Union
  <1>2. Cardinality(A \cap B) = 0
      BY FS_EmptySet
  <1>3. IsFiniteSet(A \cup B)
      BY FS_Union
  <1>4. Cardinality(A) \in Nat /\ Cardinality(B) \in Nat /\ Cardinality(A \cup B) \in Nat
      BY <1>3, FS_CardinalityType
  <1> QED
      BY <1>1, <1>2, <1>3, <1>4

(* The lanes together hold no more than the turn may run.                  *)
LEMMA LanesShare ==
    ASSUME Typed, IParallel
    PROVE  ParallelBounded
  <1> DEFINE all == {c \in Calls : pc[c] \in Holding}
             e == Holders("exploration")
             v == Holders("verification")
             j == Holders("judge")
  <1>1. Cardinality({w \in Batch : pc[w] \in InSlot}) <= BatchSlots
      BY DEF IParallel, BatchHolders
  <1>2. CASE ~Dedicated
    <2>1. all = Holders("shared")
        BY <1>2 DEF Holders, SemaphoreFor
    <2> QED
        BY <1>1, <1>2, <2>1 DEF IParallel, Lanes, Slots, ParallelBounded
  <1>3. CASE Dedicated
    <2>1. all = (e \cup v) \cup j
        BY <1>3 DEF Holders, SemaphoreFor, LaneOf
    <2>2. Cardinality(e) <= limits.parallel - 2 /\ Cardinality(v) <= 1 /\ Cardinality(j) <= 1
        BY <1>3 DEF IParallel, Lanes, Slots
    <2>3. /\ IsFiniteSet(e) /\ IsFiniteSet(v) /\ IsFiniteSet(j)
          /\ Cardinality(e) \in Nat /\ Cardinality(v) \in Nat /\ Cardinality(j) \in Nat
        BY HoldersFinite
    <2>4. /\ IsFiniteSet(e \cup v) /\ Cardinality(e \cup v) \in Nat
          /\ Cardinality(e \cup v) <= Cardinality(e) + Cardinality(v)
      <3>1. e \cap v = {}
          BY <1>3 DEF Holders, SemaphoreFor
      <3> QED
          BY <2>3, <3>1, DisjointUnion
    <2>5. Cardinality(all) <= Cardinality(e \cup v) + Cardinality(j) /\ Cardinality(all) \in Nat
      <3>1. (e \cup v) \cap j = {}
          BY <1>3 DEF Holders, SemaphoreFor
      <3> QED
          BY <2>1, <2>3, <2>4, <3>1, DisjointUnion
    <2>6. limits.parallel \in Int
        BY DEF Typed, Limits
    <2>7. Cardinality(all) <= limits.parallel
        BY <2>2, <2>3, <2>4, <2>5, <2>6
    <2> QED
        BY <1>1, <2>7 DEF ParallelBounded
  <1> QED
      BY <1>2, <1>3

(* delegation_scheduler.rs with_limits and admit, mod.rs                   *)
(* acquire_batch_slot: never more delegated calls hold a lane than         *)
(* max_parallel, and never more workers of a batch run than its own limit. *)
THEOREM ParallelIsBounded == Spec => []ParallelBounded
  <1>1. Init => Typed /\ IParallel
    <2> SUFFICES ASSUME Init PROVE Typed /\ IParallel
        OBVIOUS
    <2>1. Typed
        BY TypedInit
    <2>2. \A s : Holders(s) = {}
        BY DEF Init, Holders, Holding
    <2>3. BatchHolders = {}
        BY <2>1, WorkersAreCalls DEF Init, BatchHolders, Batch, InSlot, Typed, Requests
    <2>4. \A s \in Lanes : 0 <= Slots(s)
        BY <2>1 DEF Lanes, Slots, Dedicated, Typed, Limits
    <2>5. 0 <= BatchSlots
        BY <2>1 DEF BatchSlots, Typed, Limits, Requests
    <2> QED
        BY <2>1, <2>2, <2>3, <2>4, <2>5, FS_EmptySet DEF IParallel
  <1>2. (Typed /\ IParallel) /\ [Next]_vars => (Typed /\ IParallel)'
      BY TypedStep, EntrySteps, FewerHolders, GrantHolders, TakeSlotHolders
  <1>3. Typed /\ IParallel => ParallelBounded
      BY LanesShare
  <1> QED
      BY <1>1, <1>2, <1>3, PTL DEF Spec

-----------------------------------------------------------------------------
(* The credits of a set of calls.                                          *)

(* A non-empty set of numbers has a least member.                          *)
LEMMA LeastNumber ==
    ASSUME NEW S \in SUBSET Nat, S # {}
    PROVE  \E x \in S : \A y \in S : x <= y
  <1> DEFINE R == OpToRel(<, Nat)
  <1>1. IsWellFoundedOn(R, Nat)
      BY NatLessThanWellFounded
  <1>2. PICK x \in S : \A y \in S : ~(<<y, x>> \in R)
      BY <1>1, WFMin
  <1>3. ASSUME NEW y \in S PROVE x <= y
    <2>1. x \in Nat /\ y \in Nat
        OBVIOUS
    <2>2. y < x => <<y, x>> \in R
        BY <2>1 DEF OpToRel
    <2>3. ~(y < x)
        BY <1>2, <2>2
    <2> QED
        BY <2>1, <2>3
  <1> QED
      BY <1>3

(* Induction over the numbers, for a set.                                  *)
LEMMA SetInduction ==
    ASSUME NEW S, 0 \in S, \A n \in Nat : n \in S => n + 1 \in S
    PROVE  \A n \in Nat : n \in S
  <1> DEFINE Rest == {n \in Nat : n \notin S}
  <1> SUFFICES ASSUME Rest # {} PROVE FALSE
      OBVIOUS
  <1>1. PICK x \in Rest : \A y \in Rest : x <= y
      BY LeastNumber
  <1>2. x \in Nat /\ x # 0
      BY <1>1
  <1>3. x - 1 \in Nat /\ ~(x <= x - 1) /\ (x - 1) + 1 = x
      BY <1>2
  <1>4. x - 1 \in S
      BY <1>1, <1>3
  <1>5. x \in S
      BY <1>3, <1>4
  <1> QED
      BY <1>1, <1>5

(* Calls that are counted are finitely many, and one less without any of   *)
(* them.                                                                   *)
LEMMA CallSets ==
    /\ \A S \in SUBSET Calls : IsFiniteSet(S) /\ Cardinality(S) \in Nat
                               /\ Cardinality(S) <= Cardinality(Calls)
    /\ Cardinality(Calls) \in Nat
    /\ \A S \in SUBSET Calls, c \in Calls :
         /\ c \in S => Cardinality(S \ {c}) = Cardinality(S) - 1
         /\ c \notin S => Cardinality(S \cup {c}) = Cardinality(S) + 1
    /\ \A S \in SUBSET Calls : Cardinality(S) = 0 <=> S = {}
  <1>1. IsFiniteSet(Calls)
      BY CallAssumption
  <1>2. ASSUME NEW S \in SUBSET Calls
        PROVE  /\ IsFiniteSet(S) /\ Cardinality(S) \in Nat
               /\ Cardinality(S) <= Cardinality(Calls)
      BY <1>1, FS_Subset, FS_CardinalityType
  <1>3. ASSUME NEW S \in SUBSET Calls, NEW c \in Calls
        PROVE  /\ c \in S => Cardinality(S \ {c}) = Cardinality(S) - 1
               /\ c \notin S => Cardinality(S \cup {c}) = Cardinality(S) + 1
      BY <1>2, FS_AddElement, FS_RemoveElement
  <1>4. \A S \in SUBSET Calls : Cardinality(S) = 0 <=> S = {}
      BY <1>2, FS_EmptySet
  <1> QED
      BY <1>1, <1>2, <1>3, <1>4, FS_CardinalityType

(* The call that CreditSum takes first.                                    *)
First(S) == CHOOSE c \in S : TRUE

LEMMA FirstIsMember ==
    ASSUME NEW S \in SUBSET Calls, S # {}
    PROVE  First(S) \in S /\ First(S) \in Calls /\ S \ {First(S)} \in SUBSET Calls
  BY DEF First

(* CreditSum follows its definition.                                       *)
LEMMA CreditSumUnfolds ==
    /\ CreditSum[{}] = 0
    /\ \A S \in SUBSET Calls :
         S # {} => CreditSum[S] = Credit[First(S)] + CreditSum[S \ {First(S)}]
  <1> DEFINE Upto(n) == {S \in SUBSET Calls : Cardinality(S) <= n}
             Value(f, S) == IF S = {} THEN 0 ELSE Credit[First(S)] + f[S \ {First(S)}]
             Good == {n \in Nat : \E f : f = [S \in Upto(n) |-> Value(f, S)]}
  <1>1. 0 \in Good
    <2> DEFINE f == [S \in Upto(0) |-> 0]
    <2>1. ASSUME NEW S \in Upto(0) PROVE S = {}
        BY CallSets
    <2>2. f = [S \in Upto(0) |-> Value(f, S)]
        BY <2>1
    <2> QED
        BY <2>2
  <1>2. ASSUME NEW n \in Nat, n \in Good PROVE n + 1 \in Good
    <2>1. PICK f : f = [S \in Upto(n) |-> Value(f, S)]
        BY <1>2
    <2> DEFINE g == [S \in Upto(n + 1) |-> Value(f, S)]
    <2>2. ASSUME NEW S \in Upto(n + 1) PROVE Value(f, S) = Value(g, S)
      <3>1. CASE S = {}
          BY <3>1
      <3>2. CASE S # {}
        <4> DEFINE T == S \ {First(S)}
        <4>1. First(S) \in S /\ First(S) \in Calls /\ T \in SUBSET Calls
            BY <3>2, FirstIsMember
        <4>2. Cardinality(T) = Cardinality(S) - 1 /\ Cardinality(S) \in Nat
            BY <4>1, CallSets
        <4>3. Cardinality(S) <= n + 1
            BY <2>2
        <4>4. Cardinality(T) <= n /\ Cardinality(T) <= n + 1
            BY <4>2, <4>3
        <4>5. T \in Upto(n) /\ T \in Upto(n + 1)
            BY <4>1, <4>4
        <4> HIDE DEF T
        <4>6. f[T] = Value(f, T) /\ g[T] = Value(f, T)
            BY <2>1, <4>5
        <4> QED
            BY <3>2, <4>6 DEF T
      <3> QED
          BY <3>1, <3>2
    <2>3. g = [S \in Upto(n + 1) |-> Value(g, S)]
        BY <2>2
    <2>4. \E h : h = [S \in Upto(n + 1) |-> Value(h, S)]
      <3> HIDE DEF g, Value, Upto
      <3> QED
          BY <2>3
    <2>5. n + 1 \in Nat
        OBVIOUS
    <2> QED
      <3> HIDE DEF Value, Upto
      <3> QED
          BY <2>4, <2>5
  <1>3. Cardinality(Calls) \in Good
    <2> HIDE DEF Good
    <2> QED
        BY <1>1, <1>2, SetInduction, CallSets
  <1>4. Upto(Cardinality(Calls)) = SUBSET Calls
      BY CallSets
  <1>5. PICK f : f = [S \in SUBSET Calls |-> Value(f, S)]
      BY <1>3, <1>4
  <1>6. CreditSum = CHOOSE g : g = [S \in SUBSET Calls |-> Value(g, S)]
      BY DEF CreditSum, First
  <1>7. CreditSum = [S \in SUBSET Calls |-> Value(CreditSum, S)]
    <2> HIDE DEF Value
    <2> QED
      BY <1>5, <1>6
  <1>8. \A S \in SUBSET Calls : CreditSum[S] = Value(CreditSum, S)
    <2> HIDE DEF Value
    <2> QED
      BY <1>7
  <1>9. {} \in SUBSET Calls
      OBVIOUS
  <1> QED
      BY <1>8, <1>9

(* A sum of credits is a number.                                           *)
LEMMA CreditSumTyped == \A S \in SUBSET Calls : CreditSum[S] \in Nat
  <1> DEFINE Good == {n \in Nat : \A S \in SUBSET Calls :
                         Cardinality(S) = n => CreditSum[S] \in Nat}
  <1>1. 0 \in Good
      BY CallSets, CreditSumUnfolds
  <1>2. ASSUME NEW n \in Nat, n \in Good PROVE n + 1 \in Good
    <2>1. ASSUME NEW S \in SUBSET Calls, Cardinality(S) = n + 1
          PROVE  CreditSum[S] \in Nat
      <3>1. S # {}
          BY <2>1, CallSets
      <3>2. First(S) \in S /\ First(S) \in Calls /\ S \ {First(S)} \in SUBSET Calls
          BY <3>1, FirstIsMember
      <3>3. Cardinality(S \ {First(S)}) = n
          BY <2>1, <3>2, CallSets
      <3>4. CreditSum[S \ {First(S)}] \in Nat
          BY <1>2, <3>2, <3>3
      <3>5. Credit[First(S)] \in Nat
          BY <3>2, LimitAssumption
      <3>6. CreditSum[S] = Credit[First(S)] + CreditSum[S \ {First(S)}]
          BY <3>1, CreditSumUnfolds
      <3> QED
          BY <3>4, <3>5, <3>6
    <2> QED
        BY <2>1
  <1>3. \A n \in Nat : n \in Good
    <2> HIDE DEF Good
    <2> QED
        BY <1>1, <1>2, SetInduction
  <1> QED
      BY <1>3, CallSets

(* The sum does not depend on the order in which the calls are taken: any  *)
(* call's credit can be split off.                                         *)
LEMMA CreditSumSplits ==
    \A S \in SUBSET Calls, c \in Calls :
       c \notin S => CreditSum[S \cup {c}] = Credit[c] + CreditSum[S]
  <1> DEFINE Good == {n \in Nat : \A S \in SUBSET Calls, c \in Calls :
                        Cardinality(S) = n /\ c \notin S =>
                        CreditSum[S \cup {c}] = Credit[c] + CreditSum[S]}
  <1>0. \A c \in Calls : Credit[c] \in Nat
      BY LimitAssumption
  <1>1. 0 \in Good
    <2>1. ASSUME NEW c \in Calls PROVE CreditSum[{} \cup {c}] = Credit[c] + CreditSum[{}]
      <3>1. {c} \in SUBSET Calls /\ {c} # {} /\ First({c}) = c
          BY DEF First
      <3>2. {c} \ {First({c})} = {} /\ {} \cup {c} = {c}
          BY <3>1
      <3>3. CreditSum[{c}] = Credit[First({c})] + CreditSum[{c} \ {First({c})}]
          BY <3>1, CreditSumUnfolds
      <3> QED
          BY <3>1, <3>2, <3>3
    <2> QED
        BY <2>1, CallSets
  <1>2. ASSUME NEW n \in Nat, n \in Good PROVE n + 1 \in Good
    <2>1. ASSUME NEW S \in SUBSET Calls, NEW c \in Calls, Cardinality(S) = n + 1, c \notin S
          PROVE  CreditSum[S \cup {c}] = Credit[c] + CreditSum[S]
      <3> DEFINE T == S \cup {c}
                 d == First(T)
                 R == S \ {d}
      <3>1. T \in SUBSET Calls /\ T # {}
          OBVIOUS
      <3>2. d \in T /\ d \in Calls
          BY <3>1, FirstIsMember
      <3>3. CreditSum[T] = Credit[d] + CreditSum[T \ {d}]
          BY <3>1, CreditSumUnfolds
      <3> HIDE DEF d
      <3>4. CASE d = c
        <4>1. T \ {d} = S
            BY <2>1, <3>4
        <4> QED
            BY <3>3, <3>4, <4>1
      <3>5. CASE d # c
        <4>1. d \in S /\ R \in SUBSET Calls /\ c \notin R /\ d \notin R
            BY <2>1, <3>2, <3>5
        <4>2. T \ {d} = R \cup {c} /\ S = R \cup {d}
            BY <4>1, <3>5
        <4>3. Cardinality(R) = n
            BY <2>1, <3>2, <4>1, CallSets
        <4> HIDE DEF T, R
        <4>4. CreditSum[R \cup {c}] = Credit[c] + CreditSum[R]
            BY <1>2, <4>1, <4>3
        <4>5. CreditSum[R \cup {d}] = Credit[d] + CreditSum[R]
            BY <1>2, <3>2, <4>1, <4>3
        <4>6. Credit[c] \in Nat /\ Credit[d] \in Nat /\ CreditSum[R] \in Nat
            BY <1>0, <3>2, <4>1, CreditSumTyped
        <4>7. CreditSum[T] = Credit[d] + (Credit[c] + CreditSum[R])
            BY <3>3, <4>2, <4>4
        <4>8. CreditSum[S] = Credit[d] + CreditSum[R]
            BY <4>2, <4>5
        <4>9. CreditSum[T] = Credit[c] + CreditSum[S]
            BY <4>6, <4>7, <4>8
        <4> QED
            BY <4>9 DEF T
      <3> QED
          BY <3>4, <3>5
    <2> QED
        BY <2>1
  <1>3. \A n \in Nat : n \in Good
    <2> HIDE DEF Good
    <2> QED
        BY <1>1, <1>2, SetInduction
  <1> QED
      BY <1>3, CallSets

-----------------------------------------------------------------------------
(* The books of the turn.                                                  *)

(* Where a call that keeps its credit can be: its execution is over.       *)
LeakedEnded ==
    /\ leaked \in SUBSET Calls
    /\ \A c \in leaked :
          outcome[c] \in Ran /\ pc[c] \in {"returning", "settling", "notifying", "done"}

(* A call that keeps its credit never gets back to work.                   *)
LEMMA LeakedStep == ASSUME Typed, IStory, LeakedEnded, [Next]_vars PROVE LeakedEnded'
  <1>1. ASSUME NEW d \in Calls, Begin(d) PROVE LeakedEnded'
      BY <1>1, WorkersAreCalls DEF Typed, IStory, Story, LeakedEnded, Positions,
          Holding, Charged, Ran, Requests, Batch, Begin, Go, WakeAll, budget, group
  <1>2. ASSUME NEW d \in Calls, BeginFails(d) PROVE LeakedEnded'
      BY <1>2, WorkersAreCalls DEF Typed, IStory, Story, LeakedEnded, Positions,
          Holding, Charged, Ran, Requests, Batch, BeginFails, Go, WakeAll, Fails,
          budget, group
  <1>3. ASSUME NEW d \in Calls, PrepareFails(d) PROVE LeakedEnded'
      BY <1>3, WorkersAreCalls DEF Typed, IStory, Story, LeakedEnded, Positions,
          Holding, Charged, Ran, Requests, Batch, PrepareFails, Go, Fails, budget, group
  <1>4. ASSUME NEW d \in Calls, Enqueue(d) PROVE LeakedEnded'
      BY <1>4, WorkersAreCalls DEF Typed, IStory, Story, LeakedEnded, Positions,
          Holding, Charged, Ran, Requests, Batch, Enqueue, Go, Asks, budget, group
  <1>5. ASSUME NEW d \in Calls, EnqueueRefused(d) PROVE LeakedEnded'
      BY <1>5, WorkersAreCalls DEF Typed, IStory, Story, LeakedEnded, Positions,
          Holding, Charged, Ran, Requests, Batch, EnqueueRefused, EndUnstarted,
          CloseRow, Go, After, Asks, budget, group
  <1>6. ASSUME NEW d \in Calls, Grant(d) PROVE LeakedEnded'
      BY <1>6, WorkersAreCalls DEF Typed, IStory, Story, LeakedEnded, Positions,
          Holding, Charged, Ran, Requests, Batch, Grant, Go, budget, group
  <1>7. ASSUME NEW d \in Calls, Charge(d) PROVE LeakedEnded'
      BY <1>7, WorkersAreCalls DEF Typed, IStory, Story, LeakedEnded, Positions,
          Holding, Charged, Ran, Requests, Batch, Charge, Pay, Go, budget, group
  <1>8. ASSUME NEW d \in Calls, ChargeRefused(d) PROVE LeakedEnded'
      BY <1>8, WorkersAreCalls DEF Typed, IStory, Story, LeakedEnded, Positions,
          Holding, Charged, Ran, Requests, Batch, ChargeRefused, EndUnstarted, CloseRow,
          Go, After, budget, group
  <1>9. ASSUME NEW d \in Calls, TakeSlot(d) PROVE LeakedEnded'
      BY <1>9, WorkersAreCalls DEF Typed, IStory, Story, LeakedEnded, Positions,
          Holding, Charged, Ran, Requests, Batch, TakeSlot, Go, budget, group
  <1>10. ASSUME NEW d \in Calls, Start(d) PROVE LeakedEnded'
      BY <1>10, WorkersAreCalls DEF Typed, IStory, Story, LeakedEnded, Positions,
          Holding, Charged, Ran, Requests, Batch, Start, Go, budget, group
  <1>11. ASSUME NEW d \in Calls, ExecutionEnds(d) PROVE LeakedEnded'
      BY <1>11, WorkersAreCalls DEF Typed, IStory, Story, LeakedEnded, Positions,
          Holding, Charged, Ran, Requests, Batch, ExecutionEnds, Go, budget, group
  <1>12. ASSUME NEW d \in Calls, Account(d) PROVE LeakedEnded'
      BY <1>12, WorkersAreCalls DEF Typed, IStory, Story, LeakedEnded, Positions,
          Holding, Charged, Ran, Requests, Batch, Account, Go, After, CloseRow,
          RowStatus, budget, group
  <1>13. ASSUME NEW d \in Calls, Decide(d) PROVE LeakedEnded'
      BY <1>13, WorkersAreCalls DEF Typed, IStory, Story, LeakedEnded, Positions,
          Holding, Charged, Ran, Requests, Batch, Decide, Go, VerdictOf, budget, group
  <1>14. ASSUME NEW d \in Calls, Finish(d) PROVE LeakedEnded'
      BY <1>14, WorkersAreCalls DEF Typed, IStory, Story, LeakedEnded, Positions,
          Holding, Charged, Ran, Requests, Batch, Finish, Go, budget, group
  <1>15. ASSUME NEW d \in Calls, Notify(d) PROVE LeakedEnded'
      BY <1>15, WorkersAreCalls DEF Typed, IStory, Story, LeakedEnded, Positions,
          Holding, Charged, Ran, Requests, Batch, Notify, Go, WakeAll, budget, group
  <1>16. ASSUME NEW d \in Calls, SpawnFails(d) PROVE LeakedEnded'
      BY <1>16, WorkersAreCalls DEF Typed, IStory, Story, LeakedEnded, Positions,
          Holding, Charged, Ran, Requests, Batch, SpawnFails, Go, WakeAll, budget, group
  <1>17. ASSUME NEW d \in Calls, LaunchFails(d) PROVE LeakedEnded'
      BY <1>17, WorkersAreCalls DEF Typed, IStory, Story, LeakedEnded, Positions,
          Holding, Charged, Ran, Requests, Batch, LaunchFails, Go, Fails, budget, group
  <1>18. ASSUME NEW d \in Calls, LeaveLane(d) PROVE LeakedEnded'
      BY <1>18, WorkersAreCalls DEF Typed, IStory, Story, LeakedEnded, Positions,
          Holding, Charged, Ran, Requests, Batch, LeaveLane, EndUnstarted, CloseRow, Go,
          After, budget, group
  <1>19. ASSUME NEW d \in Calls, LeaveBatch(d) PROVE LeakedEnded'
      BY <1>19, WorkersAreCalls DEF Typed, IStory, Story, LeakedEnded, Positions,
          Holding, Charged, Ran, Requests, Batch, LeaveBatch, EndUnstarted, CloseRow,
          Go, After, budget, group
  <1>20. ASSUME NEW d \in Calls, StartFails(d) PROVE LeakedEnded'
      BY <1>20, WorkersAreCalls DEF Typed, IStory, Story, LeakedEnded, Positions,
          Holding, Charged, Ran, Requests, Batch, StartFails, Go, After, CloseRow,
          budget, group
  <1>21. ASSUME NEW d \in Calls, OwnerLookupFails(d) PROVE LeakedEnded'
      BY <1>21, WorkersAreCalls DEF Typed, IStory, Story, LeakedEnded, Positions,
          Holding, Charged, Ran, Requests, Batch, OwnerLookupFails, Go, CloseRow,
          budget, group
  <1>22. ASSUME NEW d \in Calls, JudgeAborted(d) PROVE LeakedEnded'
      BY <1>22, WorkersAreCalls DEF Typed, IStory, Story, LeakedEnded, Positions,
          Holding, Charged, Ran, Requests, Batch, JudgeAborted, Go, CloseRow, budget,
          group
  <1>23. ASSUME NEW d \in Workers, Spawn(d) PROVE LeakedEnded'
      BY <1>23, WorkersAreCalls DEF Typed, IStory, Story, LeakedEnded, Positions,
          Holding, Charged, Ran, Requests, Batch, Spawn, WakeAll, Go, budget, group
  <1>24. ASSUME NEW d \in Workers, Collect(d) PROVE LeakedEnded'
      BY <1>24, WorkersAreCalls DEF Typed, IStory, Story, LeakedEnded, Positions,
          Holding, Charged, Ran, Requests, Batch, Collect, budget, group
  <1>25. ASSUME NEW d \in Workers, CancelWorker(d) PROVE LeakedEnded'
      BY <1>25, WorkersAreCalls DEF Typed, IStory, Story, LeakedEnded, Positions,
          Holding, Charged, Ran, Requests, Batch, CancelWorker, WakeAll, budget, group
  <1>26. ASSUME NEW d \in Workers, CloseHandle(d) PROVE LeakedEnded'
      BY <1>26, WorkersAreCalls DEF Typed, IStory, Story, LeakedEnded, Positions,
          Holding, Charged, Ran, Requests, Batch, CloseHandle, WakeAll, budget, group
  <1>27. ASSUME NEW d \in Workers, WaitRegisters(d) PROVE LeakedEnded'
      BY <1>27, WorkersAreCalls DEF Typed, IStory, Story, LeakedEnded, Positions,
          Holding, Charged, Ran, Requests, Batch, WaitRegisters, budget, group
  <1>28. ASSUME NEW d \in Workers, WaitReads(d) PROVE LeakedEnded'
      BY <1>28, WorkersAreCalls DEF Typed, IStory, Story, LeakedEnded, Positions,
          Holding, Charged, Ran, Requests, Batch, WaitReads, budget, group
  <1>29. ASSUME NEW d \in Workers, WaitTimesOut(d) PROVE LeakedEnded'
      BY <1>29, WorkersAreCalls DEF Typed, IStory, Story, LeakedEnded, Positions,
          Holding, Charged, Ran, Requests, Batch, WaitTimesOut, budget, group
  <1>30. ASSUME SpawnBatch PROVE LeakedEnded'
      BY <1>30, WorkersAreCalls DEF Typed, IStory, Story, LeakedEnded, Positions,
          Holding, Charged, Ran, Requests, Batch, SpawnBatch, WakeAll, budget, group,
          Unspawned
  <1>31. ASSUME StopCollecting PROVE LeakedEnded'
      BY <1>31, WorkersAreCalls DEF Typed, IStory, Story, LeakedEnded, Positions,
          Holding, Charged, Ran, Requests, Batch, StopCollecting, budget, group
  <1>32. ASSUME CancelBatch PROVE LeakedEnded'
      BY <1>32, WorkersAreCalls DEF Typed, IStory, Story, LeakedEnded, Positions,
          Holding, Charged, Ran, Requests, Batch, CancelBatch, budget, group
  <1>33. ASSUME StopTurn PROVE LeakedEnded'
      BY <1>33, WorkersAreCalls DEF Typed, IStory, Story, LeakedEnded, Positions,
          Holding, Charged, Ran, Requests, Batch, StopTurn, budget, group
  <1>34. CASE UNCHANGED vars
      BY <1>34, WorkersAreCalls DEF Typed, IStory, Story, LeakedEnded, Positions,
          Holding, Charged, Ran, Requests, Batch, vars, budget, group
  <1> QED
      BY <1>1, <1>2, <1>3, <1>4, <1>5, <1>6, <1>7, <1>8, <1>9, <1>10, <1>11, <1>12,
          <1>13, <1>14, <1>15, <1>16, <1>17, <1>18, <1>19, <1>20, <1>21, <1>22, <1>23,
          <1>24, <1>25, <1>26, <1>27, <1>28, <1>29, <1>30, <1>31, <1>32, <1>33, <1>34,
          WorkersAreCalls DEF Next, Step, Disturbance, Parent

(* What a step does to the calls that hold a credit and to those that are  *)
(* counted: nothing, or the call pays, is taken back, or gives its credit  *)
(* back for what it used.                                                  *)
SameBooks ==
    /\ UNCHANGED <<calls, verifications, judgements, reserved>>
    /\ \A c \in Calls : /\ c \in Open' <=> c \in Open
                        /\ c \in Counted(Calls)' <=> c \in Counted(Calls)

Pays(d) ==
    /\ calls' = calls + 1
    /\ verifications' = verifications + (IF LaneOf(d) = "verification" THEN 1 ELSE 0)
    /\ judgements' = judgements + (IF LaneOf(d) = "judge" THEN 1 ELSE 0)
    /\ reserved' = reserved + Credit[d]
    /\ d \notin Open /\ d \notin Counted(Calls)
    /\ \A c \in Calls :
          /\ c \in Open' <=> c \in Open \/ c = d
          /\ c \in Counted(Calls)' <=> c \in Counted(Calls) \/ c = d

TakesBack(d) ==
    /\ RollBack(d)
    /\ d \in Open /\ d \in Counted(Calls)
    /\ \A c \in Calls :
          /\ c \in Open' <=> c \in Open /\ c # d
          /\ c \in Counted(Calls)' <=> c \in Counted(Calls) /\ c # d

Replaces(d) ==
    /\ UNCHANGED <<calls, verifications, judgements>>
    /\ reserved' = SaturatingSub(reserved, Credit[d])
    /\ d \in Open
    /\ \A c \in Calls :
          /\ c \in Open' <=> c \in Open /\ c # d
          /\ c \in Counted(Calls)' <=> c \in Counted(Calls)

(* Every step does one of the four.                                        *)
LEMMA BookSteps ==
    ASSUME Typed, IStory, LeakedEnded, [Next]_vars
    PROVE  SameBooks \/ \E d \in Calls : Pays(d) \/ TakesBack(d) \/ Replaces(d)
  <1>1. ASSUME NEW d \in Calls, Begin(d) PROVE SameBooks
      BY <1>1, WorkersAreCalls DEF SameBooks, Typed, IStory, Story, LeakedEnded, Open,
          Counted, Positions, Holding, Charged, Ran, Requests, Batch, Begin, Go,
          WakeAll, budget, group
  <1>2. ASSUME NEW d \in Calls, BeginFails(d) PROVE SameBooks
      BY <1>2, WorkersAreCalls DEF SameBooks, Typed, IStory, Story, LeakedEnded, Open,
          Counted, Positions, Holding, Charged, Ran, Requests, Batch, BeginFails, Go,
          WakeAll, Fails, budget, group
  <1>3. ASSUME NEW d \in Calls, PrepareFails(d) PROVE SameBooks
      BY <1>3, WorkersAreCalls DEF SameBooks, Typed, IStory, Story, LeakedEnded, Open,
          Counted, Positions, Holding, Charged, Ran, Requests, Batch, PrepareFails, Go,
          Fails, budget, group
  <1>4. ASSUME NEW d \in Calls, Enqueue(d) PROVE SameBooks
      BY <1>4, WorkersAreCalls DEF SameBooks, Typed, IStory, Story, LeakedEnded, Open,
          Counted, Positions, Holding, Charged, Ran, Requests, Batch, Enqueue, Go, Asks,
          budget, group
  <1>5. ASSUME NEW d \in Calls, EnqueueRefused(d) PROVE SameBooks
      BY <1>5, WorkersAreCalls DEF SameBooks, Typed, IStory, Story, LeakedEnded, Open,
          Counted, Positions, Holding, Charged, Ran, Requests, Batch, EnqueueRefused,
          EndUnstarted, CloseRow, Go, After, Asks, budget, group
  <1>6. ASSUME NEW d \in Calls, Grant(d) PROVE SameBooks
      BY <1>6, WorkersAreCalls DEF SameBooks, Typed, IStory, Story, LeakedEnded, Open,
          Counted, Positions, Holding, Charged, Ran, Requests, Batch, Grant, Go, budget,
          group
  <1>7. ASSUME NEW d \in Calls, Charge(d) PROVE Pays(d)
      BY <1>7, WorkersAreCalls DEF Pays, Typed, IStory, Story, LeakedEnded, Open,
          Counted, Positions, Holding, Charged, Ran, Requests, Batch, Charge, Pay, Go,
          budget, group
  <1>8. ASSUME NEW d \in Calls, ChargeRefused(d) PROVE SameBooks
      BY <1>8, WorkersAreCalls DEF SameBooks, Typed, IStory, Story, LeakedEnded, Open,
          Counted, Positions, Holding, Charged, Ran, Requests, Batch, ChargeRefused,
          EndUnstarted, CloseRow, Go, After, budget, group
  <1>9. ASSUME NEW d \in Calls, TakeSlot(d) PROVE SameBooks
      BY <1>9, WorkersAreCalls DEF SameBooks, Typed, IStory, Story, LeakedEnded, Open,
          Counted, Positions, Holding, Charged, Ran, Requests, Batch, TakeSlot, Go,
          budget, group
  <1>10. ASSUME NEW d \in Calls, Start(d) PROVE SameBooks
      BY <1>10, WorkersAreCalls DEF SameBooks, Typed, IStory, Story, LeakedEnded, Open,
          Counted, Positions, Holding, Charged, Ran, Requests, Batch, Start, Go, budget,
          group
  <1>11. ASSUME NEW d \in Calls, ExecutionEnds(d) PROVE SameBooks
      BY <1>11, WorkersAreCalls DEF SameBooks, Typed, IStory, Story, LeakedEnded, Open,
          Counted, Positions, Holding, Charged, Ran, Requests, Batch, ExecutionEnds, Go,
          budget, group
  <1>12. ASSUME NEW d \in Calls, Account(d) PROVE Replaces(d)
      BY <1>12, WorkersAreCalls DEF Replaces, Typed, IStory, Story, LeakedEnded, Open,
          Counted, Positions, Holding, Charged, Ran, Requests, Batch, Account, Go,
          After, CloseRow, budget, group, FinishCall
  <1>13. ASSUME NEW d \in Calls, Decide(d) PROVE SameBooks
      BY <1>13, WorkersAreCalls DEF SameBooks, Typed, IStory, Story, LeakedEnded, Open,
          Counted, Positions, Holding, Charged, Ran, Requests, Batch, Decide, Go,
          VerdictOf, budget, group
  <1>14. ASSUME NEW d \in Calls, Finish(d) PROVE SameBooks
      BY <1>14, WorkersAreCalls DEF SameBooks, Typed, IStory, Story, LeakedEnded, Open,
          Counted, Positions, Holding, Charged, Ran, Requests, Batch, Finish, Go,
          budget, group
  <1>15. ASSUME NEW d \in Calls, Notify(d) PROVE SameBooks
      BY <1>15, WorkersAreCalls DEF SameBooks, Typed, IStory, Story, LeakedEnded, Open,
          Counted, Positions, Holding, Charged, Ran, Requests, Batch, Notify, Go,
          WakeAll, budget, group
  <1>16. ASSUME NEW d \in Calls, SpawnFails(d) PROVE SameBooks
      BY <1>16, WorkersAreCalls DEF SameBooks, Typed, IStory, Story, LeakedEnded, Open,
          Counted, Positions, Holding, Charged, Ran, Requests, Batch, SpawnFails, Go,
          WakeAll, budget, group
  <1>17. ASSUME NEW d \in Calls, LaunchFails(d) PROVE SameBooks
      BY <1>17, WorkersAreCalls DEF SameBooks, Typed, IStory, Story, LeakedEnded, Open,
          Counted, Positions, Holding, Charged, Ran, Requests, Batch, LaunchFails, Go,
          Fails, budget, group
  <1>18. ASSUME NEW d \in Calls, LeaveLane(d) PROVE SameBooks
      BY <1>18, WorkersAreCalls DEF SameBooks, Typed, IStory, Story, LeakedEnded, Open,
          Counted, Positions, Holding, Charged, Ran, Requests, Batch, LeaveLane,
          EndUnstarted, CloseRow, Go, After, budget, group
  <1>19. ASSUME NEW d \in Calls, LeaveBatch(d) PROVE TakesBack(d)
      BY <1>19, WorkersAreCalls DEF TakesBack, Typed, IStory, Story, LeakedEnded, Open,
          Counted, Positions, Holding, Charged, Ran, Requests, Batch, LeaveBatch,
          EndUnstarted, CloseRow, Go, After, budget, group
  <1>20. ASSUME NEW d \in Calls, StartFails(d) PROVE TakesBack(d)
      BY <1>20, WorkersAreCalls DEF TakesBack, Typed, IStory, Story, LeakedEnded, Open,
          Counted, Positions, Holding, Charged, Ran, Requests, Batch, StartFails, Go,
          After, CloseRow, budget, group
  <1>21. ASSUME NEW d \in Calls, OwnerLookupFails(d) PROVE SameBooks
      BY <1>21, WorkersAreCalls DEF SameBooks, Typed, IStory, Story, LeakedEnded, Open,
          Counted, Positions, Holding, Charged, Ran, Requests, Batch, OwnerLookupFails,
          Go, CloseRow, budget, group
  <1>22. ASSUME NEW d \in Calls, JudgeAborted(d) PROVE SameBooks
      BY <1>22, WorkersAreCalls DEF SameBooks, Typed, IStory, Story, LeakedEnded, Open,
          Counted, Positions, Holding, Charged, Ran, Requests, Batch, JudgeAborted, Go,
          CloseRow, budget, group
  <1>23. ASSUME NEW d \in Workers, Spawn(d) PROVE SameBooks
      BY <1>23, WorkersAreCalls DEF SameBooks, Typed, IStory, Story, LeakedEnded, Open,
          Counted, Positions, Holding, Charged, Ran, Requests, Batch, Spawn, WakeAll,
          Go, budget, group
  <1>24. ASSUME NEW d \in Workers, Collect(d) PROVE SameBooks
      BY <1>24, WorkersAreCalls DEF SameBooks, Typed, IStory, Story, LeakedEnded, Open,
          Counted, Positions, Holding, Charged, Ran, Requests, Batch, Collect, budget,
          group
  <1>25. ASSUME NEW d \in Workers, CancelWorker(d) PROVE SameBooks
      BY <1>25, WorkersAreCalls DEF SameBooks, Typed, IStory, Story, LeakedEnded, Open,
          Counted, Positions, Holding, Charged, Ran, Requests, Batch, CancelWorker,
          WakeAll, budget, group
  <1>26. ASSUME NEW d \in Workers, CloseHandle(d) PROVE SameBooks
      BY <1>26, WorkersAreCalls DEF SameBooks, Typed, IStory, Story, LeakedEnded, Open,
          Counted, Positions, Holding, Charged, Ran, Requests, Batch, CloseHandle,
          WakeAll, budget, group
  <1>27. ASSUME NEW d \in Workers, WaitRegisters(d) PROVE SameBooks
      BY <1>27, WorkersAreCalls DEF SameBooks, Typed, IStory, Story, LeakedEnded, Open,
          Counted, Positions, Holding, Charged, Ran, Requests, Batch, WaitRegisters,
          budget, group
  <1>28. ASSUME NEW d \in Workers, WaitReads(d) PROVE SameBooks
      BY <1>28, WorkersAreCalls DEF SameBooks, Typed, IStory, Story, LeakedEnded, Open,
          Counted, Positions, Holding, Charged, Ran, Requests, Batch, WaitReads, budget,
          group
  <1>29. ASSUME NEW d \in Workers, WaitTimesOut(d) PROVE SameBooks
      BY <1>29, WorkersAreCalls DEF SameBooks, Typed, IStory, Story, LeakedEnded, Open,
          Counted, Positions, Holding, Charged, Ran, Requests, Batch, WaitTimesOut,
          budget, group
  <1>30. ASSUME SpawnBatch PROVE SameBooks
      BY <1>30, WorkersAreCalls DEF SameBooks, Typed, IStory, Story, LeakedEnded, Open,
          Counted, Positions, Holding, Charged, Ran, Requests, Batch, SpawnBatch,
          WakeAll, budget, group, Unspawned
  <1>31. ASSUME StopCollecting PROVE SameBooks
      BY <1>31, WorkersAreCalls DEF SameBooks, Typed, IStory, Story, LeakedEnded, Open,
          Counted, Positions, Holding, Charged, Ran, Requests, Batch, StopCollecting,
          budget, group
  <1>32. ASSUME CancelBatch PROVE SameBooks
      BY <1>32, WorkersAreCalls DEF SameBooks, Typed, IStory, Story, LeakedEnded, Open,
          Counted, Positions, Holding, Charged, Ran, Requests, Batch, CancelBatch,
          budget, group
  <1>33. ASSUME StopTurn PROVE SameBooks
      BY <1>33, WorkersAreCalls DEF SameBooks, Typed, IStory, Story, LeakedEnded, Open,
          Counted, Positions, Holding, Charged, Ran, Requests, Batch, StopTurn, budget,
          group
  <1>34. CASE UNCHANGED vars
      BY <1>34, WorkersAreCalls DEF SameBooks, Typed, IStory, Story, LeakedEnded, Open,
          Counted, Positions, Holding, Charged, Ran, Requests, Batch, vars, budget,
          group
  <1> QED
      BY <1>1, <1>2, <1>3, <1>4, <1>5, <1>6, <1>7, <1>8, <1>9, <1>10, <1>11, <1>12,
          <1>13, <1>14, <1>15, <1>16, <1>17, <1>18, <1>19, <1>20, <1>21, <1>22, <1>23,
          <1>24, <1>25, <1>26, <1>27, <1>28, <1>29, <1>30, <1>31, <1>32, <1>33, <1>34,
          WorkersAreCalls DEF Next, Step, Disturbance, Parent

(* The calls counted among the verifiers or the judges.                    *)
LEMMA CountedParts ==
    /\ Counted(Calls) \in SUBSET Calls
    /\ Counted(Verifiers) = Counted(Calls) \cap Verifiers
    /\ Counted(Judges) = Counted(Calls) \cap Judges
    /\ Counted(Verifiers)' = Counted(Calls)' \cap Verifiers
    /\ Counted(Judges)' = Counted(Calls)' \cap Judges
    /\ Counted(Calls)' \in SUBSET Calls
  BY WorkersAreCalls DEF Counted

(* A verifier is charged to its lane, a judge to its own.                  *)
LEMMA LaneMembers ==
    ASSUME NEW d \in Calls
    PROVE  /\ LaneOf(d) = "verification" <=> d \in Verifiers
           /\ LaneOf(d) = "judge" <=> d \in Judges
  BY WorkersAreCalls DEF LaneOf

(* Whatever a step does to the books, they balance after it: a credit that *)
(* is taken back was in the sum, and nothing is cut off at zero.           *)
LEMMA BalanceStep ==
    ASSUME BudgetBalances, leaked \in SUBSET Calls, leaked' \in SUBSET Calls,
           SameBooks \/ \E d \in Calls : Pays(d) \/ TakesBack(d) \/ Replaces(d)
    PROVE  BudgetBalances'
  <1> DEFINE C == Counted(Calls)
             D == Counted(Calls)'
  <1>1. Open \in SUBSET Calls /\ Open' \in SUBSET Calls
      BY DEF Open
  <1>2. /\ C \in SUBSET Calls /\ D \in SUBSET Calls
        /\ Counted(Verifiers) = C \cap Verifiers /\ Counted(Verifiers)' = D \cap Verifiers
        /\ Counted(Judges) = C \cap Judges /\ Counted(Judges)' = D \cap Judges
      BY CountedParts
  <1>3. /\ reserved = CreditSum[Open] /\ calls = Cardinality(C)
        /\ verifications = Cardinality(C \cap Verifiers)
        /\ judgements = Cardinality(C \cap Judges)
      BY <1>2 DEF BudgetBalances
  <1>4. SUFFICES /\ reserved' = CreditSum[Open'] /\ calls' = Cardinality(D)
                 /\ verifications' = Cardinality(D \cap Verifiers)
                 /\ judgements' = Cardinality(D \cap Judges)
      BY <1>2 DEF BudgetBalances
  <1> HIDE DEF C, D
  <1>5. /\ \A S, T \in SUBSET Calls : S \cap T \in SUBSET Calls
        /\ \A S \in SUBSET Calls : Cardinality(S) \in Nat /\ CreditSum[S] \in Nat
        /\ \A c \in Calls : Credit[c] \in Nat
      BY CallSets, CreditSumTyped, LimitAssumption
  <1>6. CASE SameBooks
    <2>1. Open' = Open /\ D = C
        BY <1>1, <1>2, <1>6 DEF SameBooks, C, D
    <2> QED
        BY <1>3, <1>6, <2>1 DEF SameBooks
  <1>7. ASSUME NEW d \in Calls, Pays(d)
        PROVE  /\ reserved' = CreditSum[Open'] /\ calls' = Cardinality(D)
               /\ verifications' = Cardinality(D \cap Verifiers)
               /\ judgements' = Cardinality(D \cap Judges)
    <2>1. /\ Open' = Open \cup {d} /\ d \notin Open
          /\ D = C \cup {d} /\ d \notin C
        BY <1>1, <1>2, <1>7 DEF Pays, C, D
    <2>2. reserved' = CreditSum[Open']
      <3>1. CreditSum[Open'] = Credit[d] + CreditSum[Open]
          BY <1>1, <2>1, CreditSumSplits
      <3>2. CreditSum[Open] \in Nat /\ Credit[d] \in Nat
          BY <1>1, <1>5
      <3> QED
          BY <1>3, <1>7, <3>1, <3>2 DEF Pays
    <2>3. calls' = Cardinality(D)
        BY <1>2, <1>3, <1>7, <2>1, CallSets DEF Pays
    <2>4. ASSUME NEW T \in SUBSET Calls
          PROVE  Cardinality(D \cap T) = Cardinality(C \cap T) + (IF d \in T THEN 1 ELSE 0)
      <3>1. C \cap T \in SUBSET Calls /\ d \notin C \cap T /\ Cardinality(C \cap T) \in Nat
          BY <1>2, <1>5, <2>1
      <3>2. CASE d \in T
        <4>1. D \cap T = (C \cap T) \cup {d}
            BY <2>1, <3>2
        <4>2. Cardinality((C \cap T) \cup {d}) = Cardinality(C \cap T) + 1
            BY <3>1, CallSets
        <4> QED
            BY <3>2, <4>1, <4>2
      <3>3. CASE d \notin T
        <4>1. D \cap T = C \cap T
            BY <2>1, <3>3
        <4>2. \A n \in Nat : n = n + 0
            OBVIOUS
        <4>3. Cardinality(C \cap T) = Cardinality(C \cap T) + 0
            BY <3>1, <4>2
        <4> QED
            BY <3>3, <4>1, <4>3
      <3> QED
          BY <3>2, <3>3
    <2>5. Verifiers \in SUBSET Calls /\ Judges \in SUBSET Calls
        BY WorkersAreCalls
    <2>6. verifications' = Cardinality(D \cap Verifiers)
        BY <1>3, <1>7, <2>4, <2>5, LaneMembers DEF Pays
    <2>7. judgements' = Cardinality(D \cap Judges)
        BY <1>3, <1>7, <2>4, <2>5, LaneMembers DEF Pays
    <2> QED
        BY <2>2, <2>3, <2>6, <2>7
  <1>8. ASSUME NEW d \in Calls, d \in Open, \A c \in Calls : c \in Open' <=> c \in Open /\ c # d,
               reserved' = SaturatingSub(reserved, Credit[d])
        PROVE  reserved' = CreditSum[Open']
    <2> DEFINE R == Open \ {d}
    <2>1. Open' = R /\ Open = R \cup {d} /\ d \notin R /\ R \in SUBSET Calls
        BY <1>1, <1>8
    <2> HIDE DEF R
    <2>2. CreditSum[Open] = Credit[d] + CreditSum[R]
        BY <2>1, CreditSumSplits
    <2>3. CreditSum[R] \in Nat /\ Credit[d] \in Nat
        BY <1>5, <2>1
    <2> QED
        BY <1>3, <1>8, <2>1, <2>2, <2>3 DEF SaturatingSub
  <1>9. ASSUME NEW d \in Calls, TakesBack(d)
        PROVE  /\ reserved' = CreditSum[Open'] /\ calls' = Cardinality(D)
               /\ verifications' = Cardinality(D \cap Verifiers)
               /\ judgements' = Cardinality(D \cap Judges)
    <2>1. D = C \ {d} /\ d \in C
        BY <1>2, <1>9 DEF TakesBack, C, D
    <2>2. reserved' = CreditSum[Open']
        BY <1>8, <1>9 DEF TakesBack, RollBack
    <2>3. ASSUME NEW T \in SUBSET Calls
          PROVE  Cardinality(D \cap T) = IF d \in T THEN SaturatingSub(Cardinality(C \cap T), 1)
                                         ELSE Cardinality(C \cap T)
      <3>1. C \cap T \in SUBSET Calls /\ D \cap T \in SUBSET Calls
            /\ Cardinality(C \cap T) \in Nat /\ Cardinality(D \cap T) \in Nat
          BY <1>2, <1>5
      <3>2. CASE d \in T
        <4>1. D \cap T = (C \cap T) \ {d} /\ d \in C \cap T
            BY <2>1, <3>2
        <4>2. Cardinality((C \cap T) \ {d}) = Cardinality(C \cap T) - 1
            BY <3>1, <4>1, CallSets
        <4>3. \A m, n \in Nat : m = n - 1 => m = SaturatingSub(n, 1)
            BY DEF SaturatingSub
        <4>4. Cardinality(D \cap T) = Cardinality(C \cap T) - 1
            BY <4>1, <4>2
        <4>5. Cardinality(D \cap T) = SaturatingSub(Cardinality(C \cap T), 1)
            BY <3>1, <4>3, <4>4
        <4> QED
            BY <3>2, <4>5
      <3>3. CASE d \notin T
        <4>1. D \cap T = C \cap T
            BY <2>1, <3>3
        <4> QED
            BY <3>3, <4>1
      <3> QED
          BY <3>2, <3>3
    <2>4. Verifiers \in SUBSET Calls /\ Judges \in SUBSET Calls /\ Calls \in SUBSET Calls
          /\ C \cap Calls = C /\ D \cap Calls = D
        BY <1>2, WorkersAreCalls
    <2>5. Cardinality(D) = SaturatingSub(Cardinality(C), 1)
        BY <2>3, <2>4
    <2>6. calls' = Cardinality(D)
        BY <1>3, <1>9, <2>5 DEF TakesBack, RollBack
    <2>7. verifications' = Cardinality(D \cap Verifiers)
        BY <1>3, <1>9, <2>3, <2>4, LaneMembers DEF TakesBack, RollBack
    <2>8. judgements' = Cardinality(D \cap Judges)
        BY <1>3, <1>9, <2>3, <2>4, LaneMembers DEF TakesBack, RollBack
    <2> QED
        BY <2>2, <2>6, <2>7, <2>8
  <1>10. ASSUME NEW d \in Calls, Replaces(d)
         PROVE  /\ reserved' = CreditSum[Open'] /\ calls' = Cardinality(D)
                /\ verifications' = Cardinality(D \cap Verifiers)
                /\ judgements' = Cardinality(D \cap Judges)
    <2>1. D = C
        BY <1>2, <1>10 DEF Replaces, C, D
    <2>2. reserved' = CreditSum[Open']
        BY <1>8, <1>10 DEF Replaces
    <2> QED
        BY <1>3, <1>10, <2>1, <2>2 DEF Replaces
  <1> QED
      BY <1>6, <1>7, <1>9, <1>10

(* delegation_scheduler.rs admit, finish_call and rollback_unstarted_*,    *)
(* and what their callers do with them: through every charge, refusal,     *)
(* cancellation and failure the reserved tokens are the credits of the     *)
(* calls that hold one, and the counters count the calls that were made.   *)
THEOREM BooksBalance == Spec => []BudgetBalances
  <1> DEFINE Inv == Typed /\ IStory /\ LeakedEnded /\ BudgetBalances
  <1>1. Init => Inv
    <2> SUFFICES ASSUME Init PROVE Inv
        OBVIOUS
    <2>1. Typed
        BY TypedInit
    <2>2. IStory
        BY <2>1, StoryInit
    <2>3. leaked = {} /\ LeakedEnded
        BY DEF Init, LeakedEnded
    <2>4. Open = {} /\ Counted(Calls) = {} /\ Counted(Verifiers) = {} /\ Counted(Judges) = {}
        BY <2>3, WorkersAreCalls DEF Init, Open, Counted, Charged, Holding, Ran
    <2>5. CreditSum[{}] = 0 /\ Cardinality({}) = 0
        BY CreditSumUnfolds, FS_EmptySet
    <2>6. BudgetBalances
        BY <2>4, <2>5 DEF Init, BudgetBalances
    <2> QED
        BY <2>1, <2>2, <2>3, <2>6
  <1>2. Inv /\ [Next]_vars => Inv'
    <2> SUFFICES ASSUME Inv, [Next]_vars PROVE Inv'
        OBVIOUS
    <2>1. Typed' /\ IStory' /\ LeakedEnded'
        BY TypedStep, StoryStep, LeakedStep
    <2>2. BudgetBalances'
        BY <2>1, BookSteps, BalanceStep DEF LeakedEnded
    <2> QED
        BY <2>1, <2>2
  <1> QED
      BY <1>1, <1>2, PTL DEF Spec

-----------------------------------------------------------------------------
(* The types of the rest of the state.                                     *)

In(c, q) == \E i \in 1..Len(q) : q[i] = c

(* A queue keeps its type when a call joins it, and its members.           *)
LEMMA JoinQueue ==
    ASSUME NEW S, NEW q \in Seq(S), NEW c \in S
    PROVE  /\ Append(q, c) \in Seq(S) /\ In(c, Append(q, c))
           /\ \A d : In(d, q) => In(d, Append(q, c))
  <1>1. Append(q, c) \in Seq(S) /\ Len(Append(q, c)) = Len(q) + 1 /\ Len(q) \in Nat
      OBVIOUS
  <1>2. Append(q, c)[Len(q) + 1] = c /\ \A i \in 1..Len(q) : Append(q, c)[i] = q[i]
      OBVIOUS
  <1> QED
      BY <1>1, <1>2 DEF In

(* So it does when its first is served.                                    *)
LEMMA ServeQueue ==
    ASSUME NEW S, NEW q \in Seq(S), In(Head(q), q)
    PROVE  /\ Tail(q) \in Seq(S)
           /\ \A d : In(d, q) /\ d # Head(q) => In(d, Tail(q))
  <1>1. Len(q) \in Nat /\ Len(q) >= 1 /\ q # <<>>
      BY DEF In
  <1>2. Tail(q) \in Seq(S) /\ Len(Tail(q)) = Len(q) - 1 /\ Head(q) = q[1]
      BY <1>1
  <1>3. ASSUME NEW d, NEW i \in 1..Len(q), q[i] = d, d # Head(q) PROVE In(d, Tail(q))
    <2>1. i - 1 \in 1..Len(q) - 1 /\ (i - 1) + 1 = i
        BY <1>1, <1>2, <1>3
    <2>2. \A j \in 1..Len(q) - 1 : Tail(q)[j] = q[j + 1]
        BY <1>1
    <2>3. Tail(q)[i - 1] = d
        BY <1>3, <2>1, <2>2
    <2> QED
        BY <1>2, <2>1, <2>3 DEF In
  <1> QED
      BY <1>2, <1>3 DEF In

(* So it does when a future is dropped, wherever it stands.                *)
LEMMA LeaveQueue ==
    ASSUME NEW S, NEW q \in Seq(S), NEW c
    PROVE  /\ Leave(q, c) \in Seq(S)
           /\ \A d : In(d, q) /\ d # c => In(d, Leave(q, c))
  <1>1. CASE ~\E i \in 1..Len(q) : q[i] = c
      BY <1>1 DEF Leave
  <1>2. CASE \E i \in 1..Len(q) : q[i] = c
    <2> DEFINE k == CHOOSE i \in 1..Len(q) : q[i] = c
               a == SubSeq(q, 1, k - 1)
               b == SubSeq(q, k + 1, Len(q))
    <2>1. k \in 1..Len(q) /\ q[k] = c /\ Len(q) \in Nat
        BY <1>2
    <2>2. Leave(q, c) = a \o b
        BY <1>2 DEF Leave
    <2> HIDE DEF k
    <2>3. a \in Seq(S) /\ Len(a) = k - 1 /\ \A i \in 1..k - 1 : a[i] = q[i]
        BY <2>1
    <2>4. b \in Seq(S) /\ Len(b) = Len(q) - k /\ \A i \in 1..Len(q) - k : b[i] = q[k + i]
        BY <2>1
    <2> HIDE DEF a, b
    <2>5. a \o b \in Seq(S) /\ Len(a \o b) = Len(q) - 1
      <3>1. a \o b \in Seq(S) /\ Len(a \o b) = Len(a) + Len(b)
          BY <2>3, <2>4
      <3>2. (k - 1) + (Len(q) - k) = Len(q) - 1
          BY <2>1
      <3> QED
          BY <2>3, <2>4, <3>1, <3>2
    <2>6. ASSUME NEW d, NEW i \in 1..Len(q), q[i] = d, d # c PROVE In(d, a \o b)
      <3>1. CASE i < k
        <4>1. i \in 1..k - 1 /\ i \in 1..Len(q) - 1
            BY <2>1, <3>1
        <4>2. (a \o b)[i] = a[i]
            BY <2>3, <2>4, <4>1
        <4> QED
            BY <2>3, <2>5, <2>6, <4>1, <4>2 DEF In
      <3>2. CASE i > k
        <4>1. i - k \in 1..Len(q) - k /\ i - 1 \in 1..Len(q) - 1 /\ k + (i - k) = i
              /\ i - 1 = (k - 1) + (i - k)
            BY <2>1, <3>2
        <4>2. (a \o b)[i - 1] = b[i - k]
            BY <2>1, <2>3, <2>4, <4>1
        <4> QED
            BY <2>4, <2>5, <2>6, <4>1, <4>2 DEF In
      <3>3. i # k
          BY <2>1, <2>6
      <3> QED
          BY <2>1, <3>1, <3>2, <3>3
    <2> QED
        BY <2>2, <2>5, <2>6 DEF In
  <1> QED
      BY <1>1, <1>2

(* A call that waits for a lane stands in its line, and a worker that      *)
(* waits for its batch in the batch's: so the first of a line that is      *)
(* served exists.                                                          *)
InLine ==
    /\ line \in [Semaphores -> Seq(Calls)] /\ batchLine \in Seq(Workers)
    /\ \A c \in Calls : /\ pc[c] = "queued" => In(c, line[SemaphoreFor(c)])
                        /\ pc[c] = "charged" => c \in Batch /\ In(c, batchLine)

(* A step that nobody joins or leaves a queue by.                          *)
Standstill ==
    /\ UNCHANGED <<limits, request, line, batchLine>>
    /\ \A c \in Calls : /\ pc'[c] = "queued" => pc[c] = "queued"
                        /\ pc'[c] = "charged" => pc[c] = "charged"

(* The queues move by the admission, and where a call gives up.            *)
LEMMA QueueSteps ==
    ASSUME Typed, [Next]_vars
    PROVE  \/ Standstill
           \/ \E d \in Calls : \/ Enqueue(d) \/ Grant(d) \/ LeaveLane(d) \/ Charge(d)
                              \/ TakeSlot(d) \/ LeaveBatch(d) \/ JudgeAborted(d)
  <1>1. ASSUME NEW d \in Calls, Begin(d) PROVE Standstill
      BY <1>1, WorkersAreCalls DEF Standstill, Typed, Positions, Holding, Requests,
          Batch, Begin, Go, WakeAll, budget, group
  <1>2. ASSUME NEW d \in Calls, BeginFails(d) PROVE Standstill
      BY <1>2, WorkersAreCalls DEF Standstill, Typed, Positions, Holding, Requests,
          Batch, BeginFails, Go, WakeAll, Fails, budget, group
  <1>3. ASSUME NEW d \in Calls, PrepareFails(d) PROVE Standstill
      BY <1>3, WorkersAreCalls DEF Standstill, Typed, Positions, Holding, Requests,
          Batch, PrepareFails, Go, Fails, budget, group
  <1>4. ASSUME NEW d \in Calls, Enqueue(d) PROVE Enqueue(d)
      BY <1>4
  <1>5. ASSUME NEW d \in Calls, EnqueueRefused(d) PROVE Standstill
      BY <1>5, WorkersAreCalls DEF Standstill, Typed, Positions, Holding, Requests,
          Batch, EnqueueRefused, EndUnstarted, CloseRow, Go, After, Asks, budget, group
  <1>6. ASSUME NEW d \in Calls, Grant(d) PROVE Grant(d)
      BY <1>6
  <1>7. ASSUME NEW d \in Calls, Charge(d) PROVE Charge(d)
      BY <1>7
  <1>8. ASSUME NEW d \in Calls, ChargeRefused(d) PROVE Standstill
      BY <1>8, WorkersAreCalls DEF Standstill, Typed, Positions, Holding, Requests,
          Batch, ChargeRefused, EndUnstarted, CloseRow, Go, After, budget, group
  <1>9. ASSUME NEW d \in Calls, TakeSlot(d) PROVE TakeSlot(d)
      BY <1>9
  <1>10. ASSUME NEW d \in Calls, Start(d) PROVE Standstill
      BY <1>10, WorkersAreCalls DEF Standstill, Typed, Positions, Holding, Requests,
          Batch, Start, Go, budget, group
  <1>11. ASSUME NEW d \in Calls, ExecutionEnds(d) PROVE Standstill
      BY <1>11, WorkersAreCalls DEF Standstill, Typed, Positions, Holding, Requests,
          Batch, ExecutionEnds, Go, Ran, budget, group
  <1>12. ASSUME NEW d \in Calls, Account(d) PROVE Standstill
      BY <1>12, WorkersAreCalls DEF Standstill, Typed, Positions, Holding, Requests,
          Batch, Account, Go, After, CloseRow, RowStatus, budget, group
  <1>13. ASSUME NEW d \in Calls, Decide(d) PROVE Standstill
      BY <1>13, WorkersAreCalls DEF Standstill, Typed, Positions, Holding, Requests,
          Batch, Decide, Go, VerdictOf, budget, group
  <1>14. ASSUME NEW d \in Calls, Finish(d) PROVE Standstill
      BY <1>14, WorkersAreCalls DEF Standstill, Typed, Positions, Holding, Requests,
          Batch, Finish, Go, budget, group
  <1>15. ASSUME NEW d \in Calls, Notify(d) PROVE Standstill
      BY <1>15, WorkersAreCalls DEF Standstill, Typed, Positions, Holding, Requests,
          Batch, Notify, Go, WakeAll, budget, group
  <1>16. ASSUME NEW d \in Calls, SpawnFails(d) PROVE Standstill
      BY <1>16, WorkersAreCalls DEF Standstill, Typed, Positions, Holding, Requests,
          Batch, SpawnFails, Go, WakeAll, budget, group
  <1>17. ASSUME NEW d \in Calls, LaunchFails(d) PROVE Standstill
      BY <1>17, WorkersAreCalls DEF Standstill, Typed, Positions, Holding, Requests,
          Batch, LaunchFails, Go, Fails, budget, group
  <1>18. ASSUME NEW d \in Calls, LeaveLane(d) PROVE LeaveLane(d)
      BY <1>18
  <1>19. ASSUME NEW d \in Calls, LeaveBatch(d) PROVE LeaveBatch(d)
      BY <1>19
  <1>20. ASSUME NEW d \in Calls, StartFails(d) PROVE Standstill
      BY <1>20, WorkersAreCalls DEF Standstill, Typed, Positions, Holding, Requests,
          Batch, StartFails, Go, After, CloseRow, budget, group
  <1>21. ASSUME NEW d \in Calls, OwnerLookupFails(d) PROVE Standstill
      BY <1>21, WorkersAreCalls DEF Standstill, Typed, Positions, Holding, Requests,
          Batch, OwnerLookupFails, Go, CloseRow, budget, group
  <1>22. ASSUME NEW d \in Calls, JudgeAborted(d) PROVE JudgeAborted(d)
      BY <1>22
  <1>23. ASSUME NEW d \in Workers, Spawn(d) PROVE Standstill
      BY <1>23, WorkersAreCalls DEF Standstill, Typed, Positions, Holding, Requests,
          Batch, Spawn, WakeAll, Go, budget, group
  <1>24. ASSUME NEW d \in Workers, Collect(d) PROVE Standstill
      BY <1>24, WorkersAreCalls DEF Standstill, Typed, Positions, Holding, Requests,
          Batch, Collect, budget, group
  <1>25. ASSUME NEW d \in Workers, CancelWorker(d) PROVE Standstill
      BY <1>25, WorkersAreCalls DEF Standstill, Typed, Positions, Holding, Requests,
          Batch, CancelWorker, WakeAll, budget, group
  <1>26. ASSUME NEW d \in Workers, CloseHandle(d) PROVE Standstill
      BY <1>26, WorkersAreCalls DEF Standstill, Typed, Positions, Holding, Requests,
          Batch, CloseHandle, WakeAll, budget, group
  <1>27. ASSUME NEW d \in Workers, WaitRegisters(d) PROVE Standstill
      BY <1>27, WorkersAreCalls DEF Standstill, Typed, Positions, Holding, Requests,
          Batch, WaitRegisters, budget, group
  <1>28. ASSUME NEW d \in Workers, WaitReads(d) PROVE Standstill
      BY <1>28, WorkersAreCalls DEF Standstill, Typed, Positions, Holding, Requests,
          Batch, WaitReads, budget, group
  <1>29. ASSUME NEW d \in Workers, WaitTimesOut(d) PROVE Standstill
      BY <1>29, WorkersAreCalls DEF Standstill, Typed, Positions, Holding, Requests,
          Batch, WaitTimesOut, budget, group
  <1>30. ASSUME SpawnBatch PROVE Standstill
      BY <1>30, WorkersAreCalls DEF Standstill, Typed, Positions, Holding, Requests,
          Batch, SpawnBatch, WakeAll, budget, group
  <1>31. ASSUME StopCollecting PROVE Standstill
      BY <1>31, WorkersAreCalls DEF Standstill, Typed, Positions, Holding, Requests,
          Batch, StopCollecting, budget, group
  <1>32. ASSUME CancelBatch PROVE Standstill
      BY <1>32, WorkersAreCalls DEF Standstill, Typed, Positions, Holding, Requests,
          Batch, CancelBatch, budget, group
  <1>33. ASSUME StopTurn PROVE Standstill
      BY <1>33, WorkersAreCalls DEF Standstill, Typed, Positions, Holding, Requests,
          Batch, StopTurn, budget, group
  <1>34. CASE UNCHANGED vars
      BY <1>34, WorkersAreCalls DEF Standstill, Typed, Positions, Holding, Requests,
          Batch, vars, budget, group
  <1> QED
      BY <1>1, <1>2, <1>3, <1>4, <1>5, <1>6, <1>7, <1>8, <1>9, <1>10, <1>11, <1>12,
          <1>13, <1>14, <1>15, <1>16, <1>17, <1>18, <1>19, <1>20, <1>21, <1>22, <1>23,
          <1>24, <1>25, <1>26, <1>27, <1>28, <1>29, <1>30, <1>31, <1>32, <1>33, <1>34,
          WorkersAreCalls DEF Next, Step, Disturbance, Parent

LEMMA SemaphoresKept ==
    /\ \A c : SemaphoreFor(c) \in Semaphores
    /\ limits' = limits => \A c : SemaphoreFor(c)' = SemaphoreFor(c)
  BY DEF SemaphoreFor, Semaphores, LaneOf, Dedicated

(* A step of one call on the line of its semaphore.                        *)
LEMMA LineStep ==
    ASSUME Typed, InLine, NEW d \in Calls, NEW q \in Seq(Calls), NEW to,
           limits' = limits, request' = request, batchLine' = batchLine,
           line' = [line EXCEPT ![SemaphoreFor(d)] = q], pc' = [pc EXCEPT ![d] = to],
           \A c \in Calls : c # d /\ In(c, line[SemaphoreFor(d)]) => In(c, q),
           to = "queued" => In(d, q), to # "charged"
    PROVE  InLine'
  <1>1. line' \in [Semaphores -> Seq(Calls)] /\ batchLine' \in Seq(Workers)
      BY SemaphoresKept DEF InLine
  <1>2. ASSUME NEW c \in Calls, pc'[c] = "queued" PROVE In(c, line'[SemaphoreFor(c)])
    <2>1. line'[SemaphoreFor(c)] =
            IF SemaphoreFor(c) = SemaphoreFor(d) THEN q ELSE line[SemaphoreFor(c)]
        BY SemaphoresKept DEF InLine
    <2>2. CASE c = d
      <3>1. to = "queued"
          BY <1>2, <2>2 DEF Typed
      <3> QED
          BY <2>1, <2>2, <3>1
    <2>3. CASE c # d
      <3>1. In(c, line[SemaphoreFor(c)])
          BY <1>2, <2>3 DEF Typed, InLine
      <3> QED
          BY <2>1, <2>3, <3>1
    <2> QED
        BY <2>2, <2>3
  <1>3. ASSUME NEW c \in Calls, pc'[c] = "charged"
        PROVE  c \in Batch' /\ In(c, batchLine')
    <2>1. pc[c] = "charged"
        BY <1>3 DEF Typed
    <2> QED
        BY <2>1 DEF InLine, Batch
  <1>4. \A c \in Calls : SemaphoreFor(c)' = SemaphoreFor(c)
      BY SemaphoresKept
  <1> QED
      BY <1>1, <1>2, <1>3, <1>4 DEF InLine

(* A step of one worker on the line of the batch.                          *)
LEMMA BatchLineStep ==
    ASSUME Typed, InLine, NEW d \in Calls, NEW q \in Seq(Workers), NEW to,
           limits' = limits, request' = request, line' = line,
           batchLine' = q, pc' = [pc EXCEPT ![d] = to],
           \A c \in Calls : c # d /\ In(c, batchLine) => In(c, q),
           to = "charged" => d \in Batch /\ In(d, q), to # "queued"
    PROVE  InLine'
  <1>1. \A c \in Calls : SemaphoreFor(c)' = SemaphoreFor(c)
      BY SemaphoresKept
  <1>2. ASSUME NEW c \in Calls, pc'[c] = "queued" PROVE In(c, line'[SemaphoreFor(c)])
    <2>1. pc[c] = "queued"
        BY <1>2 DEF Typed
    <2> QED
        BY <2>1 DEF InLine
  <1>3. ASSUME NEW c \in Calls, pc'[c] = "charged"
        PROVE  c \in Batch' /\ In(c, batchLine')
    <2>1. CASE c = d
        BY <1>3, <2>1 DEF Typed, Batch
    <2>2. CASE c # d
        BY <1>3, <2>2 DEF Typed, InLine, Batch
    <2> QED
        BY <2>1, <2>2
  <1>4. line' \in [Semaphores -> Seq(Calls)] /\ batchLine' \in Seq(Workers)
      BY DEF InLine
  <1> QED
      BY <1>1, <1>2, <1>3, <1>4 DEF InLine

LEMMA InLineStep == ASSUME Typed, InLine, [Next]_vars PROVE InLine'
  <1>0. /\ \A c \in Calls : line[SemaphoreFor(c)] \in Seq(Calls)
        /\ batchLine \in Seq(Workers)
      BY SemaphoresKept DEF InLine
  <1>1. CASE Standstill
    <2>1. \A c \in Calls : SemaphoreFor(c)' = SemaphoreFor(c)
        BY <1>1, SemaphoresKept DEF Standstill
    <2>2. line' = line /\ batchLine' = batchLine /\ Batch' = Batch
        BY <1>1 DEF Standstill, Batch
    <2> QED
        BY <1>1, <2>1, <2>2 DEF Standstill, InLine
  <1>2. ASSUME NEW d \in Calls, Enqueue(d) PROVE InLine'
    <2> DEFINE s == SemaphoreFor(d)
               q == Append(line[s], d)
    <2>1. /\ q \in Seq(Calls) /\ In(d, q)
          /\ \A c : In(c, line[s]) => In(c, q)
        BY <1>0, JoinQueue
    <2>2. /\ line' = [line EXCEPT ![s] = q] /\ pc' = [pc EXCEPT ![d] = "queued"]
          /\ limits' = limits /\ request' = request /\ batchLine' = batchLine
        BY <1>2 DEF Enqueue, Go, group
    <2> QED
      <3> HIDE DEF q
      <3> QED
        BY <2>1, <2>2, LineStep
  <1>3. ASSUME NEW d \in Calls, Grant(d) PROVE InLine'
    <2> DEFINE s == SemaphoreFor(d)
               q == Tail(line[s])
    <2>1. d = Head(line[s]) /\ In(d, line[s])
        BY <1>3 DEF Grant, InLine
    <2>2. q \in Seq(Calls) /\ \A c : In(c, line[s]) /\ c # d => In(c, q)
        BY <1>0, <2>1, ServeQueue
    <2>3. /\ line' = [line EXCEPT ![s] = q] /\ pc' = [pc EXCEPT ![d] = "granted"]
          /\ limits' = limits /\ request' = request /\ batchLine' = batchLine
        BY <1>3 DEF Grant, Go, group
    <2> QED
      <3> HIDE DEF q
      <3> QED
        BY <2>2, <2>3, LineStep
  <1>4. ASSUME NEW d \in Calls, LeaveLane(d) \/ JudgeAborted(d) PROVE InLine'
    <2> DEFINE s == SemaphoreFor(d)
               q == Leave(line[s], d)
    <2>1. q \in Seq(Calls) /\ \A c : In(c, line[s]) /\ c # d => In(c, q)
        BY <1>0, LeaveQueue
    <2>2. /\ line' = [line EXCEPT ![s] = q]
          /\ pc' = [pc EXCEPT ![d] = After(d)] \/ pc' = [pc EXCEPT ![d] = "done"]
          /\ limits' = limits /\ request' = request /\ batchLine' = batchLine
        BY <1>4 DEF LeaveLane, JudgeAborted, EndUnstarted, Go, group
    <2>3. PICK to \in {"done", "returning"} : pc' = [pc EXCEPT ![d] = to]
        BY <2>2 DEF After
    <2>4. to # "queued" /\ to # "charged"
        OBVIOUS
    <2> QED
      <3> HIDE DEF q
      <3> QED
        BY <2>1, <2>2, <2>3, <2>4, LineStep
  <1>5. ASSUME NEW d \in Calls, Charge(d) PROVE InLine'
    <2>1. /\ pc' = [pc EXCEPT ![d] = IF d \in Batch THEN "charged" ELSE "starting"]
          /\ batchLine' = IF d \in Batch THEN Append(batchLine, d) ELSE batchLine
          /\ limits' = limits /\ request' = request /\ line' = line
        BY <1>5 DEF Charge, Pay, Go, group
    <2>2. CASE d \in Batch
      <3> DEFINE q == Append(batchLine, d)
      <3>1. d \in Workers
          BY <2>2 DEF Batch, Typed, Requests
      <3>2. q \in Seq(Workers) /\ In(d, q) /\ \A c : In(c, batchLine) => In(c, q)
          BY <1>0, <3>1, JoinQueue
      <3>3. pc' = [pc EXCEPT ![d] = "charged"] /\ batchLine' = q
          BY <2>1, <2>2
      <3> HIDE DEF q
      <3> QED
          BY <2>1, <2>2, <3>2, <3>3, BatchLineStep
    <2>3. CASE d \notin Batch
      <3>1. pc' = [pc EXCEPT ![d] = "starting"] /\ batchLine' = batchLine
          BY <2>1, <2>3
      <3> QED
          BY <1>0, <2>1, <3>1, BatchLineStep
    <2> QED
        BY <2>2, <2>3
  <1>6. ASSUME NEW d \in Calls, TakeSlot(d) PROVE InLine'
    <2> DEFINE q == Tail(batchLine)
    <2>1. d = Head(batchLine) /\ In(d, batchLine)
        BY <1>6 DEF TakeSlot, InLine
    <2>2. q \in Seq(Workers) /\ \A c : In(c, batchLine) /\ c # d => In(c, q)
        BY <1>0, <2>1, ServeQueue
    <2>3. /\ batchLine' = q /\ pc' = [pc EXCEPT ![d] = "starting"]
          /\ limits' = limits /\ request' = request /\ line' = line
        BY <1>6 DEF TakeSlot, Go, group
    <2> QED
      <3> HIDE DEF q
      <3> QED
        BY <2>2, <2>3, BatchLineStep
  <1>7. ASSUME NEW d \in Calls, LeaveBatch(d) PROVE InLine'
    <2> DEFINE q == Leave(batchLine, d)
    <2>1. q \in Seq(Workers) /\ \A c : In(c, batchLine) /\ c # d => In(c, q)
        BY <1>0, LeaveQueue
    <2>2. /\ batchLine' = q /\ pc' = [pc EXCEPT ![d] = After(d)]
          /\ limits' = limits /\ request' = request /\ line' = line
        BY <1>7 DEF LeaveBatch, EndUnstarted, Go, group
    <2>3. After(d) # "queued" /\ After(d) # "charged"
        BY DEF After
    <2> QED
      <3> HIDE DEF q
      <3> QED
        BY <2>1, <2>2, <2>3, BatchLineStep
  <1> QED
      BY <1>1, <1>2, <1>3, <1>4, <1>5, <1>6, <1>7, QueueSteps

(* The rest of TypeOK.                                                     *)
RestTyped ==
    /\ \E setup \in Setups : limits = setup.limits /\ request = setup.request
    /\ reserved \in Nat /\ spent \in Nat
    /\ batch \in {"none", "waiting", "draining", "returned"}
    /\ results \subseteq Batch /\ joined \subseteq Batch
    /\ tokens \subseteq Workers /\ lost \subseteq Calls /\ leaked \subseteq Calls
    /\ stopped \in BOOLEAN /\ faults \in Nat

LEMMA FinishCallTyped ==
    ASSUME NEW d \in Calls, reserved \in Nat, spent \in Nat, Account(d)
    PROVE  reserved' \in Nat /\ spent' \in Nat
  <1>1. PICK used \in Usage :
           FinishCall(d, IF outcome[d] # "ok" /\ (used = 0 \/ d \in Judges) THEN Credit[d]
                         ELSE used)
      BY DEF Account
  <1>2. used \in Nat /\ Credit[d] \in Nat
      BY LimitAssumption
  <1> QED
      BY <1>1, <1>2 DEF FinishCall, SaturatingSub

LEMMA CreditTyped == \A c \in Calls : Credit[c] \in Nat
  BY LimitAssumption

(* Every step keeps them.                                                  *)
LEMMA RestStep == ASSUME Typed, RestTyped, [Next]_vars PROVE RestTyped'
  <1>0. Controlled \subseteq Workers
      BY CallAssumption
  <1>1. ASSUME NEW d \in Calls, Begin(d) PROVE RestTyped'
      BY <1>1, WorkersAreCalls DEF Typed, RestTyped, Requests, Batch, Begin, Go,
          WakeAll, budget, group
  <1>2. ASSUME NEW d \in Calls, BeginFails(d) PROVE RestTyped'
      BY <1>2, WorkersAreCalls DEF Typed, RestTyped, Requests, Batch, BeginFails, Go,
          WakeAll, Fails, RecordResult, budget, group
  <1>3. ASSUME NEW d \in Calls, PrepareFails(d) PROVE RestTyped'
      BY <1>3, WorkersAreCalls DEF Typed, RestTyped, Requests, Batch, PrepareFails, Go,
          Fails, budget, group
  <1>4. ASSUME NEW d \in Calls, Enqueue(d) PROVE RestTyped'
      BY <1>4, WorkersAreCalls DEF Typed, RestTyped, Requests, Batch, Enqueue, Go,
          budget, group
  <1>5. ASSUME NEW d \in Calls, EnqueueRefused(d) PROVE RestTyped'
      BY <1>5, WorkersAreCalls DEF Typed, RestTyped, Requests, Batch, EnqueueRefused,
          EndUnstarted, CloseRow, Go, After, budget, group
  <1>6. ASSUME NEW d \in Calls, Grant(d) PROVE RestTyped'
      BY <1>6, WorkersAreCalls DEF Typed, RestTyped, Requests, Batch, Grant, Go, budget,
          group
  <1>7. ASSUME NEW d \in Calls, Charge(d) PROVE RestTyped'
      BY <1>7, WorkersAreCalls, CreditTyped DEF Typed, RestTyped, Requests, Batch,
          Charge, Pay, Go, budget, group
  <1>8. ASSUME NEW d \in Calls, ChargeRefused(d) PROVE RestTyped'
      BY <1>8, WorkersAreCalls DEF Typed, RestTyped, Requests, Batch, ChargeRefused,
          EndUnstarted, CloseRow, Go, After, budget, group
  <1>9. ASSUME NEW d \in Calls, TakeSlot(d) PROVE RestTyped'
      BY <1>9, WorkersAreCalls DEF Typed, RestTyped, Requests, Batch, TakeSlot, Go,
          budget, group
  <1>10. ASSUME NEW d \in Calls, Start(d) PROVE RestTyped'
      BY <1>10, WorkersAreCalls DEF Typed, RestTyped, Requests, Batch, Start, Go,
          budget, group
  <1>11. ASSUME NEW d \in Calls, ExecutionEnds(d) PROVE RestTyped'
      BY <1>11, WorkersAreCalls DEF Typed, RestTyped, Requests, Batch, ExecutionEnds,
          Go, budget, group
  <1>12. ASSUME NEW d \in Calls, Account(d) PROVE RestTyped'
    <2>1. reserved' \in Nat /\ spent' \in Nat
        BY <1>12, FinishCallTyped DEF RestTyped
    <2>2. faults' \in Nat /\ lost' \subseteq Calls
        BY <1>12 DEF Account, CloseRow, RestTyped
    <2>3. UNCHANGED <<limits, batch, joined, results, request, tokens, leaked, stopped>>
        BY <1>12 DEF Account, group
    <2> QED
        BY <2>1, <2>2, <2>3 DEF RestTyped, Batch
  <1>13. ASSUME NEW d \in Calls, Decide(d) PROVE RestTyped'
      BY <1>13, WorkersAreCalls DEF Typed, RestTyped, Requests, Batch, Decide, Go,
          budget, group
  <1>14. ASSUME NEW d \in Calls, Finish(d) PROVE RestTyped'
      BY <1>14, WorkersAreCalls DEF Typed, RestTyped, Requests, Batch, Finish, Go,
          budget, group
  <1>15. ASSUME NEW d \in Calls, Notify(d) PROVE RestTyped'
      BY <1>15, WorkersAreCalls DEF Typed, RestTyped, Requests, Batch, Notify, Go,
          WakeAll, RecordResult, budget, group
  <1>16. ASSUME NEW d \in Calls, SpawnFails(d) PROVE RestTyped'
      BY <1>16, WorkersAreCalls DEF Typed, RestTyped, Requests, Batch, SpawnFails, Go,
          WakeAll, Fails, budget, group
  <1>17. ASSUME NEW d \in Calls, LaunchFails(d) PROVE RestTyped'
      BY <1>17, WorkersAreCalls DEF Typed, RestTyped, Requests, Batch, LaunchFails, Go,
          Fails, RecordResult, budget, group
  <1>18. ASSUME NEW d \in Calls, LeaveLane(d) PROVE RestTyped'
      BY <1>18, WorkersAreCalls DEF Typed, RestTyped, Requests, Batch, LeaveLane,
          EndUnstarted, CloseRow, Go, After, budget, group
  <1>19. ASSUME NEW d \in Calls, LeaveBatch(d) PROVE RestTyped'
      BY <1>19, WorkersAreCalls, CreditTyped DEF Typed, RestTyped, Requests, Batch,
          LeaveBatch, EndUnstarted, CloseRow, Go, After, RollBack, SaturatingSub,
          budget, group
  <1>20. ASSUME NEW d \in Calls, StartFails(d) PROVE RestTyped'
      BY <1>20, WorkersAreCalls, CreditTyped DEF Typed, RestTyped, Requests, Batch,
          StartFails, Go, After, CloseRow, RollBack, SaturatingSub, budget, group
  <1>21. ASSUME NEW d \in Calls, OwnerLookupFails(d) PROVE RestTyped'
      BY <1>21, WorkersAreCalls DEF Typed, RestTyped, Requests, Batch, OwnerLookupFails,
          Go, CloseRow, budget, group
  <1>22. ASSUME NEW d \in Calls, JudgeAborted(d) PROVE RestTyped'
      BY <1>22, WorkersAreCalls DEF Typed, RestTyped, Requests, Batch, JudgeAborted, Go,
          CloseRow, budget, group
  <1>23. ASSUME NEW d \in Workers, Spawn(d) PROVE RestTyped'
      BY <1>23, WorkersAreCalls DEF Typed, RestTyped, Requests, Batch, Spawn, WakeAll,
          Go, budget, group
  <1>24. ASSUME NEW d \in Workers, Collect(d) PROVE RestTyped'
      BY <1>24, WorkersAreCalls DEF Typed, RestTyped, Requests, Batch, Collect, Release,
          budget, group
  <1>25. ASSUME NEW d \in Workers, CancelWorker(d) PROVE RestTyped'
      BY <1>25, WorkersAreCalls, <1>0 DEF Typed, RestTyped, Requests, Batch,
          CancelWorker, WakeAll, budget, group
  <1>26. ASSUME NEW d \in Workers, CloseHandle(d) PROVE RestTyped'
      BY <1>26, WorkersAreCalls DEF Typed, RestTyped, Requests, Batch, CloseHandle,
          WakeAll, budget, group
  <1>27. ASSUME NEW d \in Workers, WaitRegisters(d) PROVE RestTyped'
      BY <1>27, WorkersAreCalls DEF Typed, RestTyped, Requests, Batch, WaitRegisters,
          budget, group
  <1>28. ASSUME NEW d \in Workers, WaitReads(d) PROVE RestTyped'
      BY <1>28, WorkersAreCalls DEF Typed, RestTyped, Requests, Batch, WaitReads,
          budget, group
  <1>29. ASSUME NEW d \in Workers, WaitTimesOut(d) PROVE RestTyped'
      BY <1>29, WorkersAreCalls DEF Typed, RestTyped, Requests, Batch, WaitTimesOut,
          budget, group
  <1>30. ASSUME SpawnBatch PROVE RestTyped'
      BY <1>30, WorkersAreCalls DEF Typed, RestTyped, Requests, Batch, SpawnBatch,
          WakeAll, budget, group
  <1>31. ASSUME StopCollecting PROVE RestTyped'
      BY <1>31, WorkersAreCalls DEF Typed, RestTyped, Requests, Batch, StopCollecting,
          Release, budget, group
  <1>32. ASSUME CancelBatch PROVE RestTyped'
      BY <1>32, WorkersAreCalls DEF Typed, RestTyped, Requests, Batch, CancelBatch,
          budget, group
  <1>33. ASSUME StopTurn PROVE RestTyped'
      BY <1>33, WorkersAreCalls DEF Typed, RestTyped, Requests, Batch, StopTurn, budget,
          group
  <1>34. CASE UNCHANGED vars
      BY <1>34, WorkersAreCalls DEF Typed, RestTyped, Requests, Batch, vars, budget,
          group
  <1> QED
      BY <1>1, <1>2, <1>3, <1>4, <1>5, <1>6, <1>7, <1>8, <1>9, <1>10, <1>11, <1>12,
          <1>13, <1>14, <1>15, <1>16, <1>17, <1>18, <1>19, <1>20, <1>21, <1>22, <1>23,
          <1>24, <1>25, <1>26, <1>27, <1>28, <1>29, <1>30, <1>31, <1>32, <1>33, <1>34,
          WorkersAreCalls DEF Next, Step, Disturbance, Parent

(* All state of the scheduler, the budget, the handles and the batch keeps  *)
(* to its values; the queues hold calls, and no counter drops below zero.  *)
THEOREM DelegationTyped == Spec => []TypeOK
  <1> DEFINE Inv == Typed /\ InLine /\ RestTyped
  <1>1. Init => Inv
    <2> SUFFICES ASSUME Init PROVE Inv
        OBVIOUS
    <2>1. Typed
        BY TypedInit
    <2>2. InLine
        BY WorkersAreCalls DEF Init, InLine
    <2>3. RestTyped
        BY LimitAssumption DEF Init, RestTyped, Batch
    <2> QED
        BY <2>1, <2>2, <2>3
  <1>2. Inv /\ [Next]_vars => Inv'
      BY TypedStep, InLineStep, RestStep
  <1>3. Inv => TypeOK
    <2> SUFFICES ASSUME Inv PROVE TypeOK
        OBVIOUS
    <2>1. \A n \in {calls, verifications, judgements, reserved, spent} : n \in Nat
        BY DEF Typed, RestTyped
    <2>2. pc \in [Calls -> Holding \cup {"absent", "idle", "launching", "preparing", "queued",
                     "returning", "settling", "notifying", "done"}]
        BY DEF Typed, Positions
    <2>3. row \in [Calls -> {"none", "queued", "running", "completed", "failed", "cancelled",
                              "timed_out"}]
        BY DEF Typed, Rows
    <2> QED
        BY <2>1, <2>2, <2>3 DEF TypeOK, Typed, RestTyped, InLine
  <1> QED
      BY <1>1, <1>2, <1>3, PTL DEF Spec
=============================================================================
