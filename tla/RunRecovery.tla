----------------------------- MODULE RunRecovery -----------------------------
(***************************************************************************)
(* Crashes, and the startup reconciliation of one Agent Run                *)
(* (recover_after_restart).  A crash keeps SQLite and loses everything     *)
(* else.  At startup one transaction classifies the run: a ledger terminal *)
(* repairs the projections, a durable suspension is restored, anything     *)
(* else that was active is closed through a new outbox.  The app does not  *)
(* start serving commands before that has finished, and a failure of it    *)
(* aborts the startup.                                                     *)
(***************************************************************************)
EXTENDS RunEventOutbox, FiniteSetsExt

CONSTANT MaxCrashes      \* bound: crashes of the app

ASSUME MaxCrashesAssumption == MaxCrashes \in Nat

VARIABLES
    phase,      \* "up", or where startup is: "boot", "interrupted", "closing"
    workflow,   \* the scheduler's row bound to this run: "active" or its end
    owed,       \* a host task of this process will finalize the run
    crashes     \* bound

recoveryVars == <<phase, workflow, owed, crashes>>
allVars == <<vars, recoveryVars>>

InitRecovery ==
    Init /\ phase = "up" /\ workflow = "active" /\ owed = TRUE /\ crashes = 0

(* Commands, executor and actor run once startup is over; whoever runs or  *)
(* submits to the run also finalizes it.                                   *)
Running ==
    /\ phase = "up" /\ Next
    /\ owed' = (owed \/ executor' # "ended" \/ accepted' > accepted)
    /\ UNCHANGED <<phase, workflow, crashes>>

(* The finalizers project the run's terminal status to the scheduler, in a *)
(* transaction of their own after the terminal barrier.                    *)
FinalizeWorkflow ==
    /\ phase = "up" /\ owed
    /\ executor = "ended" /\ completion # "open"
    /\ task \in TerminalStatuses /\ workflow = "active"
    /\ workflow' = task
    /\ owed' = FALSE
    /\ UNCHANGED <<vars, phase, crashes>>

(* The process ends: the outbox, its actor and the executor are gone.      *)
Restart ==
    /\ phase' = "boot" /\ owed' = FALSE
    /\ queue' = <<>> /\ terminalSubmitted' = FALSE /\ submissionsPaused' = FALSE
    /\ accepted' = DurableHead /\ failureRequest' = FALSE
    /\ pc' = "absent" /\ after' = "loop" /\ sequence' = DurableHead
    /\ pending' = <<>>
    /\ durability' = [ok |-> TRUE, seq |-> DurableHead] /\ completion' = "open"
    /\ pauseReply' = "none" /\ delivered' = <<>>
    /\ executor' = "ended" /\ cancelled' = FALSE /\ lifecycle' = "free"
    /\ UNCHANGED <<durableVars, boundVars, workflow>>

Crash ==
    /\ crashes < MaxCrashes
    /\ crashes' = crashes + 1
    /\ Restart
----------------------------------------------------------------------------
(* build_startup_recovery_plan: the runs it looks at.                      *)
ActiveTask == task \in {"queued", "running", "waiting_approval", "cancelling"}
SuspendedTask == task \in {"paused", "awaiting_user_input"}

Candidate ==
    \/ ActiveTask
    \/ SuspendedTask /\ (turn # task \/ LedgerTerminal)
    \/ task \in TerminalStatuses /\ turn # TurnOf(task)

(* first_true_terminal and latest_resumable_boundary.                      *)
FirstTerminal ==
    ledger[Min({i \in 1..Len(ledger) : ClosesRun(ledger[i].kind)})].kind

Suspensions ==
    {i \in 1..Len(ledger) : ledger[i].kind \in {"paused", "awaiting_user_input"}}

(* A later start or stop invalidates the suspension.                       *)
InvalidatedByStart(b) ==      \* mutant of Invalidated
    \E j \in b+1..Len(ledger) : ledger[j].kind = "started"
InvalidatedByRequeue(b) ==      \* mutant of Invalidated
    task = "queued" \/ \E j \in b+1..Len(ledger) : ledger[j].kind = "started"

Invalidated(b) ==
    \/ task = "cancelling"
    \/ \E j \in b+1..Len(ledger) : ledger[j].kind \in {"started", "cancelling"}

Resumable == Suspensions # {} /\ ~Invalidated(Max(Suspensions))

(* converge_workflow_run_terminal, in the transaction that materialises    *)
(* the terminal.                                                           *)
ConvergeWorkflow(status) ==
    workflow' = IF workflow = "active" THEN status ELSE workflow

MaterializeTask(status) ==      \* mutant of MaterializeTerminal
    task' = status /\ UNCHANGED turn /\ ConvergeWorkflow(status)

MaterializeTerminal(status) ==
    /\ task' = status /\ turn' = TurnOf(status)
    /\ ConvergeWorkflow(status)

StartupStep(next) ==
    /\ phase = "boot"
    /\ phase' = next
    /\ UNCHANGED <<ledger, barrier, answered, sharedVars, actorVars, seenVars,
                   hostVars, boundVars, owed, crashes>>

NothingToRecover ==
    /\ ~Candidate
    /\ StartupStep("up")
    /\ UNCHANGED <<task, turn, workflow>>

RepairTerminal ==
    /\ Candidate /\ RunClosed
    /\ MaterializeTerminal(IF LedgerTerminal THEN FirstTerminal ELSE task)
    /\ StartupStep("up")

RestoreSuspension ==
    /\ Candidate /\ ~RunClosed /\ Resumable
    /\ task' = ledger[Max(Suspensions)].kind /\ turn' = task'
    /\ StartupStep("up")
    /\ UNCHANGED workflow

PlanInterrupted ==
    /\ Candidate /\ ~RunClosed /\ ~Resumable
    /\ StartupStep("interrupted")
    /\ UNCHANGED <<task, turn, workflow>>

(* recover_after_restart closes an interrupted run through its outbox,     *)
(* waits for the terminal barrier and converges the projections.           *)
CloseInterrupted ==
    /\ phase = "interrupted"
    /\ OpenOutbox(<<"cancelled">>)
    /\ phase' = "closing"
    /\ UNCHANGED <<durableVars, pauseReply, hostVars, boundVars, workflow, owed,
                   crashes>>

ActorCloses == phase = "closing" /\ Actor /\ UNCHANGED recoveryVars

ConvergeTerminal ==
    /\ phase = "closing" /\ completion = "terminal"
    /\ phase' = "up"
    /\ RunClosed
    /\ MaterializeTerminal(IF LedgerTerminal THEN FirstTerminal ELSE task)
    /\ UNCHANGED <<ledger, barrier, answered, sharedVars, actorVars, seenVars,
                   hostVars, boundVars, owed, crashes>>

(* The barrier failed: startup returns the error and the process exits.    *)
AbortStartup ==
    /\ phase = "closing" /\ completion = "failed"
    /\ Restart
    /\ UNCHANGED crashes

Startup ==
    \/ NothingToRecover \/ RepairTerminal \/ RestoreSuspension \/ PlanInterrupted
    \/ CloseInterrupted \/ ActorCloses \/ ConvergeTerminal \/ AbortStartup

NextRecovery == Running \/ FinalizeWorkflow \/ Crash \/ Startup

(* Startup runs to its end unless the app crashes again; the actor and the *)
(* finalizer are tasks of a running process.                               *)
RecoverySpec ==
    /\ InitRecovery /\ [][NextRecovery]_allVars
    /\ WF_allVars(Startup)
    /\ WF_allVars(FinalizeWorkflow)
    /\ WF_allVars(phase = "up" /\ Actor /\ UNCHANGED recoveryVars)
----------------------------------------------------------------------------
Settled ==
    \/ /\ task \in TerminalStatuses /\ turn = TurnOf(task)
       /\ LedgerTerminal => task = FirstTerminal
    \/ SuspendedTask /\ turn = task /\ ~LedgerTerminal

(* Startup leaves every run with one outcome: a terminal task and turn     *)
(* that agree with each other and with the ledger, or a suspension that    *)
(* both rows show; whatever transaction the crash fell between.            *)
RecoveredIsSettled == [][phase # "up" /\ phase' = "up" => Settled']_allVars

(* A checkpoint that is the last durable row of an open run is still there *)
(* after a restart, also when the crash fell between the resume that       *)
(* re-queued the run and the executor's first durable event.               *)
PauseSurvivesCrash ==
    [][ /\ phase = "boot" /\ phase' # "boot"
        /\ ledger # <<>> /\ ledger[Len(ledger)].kind = "paused"
        /\ task \notin TerminalStatuses \cup {"awaiting_user_input"}
        => task' = "paused" /\ turn' = "paused" ]_allVars

(* The latest decision in the ledger is a stop: no suspension follows its  *)
(* cancelling event.                                                       *)
StopIsLatest ==
    \E i \in 1..Len(ledger) :
        ledger[i].kind = "cancelling" /\ \A b \in Suspensions : b < i

(* Startup never takes a stop back: a run that was stopped after its last  *)
(* suspension comes out of the classification with a terminal, whichever   *)
(* of its rows the crash left behind.  Rows that agree on                  *)
(* awaiting_user_input are left out, because they are not classified.      *)
(* There the code does not keep what interaction.rs says before            *)
(* stoppable_interaction_run_for_conversation (persist a cancelling event  *)
(* first, "so a crash cannot lose the stop intent"): without an unresolved *)
(* request ProjectTask ignores that event.                                 *)
RecoveryHonoursStop ==
    [][ /\ phase # "up" /\ phase' = "up" /\ StopIsLatest
        /\ ~(task = "awaiting_user_input" /\ turn = "awaiting_user_input")
        => task' \in TerminalStatuses ]_allVars

(* Startup finishes: closing an interrupted run always resolves the        *)
(* terminal barrier it waits on, or aborts and is tried again.             *)
RecoveryCompletes == phase = "boot" ~> phase = "up"

(* run_event_outbox.rs, converge_workflow_run_terminal: "This releases     *)
(* occurrence/source locks after a restart instead of leaving a            *)
(* permanently `running` scheduler record."                                *)
RestartReleasesWorkflow ==
    [][ phase # "up" /\ phase' = "up" /\ task' \in TerminalStatuses
        => workflow' # "active" ]_allVars
=============================================================================
