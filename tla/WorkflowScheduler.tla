-------------------------- MODULE WorkflowScheduler --------------------------
(***************************************************************************)
(* The durable scheduler of workflow automations: how a fire time becomes  *)
(* an occurrence, is claimed under a lease, approved, launched, started,   *)
(* retried and superseded.  The rows of SQLite are autos, occs and runs;   *)
(* dues and launch are the calls of this process that are on their way     *)
(* between two transactions (the minute tick, `Due now`, `Run now` and     *)
(* `Approve` of the desktop, which nothing serialises against each other). *)
(* Every action is one transaction.                                        *)
(*                                                                         *)
(* Time is a clock that counts the fire times of the cron expressions.  A  *)
(* lease and a backoff are there until they run out, at any moment.  A     *)
(* run-now occurrence is scheduled for the instant of the request, here    *)
(* the request's number.                                                   *)
(***************************************************************************)
EXTENDS Naturals, Sequences, FiniteSets, FiniteSetsExt

CONSTANTS
    Automations,     \* the saved definitions with a schedule trigger
    Policies,        \* the policies of each definition's revisions, in the order saved;
                     \* their number is a bound
    Outcomes,        \* the terminal statuses Agent Runs end with; all are treated alike
    MaxAttempts,     \* SCHEDULER_RETRY_MAX_ATTEMPTS (4 in the code)
    MaxClock,        \* bound: fire times
    MaxRequests,     \* bound: run-now requests for each definition
    MaxDues,         \* bound: due runs listed and not yet claimed
    MaxRuns          \* bound: runs

ASSUME PolicyAssumption ==
    /\ Policies \in [Automations -> Seq([overlap : {"skip", "allow"},
                                         misfire : {"run_latest", "skip"},
                                         approval : BOOLEAN, isolated : BOOLEAN])]
    /\ \A a \in Automations : Policies[a] # <<>>
ASSUME OutcomeAssumption ==
    Outcomes \subseteq {"completed", "failed", "cancelled", "timed_out"}
ASSUME BoundAssumption ==
    /\ MaxAttempts \in Nat \ {0}
    /\ {MaxClock, MaxDues, MaxRuns} \subseteq Nat
    /\ MaxRequests \in [Automations -> Nat]

Origins == {"schedule", "manual_run_now"}
Pending == {"planned", "claimed", "retry_wait", "waiting_approval"}
Final == {"completed", "failed", "cancelled", "timed_out"}
Consumed == Final \cup {"running", "skipped"}
Active == {"queued", "running", "waiting_approval"}
Phases == {"none", "approve", "ready", "failing"}

VARIABLES
    autos,      \* workflow_automations, each at its current revision
    occs,       \* workflow_automation_occurrences in the order of creation
    runs,       \* workflow_automation_runs, each an attempt at an occurrence
    dues,       \* due runs that were listed and not yet claimed
    launch,     \* where the launch of a run is, in this process
    clock,      \* the last fire time that has come; 0 is none
    requests,   \* run-now requests made
    overtaken   \* history: occurrences rewritten by a failure of a launch that no
                \* longer owned them

vars == <<autos, occs, runs, dues, launch, clock, requests, overtaken>>
rows == <<autos, occs, runs>>

(* The columns of the definition, occurrence and run rows keep to their    *)
(* values; in particular next_run_at is never more than one slot ahead.    *)
TypeOK ==
    /\ DOMAIN autos = Automations
    /\ \A a \in Automations :
         /\ autos[a].enabled \in BOOLEAN
         /\ autos[a].status \in Active \cup Final \cup {"ready", "disabled"}
         /\ autos[a].next \in 0..(MaxClock + 1)
         /\ autos[a].rev \in 1..Len(Policies[a])
    /\ \A o \in DOMAIN occs :
         /\ occs[o].auto \in Automations
         /\ occs[o].rev \in 1..autos[occs[o].auto].rev
         /\ occs[o].origin \in Origins /\ occs[o].slot \in Nat
         /\ occs[o].status \in Pending \cup Consumed
         /\ occs[o].attempt \in 0..MaxAttempts
         /\ occs[o].leased \in BOOLEAN /\ occs[o].backoff \in BOOLEAN
         /\ occs[o].approval \in {"pending", "approved", "denied", "not_required"}
         /\ occs[o].resume \in 0..(MaxClock + 1)
    /\ \A r \in DOMAIN runs :
         /\ runs[r].occ \in DOMAIN occs
         /\ runs[r].attempt \in 1..occs[runs[r].occ].attempt
         /\ runs[r].status \in Active \cup Final
         /\ runs[r].started \in BOOLEAN
    /\ launch \in Seq(Phases) /\ Len(launch) = Len(runs)
    /\ clock \in 0..MaxClock 
    /\ requests \in [Automations -> Nat]
    /\ overtaken \subseteq DOMAIN occs

-----------------------------------------------------------------------------
(* Definitions.                                                            *)

Policy(a) == Policies[a][autos[a].rev]
AutoOf(r) == occs[runs[r].occ].auto
RevisionOf(r) == occs[runs[r].occ].rev
PolicyOf(r) == Policies[AutoOf(r)][RevisionOf(r)]
RunsOf(o) == {r \in DOMAIN runs : runs[r].occ = o}

NextRunSkipsOne(enabled) == IF enabled THEN clock + 2 ELSE 0      \* mutant of NextRun

(* The fire time after now; none when the definition is disabled.          *)
NextRun(enabled) == IF enabled THEN clock + 1 ELSE 0

(* COALESCE(?, next_run_at)                                                *)
Coalesce(next, old) == IF next # 0 THEN next ELSE old

Init ==
    /\ autos = [a \in Automations |->
                   [enabled |-> TRUE, status |-> "ready", next |-> 1, rev |-> 1]]
    /\ occs = <<>> /\ runs = <<>> /\ launch = <<>>
    /\ dues = {} /\ clock = 0 /\ requests = [a \in Automations |-> 0] /\ overtaken = {}

SupersedesNewRevision(a, o) ==      \* mutant of Supersedes
    /\ occs[o].auto = a /\ occs[o].rev = autos[a].rev + 1

(* A definition is saved, enabled or disabled.  It gets a new revision;    *)
(* what has not started of the old one is cancelled.                       *)
Supersedes(a, o) ==
    /\ occs[o].auto = a /\ occs[o].rev = autos[a].rev

SavedOccs(a) ==
    [o \in DOMAIN occs |->
       IF Supersedes(a, o) /\ occs[o].status \in Pending
         THEN [occs[o] EXCEPT !.status = "cancelled", !.leased = FALSE, !.backoff = FALSE]
         ELSE occs[o]]

SavedRuns(a) ==
    [r \in DOMAIN runs |->
       IF Supersedes(a, runs[r].occ) /\ runs[r].status \in {"queued", "waiting_approval"}
         THEN [runs[r] EXCEPT !.status = "cancelled"]
         ELSE runs[r]]

SaveAutomation(a, enabled) ==
    /\ autos[a].rev < Len(Policies[a])
    /\ autos' = [autos EXCEPT ![a] =
                   [enabled |-> enabled, next |-> NextRun(enabled),
                    status |-> IF enabled THEN "ready" ELSE "disabled",
                    rev |-> @.rev + 1]]
    /\ occs' = SavedOccs(a) /\ runs' = SavedRuns(a)
    /\ UNCHANGED <<dues, launch, clock, requests, overtaken>>

-----------------------------------------------------------------------------
(* Listing what is due.                                                    *)

(* A run-now occurrence, of whatever revision, that waits for a claim.     *)
WaitsForClaim(o) ==
    \/ occs[o].status = "planned"
    \/ occs[o].status = "claimed" /\ ~occs[o].leased
    \/ occs[o].status = "retry_wait" /\ ~occs[o].backoff

PendingManual(a) ==
    {o \in DOMAIN occs : /\ occs[o].auto = a
                         /\ occs[o].origin = "manual_run_now"
                         /\ WaitsForClaim(o)}

ListDue(a) ==
    /\ Cardinality(dues) < MaxDues
    /\ autos[a].enabled /\ autos[a].status # "waiting_approval"
    /\ IF PendingManual(a) # {}
         THEN dues' = dues \cup {[auto |-> a, origin |-> "manual_run_now",
                                  slot |-> occs[Min(PendingManual(a))].slot]}
         ELSE /\ autos[a].next # 0 /\ autos[a].next <= clock
              /\ dues' = dues \cup {[auto |-> a, origin |-> "schedule",
                                     slot |-> autos[a].next]}
    /\ UNCHANGED <<rows, launch, clock, requests, overtaken>>

RunNow(a) ==
    /\ Cardinality(dues) < MaxDues /\ requests[a] < MaxRequests[a]
    /\ autos[a].enabled
    /\ dues' = dues \cup {[auto |-> a, origin |-> "manual_run_now", slot |-> requests[a] + 1]}
    /\ requests' = [requests EXCEPT ![a] = @ + 1]
    /\ UNCHANGED <<rows, launch, clock, overtaken>>

-----------------------------------------------------------------------------
(* Claiming a due run, one transaction.                                    *)

(* The newest pending occurrence of the current revision, if it is the one *)
(* that is asked for; 0 when there is none.                                *)
PendingOccurrence(d) ==
    LET pending == {o \in DOMAIN occs : /\ occs[o].auto = d.auto
                                        /\ occs[o].rev = autos[d.auto].rev
                                        /\ occs[o].status \in Pending}
        newest == Max(pending)
    IN  IF /\ pending # {}
           /\ occs[newest].origin = d.origin
           /\ d.origin = "schedule" \/ occs[newest].slot = d.slot
          THEN newest
          ELSE 0

(* The claim is refused: the definition was disabled or rescheduled, or    *)
(* the occurrence is not due.                                              *)
Refused(d) ==
    \/ ~autos[d.auto].enabled
    \/ /\ d.origin = "schedule" /\ PendingOccurrence(d) = 0
       /\ autos[d.auto].next # d.slot \/ d.slot > clock

SlotOf(d) ==
    LET p == PendingOccurrence(d)
    IN  IF p # 0 THEN occs[p].slot
        ELSE IF d.origin = "schedule" /\ Policy(d.auto).misfire = "run_latest" THEN clock
        ELSE d.slot

Existing(d) ==
    LET same == {o \in DOMAIN occs : /\ occs[o].auto = d.auto
                                     /\ occs[o].rev = autos[d.auto].rev
                                     /\ occs[o].slot = SlotOf(d)
                                     /\ occs[o].origin = d.origin}
    IN  IF PendingOccurrence(d) # 0 THEN PendingOccurrence(d)
        ELSE IF same # {} THEN Min(same) ELSE 0

Planned(d) ==
    [auto |-> d.auto, rev |-> autos[d.auto].rev, slot |-> SlotOf(d), origin |-> d.origin,
     status |-> "planned", attempt |-> 0, leased |-> FALSE, backoff |-> FALSE,
     approval |-> IF Policy(d.auto).approval THEN "pending" ELSE "not_required",
     resume |-> IF d.origin = "manual_run_now" THEN autos[d.auto].next ELSE 0]

(* The occurrences with the one asked for, and which that is.              *)
PreparedOccs(d) == IF Existing(d) # 0 THEN occs ELSE Append(occs, Planned(d))
Prepared(d) == IF Existing(d) # 0 THEN Existing(d) ELSE Len(occs) + 1

(* Where the definition's cursor goes if the occurrence is used up now: a  *)
(* run-now occurrence gives back the cursor it found.                      *)
CursorAfter(d) ==
    IF d.origin = "schedule" THEN NextRun(autos[d.auto].enabled)
    ELSE IF PendingOccurrence(d) # 0
      THEN Coalesce(occs[PendingOccurrence(d)].resume, autos[d.auto].next)
    ELSE autos[d.auto].next

HasRunningRun(a, o) ==      \* mutant of HasActiveRun
    \E r \in DOMAIN runs : AutoOf(r) = a /\ runs[r].occ # o /\ runs[r].status = "running"

HasActiveRun(a, o) ==
    \E r \in DOMAIN runs : AutoOf(r) = a /\ runs[r].occ # o /\ runs[r].status \in Active

HasRunningSourceLock(a) ==      \* mutant of HasIsolatedSourceLock
    /\ Policy(a).isolated
    /\ \E r \in DOMAIN runs : /\ AutoOf(r) # a /\ runs[r].status = "running"
                              /\ PolicyOf(r).isolated

(* Another definition's isolated patch is active on the source root; every *)
(* isolated definition of the model works on the same one.                 *)
HasIsolatedSourceLock(a) ==
    /\ Policy(a).isolated
    /\ \E r \in DOMAIN runs : /\ AutoOf(r) # a /\ runs[r].status \in Active
                              /\ PolicyOf(r).isolated

(* The decision of the claim on the prepared occurrence o; late says that  *)
(* its grace period is over.                                               *)
Decision(d, o, late) ==
    IF o.status = "waiting_approval" \/ (o.status = "claimed" /\ o.leased) THEN "wait"
    ELSE IF o.status \in Consumed THEN "consumed"
    ELSE IF o.backoff \/ HasIsolatedSourceLock(d.auto) THEN "wait"
    ELSE IF HasActiveRun(d.auto, Prepared(d)) /\ Policy(d.auto).overlap = "skip" THEN "overlap"
    ELSE IF o.attempt + 1 > MaxAttempts THEN "exhausted"
    ELSE IF late /\ o.attempt = 0 /\ Policy(d.auto).misfire = "skip" THEN "misfire"
    ELSE "queue"

(* A run-now occurrence is late only when it was asked for before.         *)
MayBeLate(d) ==
    d.origin = "schedule" \/ \E o \in DOMAIN occs : /\ occs[o].auto = d.auto
                                                    /\ occs[o].origin = d.origin
                                                    /\ occs[o].slot = d.slot

Ended(o, status) == [o EXCEPT !.status = status, !.leased = FALSE]

(* An expired lease's run, still queued, is superseded by the new attempt. *)
SupersededRuns(o, attempt) ==
    [r \in DOMAIN runs |->
       IF runs[r].occ = o /\ runs[r].status = "queued" /\ runs[r].attempt < attempt
         THEN [runs[r] EXCEPT !.status = "cancelled"]
         ELSE runs[r]]

Queue(d, o, i) ==
    /\ Len(runs) < MaxRuns
    /\ occs' = [PreparedOccs(d) EXCEPT ![i] =
                  [o EXCEPT !.status = "claimed", !.attempt = @ + 1,
                            !.leased = TRUE, !.backoff = FALSE]]
    /\ runs' = Append(SupersededRuns(i, o.attempt + 1),
                      [occ |-> i, attempt |-> o.attempt + 1, status |-> "queued",
                       started |-> FALSE])
    /\ launch' = Append(launch, IF Policy(d.auto).approval /\ o.approval # "approved"
                                  THEN "approve" ELSE "ready")
    /\ autos' = [autos EXCEPT ![d.auto].status = "queued"]

UseUp(d, i, decision, occ) ==
    /\ occs' = [PreparedOccs(d) EXCEPT ![i] = occ]
    /\ autos' = [autos EXCEPT
                   ![d.auto].next = CursorAfter(d),
                   ![d.auto].status =
                      IF decision = "overlap" \/ (decision = "consumed" /\ @ # "queued")
                        THEN @ ELSE "ready"]
    /\ UNCHANGED <<runs, launch>>

Decided(d, o, i, decision) ==
    \/ decision = "wait" /\ occs' = PreparedOccs(d) /\ UNCHANGED <<autos, runs, launch>>
    \/ decision = "consumed" /\ UseUp(d, i, decision, o)
    \/ /\ decision \in {"overlap", "misfire"}
       /\ UseUp(d, i, decision, [Ended(o, "skipped") EXCEPT !.backoff = FALSE])
    \/ decision = "exhausted" /\ UseUp(d, i, decision, Ended(o, "failed"))
    \/ decision = "queue" /\ Queue(d, o, i)

(* The background tick and `Due now` may both have listed a scheduled run, *)
(* and each of them claims it: the first leaves it to the second.          *)
Claim(d) ==
    /\ dues' = dues \ {d} \/ (d.origin = "schedule" /\ dues' = dues)
    /\ IF Refused(d)
         THEN UNCHANGED <<rows, launch>>
         ELSE \E late \in IF MayBeLate(d) THEN BOOLEAN ELSE {FALSE},
                 i \in {Prepared(d)}, o \in {PreparedOccs(d)[Prepared(d)]} :
                Decided(d, o, i, Decision(d, o, late))
    /\ UNCHANGED <<clock, requests, overtaken>>

-----------------------------------------------------------------------------
(* The approval before a run.                                              *)

(* The launch of a run that needs an approval ends here: in a request, or, *)
(* when the run was superseded meanwhile, in nothing.                      *)
RequestApproval(r) ==
    LET o == runs[r].occ
    IN  /\ launch[r] = "approve"
        /\ launch' = [launch EXCEPT ![r] = "none"]
        /\ IF /\ runs[r].status = "queued" /\ RevisionOf(r) = autos[AutoOf(r)].rev
              /\ occs[o].status = "claimed"
             THEN /\ occs' = [occs EXCEPT ![o] =
                                [Ended(@, "waiting_approval") EXCEPT !.approval = "pending"]]
                  /\ runs' = [runs EXCEPT ![r].status = "waiting_approval"]
                  /\ autos' = [autos EXCEPT ![AutoOf(r)].status = "waiting_approval"]
             ELSE UNCHANGED rows
        /\ UNCHANGED <<dues, clock, requests, overtaken>>

PendingApproval(r) ==
    /\ runs[r].status = "waiting_approval"
    /\ occs[runs[r].occ].approval = "pending"
    /\ occs[runs[r].occ].status = "waiting_approval"
    /\ RevisionOf(r) = autos[AutoOf(r)].rev

Approve(r) ==
    /\ PendingApproval(r)
    /\ occs' = [occs EXCEPT ![runs[r].occ] =
                  [@ EXCEPT !.status = "claimed", !.leased = TRUE, !.approval = "approved"]]
    /\ runs' = [runs EXCEPT ![r].status = "queued"]
    /\ autos' = [autos EXCEPT ![AutoOf(r)].status = "queued"]
    /\ launch' = [launch EXCEPT ![r] = "ready"]
    /\ UNCHANGED <<dues, clock, requests, overtaken>>

Deny(r) ==
    LET o == runs[r].occ
        a == AutoOf(r)
    IN  /\ PendingApproval(r)
        /\ occs' = [occs EXCEPT ![o] = [Ended(@, "skipped") EXCEPT !.backoff = FALSE,
                                                                  !.approval = "denied"]]
        /\ runs' = [runs EXCEPT ![r].status = "cancelled"]
        /\ autos' = [autos EXCEPT
                       ![a].status = IF autos[a].enabled THEN "ready" ELSE "disabled",
                       ![a].next = IF occs[o].origin = "manual_run_now"
                                     THEN occs[o].resume ELSE NextRun(autos[a].enabled)]
        /\ UNCHANGED <<dues, launch, clock, requests, overtaken>>

-----------------------------------------------------------------------------
(* Launching a claimed run.                                                *)

(* The attempt still owns the occurrence's claim.                          *)
Authoritative(r) ==
    LET o == occs[runs[r].occ]
    IN  o.status = "claimed" /\ o.attempt = runs[r].attempt /\ o.leased

StartKeepsClaim(r) ==      \* mutant of Start
    LET a == AutoOf(r)
    IN  /\ launch[r] = "ready" /\ runs[r].status = "queued" /\ Authoritative(r)
        /\ runs' = [runs EXCEPT ![r].status = "running", ![r].started = TRUE]
        /\ autos' = [autos EXCEPT ![a].status = "running"]
        /\ launch' = [launch EXCEPT ![r] = "none"]
        /\ UNCHANGED <<occs, dues, clock, requests, overtaken>>

(* The last step of a launch before the executor: the run is bound to its  *)
(* Agent Run and the cursor moves past the occurrence.                     *)
Start(r) ==
    LET o == runs[r].occ
        a == AutoOf(r)
    IN  /\ launch[r] = "ready" /\ runs[r].status = "queued" /\ Authoritative(r)
        /\ runs' = [runs EXCEPT ![r].status = "running", ![r].started = TRUE]
        /\ occs' = [occs EXCEPT ![o] = [Ended(@, "running") EXCEPT !.backoff = FALSE]]
        /\ autos' = [autos EXCEPT
                       ![a].status = "running",
                       ![a].next = Coalesce(IF occs[o].origin = "manual_run_now"
                                              THEN occs[o].resume
                                              ELSE NextRun(autos[a].enabled), @)]
        /\ launch' = [launch EXCEPT ![r] = "none"]
        /\ UNCHANGED <<dues, clock, requests, overtaken>>

StartRefused(r) ==
    /\ launch[r] = "ready"
    /\ runs[r].status # "queued" \/ ~Authoritative(r)
    /\ runs' = [runs EXCEPT ![r].status = IF @ = "queued" THEN "cancelled" ELSE @]
    /\ launch' = [launch EXCEPT ![r] = "failing"]
    /\ UNCHANGED <<autos, occs, dues, clock, requests, overtaken>>

LaunchFailedMovesOn(r) ==      \* mutant of LaunchFailed
    /\ launch[r] \in {"ready", "failing"}
    /\ runs' = [runs EXCEPT ![r].status = "cancelled"]
    /\ occs' = [occs EXCEPT ![runs[r].occ] =
                  [Ended(@, "retry_wait") EXCEPT !.backoff = TRUE]]
    /\ autos' = [autos EXCEPT ![AutoOf(r)].status = "ready",
                             ![AutoOf(r)].next = NextRun(autos[AutoOf(r)].enabled)]
    /\ launch' = [launch EXCEPT ![r] = "none"]
    /\ UNCHANGED <<dues, clock, requests, overtaken>>

(* Any failure of a launch, a refused start included.  Nothing compares    *)
(* the run with the attempt that owns the occurrence now.                  *)
LaunchFailed(r) ==
    LET o == runs[r].occ
        a == AutoOf(r)
        exhausted == runs[r].attempt >= MaxAttempts
    IN  /\ launch[r] \in {"ready", "failing"}
        /\ runs' = [runs EXCEPT ![r].status = "cancelled"]
        /\ occs' = [occs EXCEPT ![o] =
                      [Ended(@, IF exhausted THEN "failed" ELSE "retry_wait")
                         EXCEPT !.backoff = ~exhausted]]
        /\ autos' = [autos EXCEPT
                       ![a].status = "ready",
                       ![a].next = IF ~exhausted THEN @
                                   ELSE Coalesce(IF occs[o].origin = "manual_run_now"
                                                   THEN occs[o].resume
                                                   ELSE NextRun(autos[a].enabled), @)]
        /\ launch' = [launch EXCEPT ![r] = "none"]
        /\ overtaken' = IF occs[o].status = "claimed" /\ occs[o].attempt = runs[r].attempt
                          THEN overtaken ELSE overtaken \cup {o}
        /\ UNCHANGED <<dues, clock, requests>>

(* The Agent Run of a started run reaches its terminal status.             *)
RunEnds(r, status) ==
    /\ runs[r].status = "running"
    /\ runs' = [runs EXCEPT ![r].status = status]
    /\ occs' = [occs EXCEPT ![runs[r].occ] = Ended(@, status)]
    /\ autos' = [autos EXCEPT ![AutoOf(r)].status = status]
    /\ UNCHANGED <<dues, launch, clock, requests, overtaken>>

-----------------------------------------------------------------------------
(* The process ends and starts again.  Calls on their way are lost, and    *)
(* startup closes the runs whose Agent Run was interrupted.                *)

Interrupted(a) == {r \in DOMAIN runs : AutoOf(r) = a /\ runs[r].status = "running"}

Restart ==
    /\ dues' = {} /\ launch' = [r \in DOMAIN launch |-> "none"]
    /\ runs' = [r \in DOMAIN runs |->
                  IF runs[r].status = "running"
                    THEN [runs[r] EXCEPT !.status = "cancelled"] ELSE runs[r]]
    /\ occs' = [o \in DOMAIN occs |->
                  IF \E r \in RunsOf(o) : runs[r].status = "running"
                    THEN [Ended(occs[o], "cancelled") EXCEPT !.backoff = FALSE]
                    ELSE occs[o]]
    /\ autos' = [a \in Automations |->
                   IF Interrupted(a) # {} /\ \A r \in DOMAIN runs :
                        AutoOf(r) = a => runs'[r].status \notin Active
                     THEN [autos[a] EXCEPT !.status = "cancelled"]
                     ELSE autos[a]]
    /\ UNCHANGED <<clock, requests, overtaken>>

(* Time passes.                                                            *)
Fire ==
    /\ clock < MaxClock
    /\ clock' = clock + 1
    /\ UNCHANGED <<rows, dues, launch, requests, overtaken>>

LeaseExpires(o) ==
    /\ occs[o].leased
    /\ occs' = [occs EXCEPT ![o].leased = FALSE]
    /\ UNCHANGED <<autos, runs, dues, launch, clock, requests, overtaken>>

BackoffEnds(o) ==
    /\ occs[o].backoff
    /\ occs' = [occs EXCEPT ![o].backoff = FALSE]
    /\ UNCHANGED <<autos, runs, dues, launch, clock, requests, overtaken>>

Next ==
    \/ \E a \in Automations :
         \/ \E enabled \in BOOLEAN : SaveAutomation(a, enabled)
         \/ ListDue(a)
         \/ RunNow(a)
    \/ \E d \in dues : Claim(d)
    \/ \E r \in DOMAIN runs :
         \/ RequestApproval(r) \/ Approve(r) \/ Deny(r)
         \/ Start(r) \/ StartRefused(r) \/ LaunchFailed(r)
         \/ \E status \in Outcomes : RunEnds(r, status)
    \/ \E o \in DOMAIN occs : LeaseExpires(o) \/ BackoffEnds(o)
    \/ Fire
    \/ Restart

Spec == Init /\ [][Next]_vars

-----------------------------------------------------------------------------
(* Properties.                                                             *)

(* Ticks, `Due now`, retries after an expired lease and restarts never     *)
(* execute an occurrence twice, unless a launch that had lost it failed    *)
(* and rewrote it (LaunchFailed, which no lease fences).                   *)
OneExecution ==
    \A o \in DOMAIN occs \ overtaken :
      Cardinality({r \in RunsOf(o) : runs[r].started}) <= 1

(* A run starts only under the revision that is saved now, while its       *)
(* definition is enabled, and with the approval that revision asks for.    *)
StartsAreAuthorised ==
    [][\A r \in DOMAIN runs :
         runs'[r].started /\ ~runs[r].started =>
           /\ autos[AutoOf(r)].enabled
           /\ RevisionOf(r) = autos[AutoOf(r)].rev
           /\ Policy(AutoOf(r)).approval => occs[runs[r].occ].approval = "approved"]_vars

(* Under the overlap policy "skip" an active run excludes every active run *)
(* of another occurrence, manual or scheduled, of the same definition.     *)
OverlapIsSkipped ==
    \A r, s \in DOMAIN runs :
      (/\ runs[r].status \in Active /\ runs[s].status \in Active
       /\ AutoOf(r) = AutoOf(s) /\ runs[r].occ # runs[s].occ)
      => \E x \in {r, s} : PolicyOf(x).overlap = "allow"

(* Two definitions never have isolated patches active on one source root   *)
(* at the same time.                                                       *)
OneIsolatedWriter ==
    \A r, s \in DOMAIN runs :
      (/\ runs[r].status \in Active /\ runs[s].status \in Active
       /\ PolicyOf(r).isolated /\ PolicyOf(s).isolated)
      => AutoOf(r) = AutoOf(s)

(* The cursor of a definition that skips misfires never leaves a fire time *)
(* whose occurrence is not used up: no retry, denial, restart or `Run now` *)
(* makes a due occurrence disappear, with the exception OneExecution has.  *)
(* It is stated up to the first `Run now`: of two run-now occurrences that *)
(* wait together each gives back the cursor that it found, and a start may *)
(* then move the cursor past a fire time that nobody listed.               *)
CursorLeavesNothingBehind ==
    [][\A a \in Automations \ {occs'[o].auto : o \in overtaken'} :
         (/\ requests[a] <= 1
          /\ autos'[a].rev = autos[a].rev /\ Policy(a).misfire = "skip"
          /\ autos[a].next # 0 /\ autos'[a].next > autos[a].next)
         => \E o \in DOMAIN occs' :
              /\ occs'[o].auto = a /\ occs'[o].rev = autos[a].rev
              /\ occs'[o].origin = "schedule" /\ occs'[o].slot = autos[a].next
              /\ occs'[o].status \in Consumed]_vars
=============================================================================
