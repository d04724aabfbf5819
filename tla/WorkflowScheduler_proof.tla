----------------------- MODULE WorkflowScheduler_proof -----------------------
(***************************************************************************)
(* Theorems about WorkflowScheduler, for every set of definitions, every   *)
(* history of policies and every bound: type correctness, the overlap      *)
(* policy, the exclusion of isolated writers, that a run starts only under *)
(* an authority that still stands, and that an occurrence is executed once.*)
(*                                                                         *)
(* The overlap policy and the writer exclusion are kept by each step on    *)
(* their own, once the rows are typed and linked (Typed, Linked): only the *)
(* claim adds an active run.  A start is authorised because no occurrence  *)
(* stays claimed across a save (ClaimsAreCurrent) and no run of an older   *)
(* attempt stays queued across a claim (ReadyIsApproved).  An occurrence   *)
(* runs once because a started one is consumed (StartedIsConsumed).        *)
(***************************************************************************)
EXTENDS WorkflowScheduler, FiniteSetTheorems, WellFoundedInduction, TLAPS

AutoRows ==
    [enabled : BOOLEAN, status : Active \cup Final \cup {"ready", "disabled"},
     next : 0..(MaxClock + 1), rev : Nat]

OccRows ==
    [auto : Automations, rev : Nat, slot : Nat, origin : Origins,
     status : Pending \cup Consumed, attempt : 0..MaxAttempts,
     leased : BOOLEAN, backoff : BOOLEAN,
     approval : {"pending", "approved", "denied", "not_required"},
     resume : 0..(MaxClock + 1)]

RunRows ==
    [occ : Nat, attempt : Nat, status : Active \cup Final, started : BOOLEAN]

(* The rows and the calls on their way have their columns.                 *)
Typed ==
    /\ autos \in [Automations -> AutoRows]
    /\ occs \in Seq(OccRows)
    /\ runs \in Seq(RunRows)
    /\ launch \in Seq(Phases) /\ Len(launch) = Len(runs)
    /\ dues \subseteq [auto : Automations, origin : Origins, slot : Nat]
    /\ clock \in 0..MaxClock
    /\ requests \in [Automations -> Nat]
    /\ overtaken \subseteq DOMAIN occs

(* What a row refers to exists: a saved revision, an occurrence, one of    *)
(* its attempts.                                                           *)
Linked ==
    /\ \A a \in Automations : autos[a].rev \in 1..Len(Policies[a])
    /\ \A o \in DOMAIN occs : occs[o].rev \in 1..autos[occs[o].auto].rev
    /\ \A r \in DOMAIN runs :
         /\ runs[r].occ \in DOMAIN occs
         /\ runs[r].attempt \in 1..occs[runs[r].occ].attempt

(* An occurrence that a launch or an approval holds belongs to the saved   *)
(* revision of an enabled definition.                                      *)
ClaimsAreCurrent ==
    \A o \in DOMAIN occs :
      occs[o].status \in {"claimed", "waiting_approval"} =>
        /\ autos[occs[o].auto].enabled
        /\ occs[o].rev = autos[occs[o].auto].rev

(* A run that may start under a policy that asks for an approval has it.   *)
ReadyIsApproved ==
    \A r \in DOMAIN runs :
      (/\ launch[r] = "ready" /\ runs[r].status = "queued"
       /\ occs[runs[r].occ].status = "claimed" /\ PolicyOf(r).approval)
      => occs[runs[r].occ].approval = "approved"

(* A run was started only if its occurrence is used up, and no other run   *)
(* of the occurrence was, unless a launch that lost the occurrence failed. *)
StartedIsConsumed ==
    \A r \in DOMAIN runs :
      runs[r].started /\ runs[r].occ \notin overtaken =>
        /\ occs[runs[r].occ].status \in Consumed
        /\ \A s \in DOMAIN runs : runs[s].started /\ runs[s].occ = runs[r].occ => s = r

-----------------------------------------------------------------------------
(*                  Least and greatest members, sequences                  *)

(* A set of numbers has a least member.                                    *)
LEMMA HasLeast ==
    ASSUME NEW S \in SUBSET Nat, S # {}
    PROVE  \E x \in S : \A y \in S : x <= y
  <1> DEFINE R == OpToRel(<, Nat)
  <1>1. IsWellFoundedOn(R, Nat)
      BY NatLessThanWellFounded
  <1>2. PICK x \in S : \A y \in S : ~(<<y, x>> \in R)
      BY <1>1, WFMin
  <1>3. ASSUME NEW y \in S PROVE x <= y
    <2>1. x \in Nat /\ y \in Nat
        OBVIOUS
    <2>2. y < x => <<y, x>> \in R
        BY <2>1 DEF OpToRel
    <2>3. ~(y < x)
        BY <1>2, <2>2
    <2> QED
        BY <2>1, <2>3
  <1> QED
      BY <1>2, <1>3

(* A bounded set of numbers has a greatest member.                         *)
LEMMA HasGreatest ==
    ASSUME NEW n \in Nat, NEW S \in SUBSET (1..n), S # {}
    PROVE  \E x \in S : \A y \in S : x >= y
  <1> DEFINE T == {k \in Nat : \A y \in S : k >= y}
  <1>1. n \in T
      OBVIOUS
  <1>2. PICK k \in T : \A y \in T : k <= y
      BY <1>1, HasLeast
  <1>3. CASE k \in S
      BY <1>2, <1>3
  <1>4. CASE k \notin S
    <2>1. PICK y \in S : TRUE
        OBVIOUS
    <2>2. k \in Nat /\ y \in 1..n /\ k >= y
        BY <2>1
    <2>3. k # 0
        BY <2>2
    <2>4. ASSUME NEW z \in S PROVE k - 1 >= z
      <3>1. z \in 1..n /\ k >= z /\ k # z
          BY <1>4
      <3> QED
          BY <2>2, <3>1
    <2>5. k - 1 \in T
        BY <2>2, <2>3, <2>4
    <2> QED
        BY <1>2, <2>2, <2>5
  <1> QED
      BY <1>3, <1>4

(* The oldest and the newest row of a selection are rows of it.            *)
LEMMA MinIn ==
    ASSUME NEW S \in SUBSET Nat, S # {}
    PROVE  Min(S) \in S /\ \A y \in S : Min(S) <= y
  BY HasLeast DEF Min

LEMMA MaxIn ==
    ASSUME NEW n \in Nat, NEW S \in SUBSET (1..n), S # {}
    PROVE  Max(S) \in S /\ \A y \in S : Max(S) >= y
  BY HasGreatest DEF Max

(* A table that is rewritten row by row keeps its rows.                    *)
LEMMA RowsRewritten ==
    ASSUME NEW T, NEW U, NEW s \in Seq(T), NEW f \in [DOMAIN s -> U]
    PROVE  f \in Seq(U) /\ Len(f) = Len(s) /\ DOMAIN f = DOMAIN s
  <1>1. DOMAIN s = 1..Len(s) /\ Len(s) \in Nat
      OBVIOUS
  <1>2. f \in Seq(U)
      BY <1>1
  <1> QED
      BY <1>1, <1>2

LEMMA RowReplaced ==
    ASSUME NEW T, NEW s \in Seq(T), NEW i \in DOMAIN s, NEW x \in T
    PROVE  /\ [s EXCEPT ![i] = x] \in Seq(T)
           /\ Len([s EXCEPT ![i] = x]) = Len(s)
           /\ DOMAIN [s EXCEPT ![i] = x] = DOMAIN s
           /\ \A j \in DOMAIN s : [s EXCEPT ![i] = x][j] = IF j = i THEN x ELSE s[j]
  <1>1. [s EXCEPT ![i] = x] \in [DOMAIN s -> T]
      OBVIOUS
  <1> QED
      BY <1>1, RowsRewritten

LEMMA RowAdded ==
    ASSUME NEW T, NEW s \in Seq(T), NEW x \in T
    PROVE  /\ Append(s, x) \in Seq(T)
           /\ Len(Append(s, x)) = Len(s) + 1
           /\ DOMAIN Append(s, x) = DOMAIN s \cup {Len(s) + 1}
           /\ \A j \in DOMAIN s : Append(s, x)[j] = s[j]
           /\ Append(s, x)[Len(s) + 1] = x
           /\ Len(s) + 1 \notin DOMAIN s
  OBVIOUS

-----------------------------------------------------------------------------
(*                       The occurrence of a due run                       *)

(* A policy is one of the definition's.                                    *)
LEMMA PolicyTyped ==
    ASSUME NEW a \in Automations, NEW n \in 1..Len(Policies[a])
    PROVE  Policies[a][n] \in [overlap : {"skip", "allow"}, misfire : {"run_latest", "skip"},
                               approval : BOOLEAN, isolated : BOOLEAN]
  <1> DEFINE P == [overlap : {"skip", "allow"}, misfire : {"run_latest", "skip"},
                   approval : BOOLEAN, isolated : BOOLEAN]
  <1>1. Policies \in [Automations -> Seq(P)]
      BY PolicyAssumption
  <1> HIDE DEF P
  <1>2. Policies[a][n] \in P
      BY <1>1
  <1> QED
      BY <1>2 DEF P

(* The pending occurrence of a due run is a row of the saved revision.     *)
LEMMA PendingFound ==
    ASSUME Typed, NEW d \in dues, PendingOccurrence(d) # 0
    PROVE  /\ PendingOccurrence(d) \in DOMAIN occs
           /\ occs[PendingOccurrence(d)].auto = d.auto
           /\ occs[PendingOccurrence(d)].rev = autos[d.auto].rev
           /\ occs[PendingOccurrence(d)].status \in Pending
           /\ occs[PendingOccurrence(d)].origin = d.origin
  <1> DEFINE pending == {o \in DOMAIN occs : /\ occs[o].auto = d.auto
                                             /\ occs[o].rev = autos[d.auto].rev
                                             /\ occs[o].status \in Pending}
  <1>1. pending \in SUBSET (1..Len(occs)) /\ Len(occs) \in Nat
      BY DEF Typed
  <1>2. pending # {} /\ PendingOccurrence(d) = Max(pending)
        /\ occs[Max(pending)].origin = d.origin
      BY DEF PendingOccurrence
  <1>3. Max(pending) \in pending
      BY <1>1, <1>2, MaxIn
  <1> QED
      BY <1>2, <1>3

(* So is the occurrence that the claim finds.                              *)
LEMMA ExistingFound ==
    ASSUME Typed, NEW d \in dues, Existing(d) # 0
    PROVE  /\ Existing(d) \in DOMAIN occs
           /\ occs[Existing(d)].auto = d.auto
           /\ occs[Existing(d)].rev = autos[d.auto].rev
           /\ occs[Existing(d)].origin = d.origin
  <1> DEFINE same == {o \in DOMAIN occs : /\ occs[o].auto = d.auto
                                          /\ occs[o].rev = autos[d.auto].rev
                                          /\ occs[o].slot = SlotOf(d)
                                          /\ occs[o].origin = d.origin}
  <1>1. CASE PendingOccurrence(d) # 0
      BY <1>1, PendingFound DEF Existing
  <1>2. CASE PendingOccurrence(d) = 0
    <2>1. same # {} /\ Existing(d) = Min(same)
        BY <1>2 DEF Existing
    <2>2. same \in SUBSET Nat
        BY DEF Typed
    <2>3. Min(same) \in same
        BY <2>1, <2>2, MinIn
    <2> QED
        BY <2>1, <2>3
  <1> QED
      BY <1>1, <1>2

(* A new occurrence has its columns.                                       *)
LEMMA PlannedTyped ==
    ASSUME Typed, Linked, NEW d \in dues
    PROVE  Planned(d) \in OccRows
  <1>1. d \in [auto : Automations, origin : Origins, slot : Nat]
      BY DEF Typed
  <1>2. autos[d.auto] \in AutoRows /\ clock \in Nat
      BY <1>1, BoundAssumption DEF Typed
  <1>3. SlotOf(d) \in Nat
    <2>1. CASE PendingOccurrence(d) # 0
      <3>1. occs[PendingOccurrence(d)] \in OccRows
          BY <2>1, PendingFound DEF Typed
      <3> QED
          BY <2>1, <3>1 DEF SlotOf, OccRows
    <2>2. CASE PendingOccurrence(d) = 0
        BY <1>1, <1>2, <2>2 DEF SlotOf
    <2> QED
        BY <2>1, <2>2
  <1>4. 0 \in 0..(MaxClock + 1) /\ 0 \in 0..MaxAttempts
      BY BoundAssumption
  <1> QED
      BY <1>1, <1>2, <1>3, <1>4 DEF Planned, OccRows, AutoRows, Pending, Origins

(* The claim works on a row of the saved revision, which is added last if  *)
(* there was none, and touches no other.                                   *)
LEMMA PreparedRow ==
    ASSUME Typed, Linked, NEW d \in dues
    PROVE  /\ PreparedOccs(d) \in Seq(OccRows)
           /\ DOMAIN PreparedOccs(d) = DOMAIN occs \cup {Prepared(d)}
           /\ \A o \in DOMAIN occs : PreparedOccs(d)[o] = occs[o]
           /\ PreparedOccs(d)[Prepared(d)].auto = d.auto
           /\ PreparedOccs(d)[Prepared(d)].rev = autos[d.auto].rev
           /\ Prepared(d) \notin DOMAIN occs =>
                PreparedOccs(d)[Prepared(d)] = Planned(d)
  <1>1. occs \in Seq(OccRows)
      BY DEF Typed
  <1>2. CASE Existing(d) # 0
      BY <1>1, <1>2, ExistingFound DEF PreparedOccs, Prepared
  <1>3. CASE Existing(d) = 0
    <2>1. PreparedOccs(d) = Append(occs, Planned(d)) /\ Prepared(d) = Len(occs) + 1
        BY <1>3 DEF PreparedOccs, Prepared
    <2>2. Planned(d).auto = d.auto /\ Planned(d).rev = autos[d.auto].rev
        BY DEF Planned
    <2>3. /\ Append(occs, Planned(d)) \in Seq(OccRows)
          /\ DOMAIN Append(occs, Planned(d)) = DOMAIN occs \cup {Len(occs) + 1}
          /\ \A j \in DOMAIN occs : Append(occs, Planned(d))[j] = occs[j]
          /\ Append(occs, Planned(d))[Len(occs) + 1] = Planned(d)
        BY <1>1, PlannedTyped, RowAdded
    <2> QED
        BY <2>1, <2>2, <2>3
  <1> QED
      BY <1>2, <1>3

LEMMA PreparedBefore ==
    ASSUME Typed, Linked, NEW d \in dues
    PROVE  /\ Prepared(d) \in DOMAIN occs =>
                PreparedOccs(d)[Prepared(d)] = occs[Prepared(d)]
           /\ Prepared(d) \notin DOMAIN occs =>
                /\ PreparedOccs(d)[Prepared(d)].status = "planned"
                /\ PreparedOccs(d)[Prepared(d)].attempt = 0
  <1>1. Prepared(d) \in DOMAIN occs =>
          PreparedOccs(d)[Prepared(d)] = occs[Prepared(d)]
      BY PreparedRow
  <1>2. Prepared(d) \notin DOMAIN occs => PreparedOccs(d)[Prepared(d)] = Planned(d)
      BY PreparedRow
  <1>3. Planned(d).status = "planned" /\ Planned(d).attempt = 0
      BY DEF Planned
  <1> QED
      BY <1>1, <1>2, <1>3

-----------------------------------------------------------------------------
(*                          What the steps change                          *)

(* The steps of one run: its launch, its approval and its end.             *)
RunAction(r) ==
    \/ RequestApproval(r) \/ Approve(r) \/ Deny(r)
    \/ Start(r) \/ StartRefused(r) \/ LaunchFailed(r)
    \/ \E status \in Outcomes : RunEnds(r, status)

(* The columns of an occurrence that only its creation and a claim write.  *)
KeepsKey(x, o) ==
    /\ x.auto = o.auto /\ x.rev = o.rev /\ x.slot = o.slot /\ x.origin = o.origin
    /\ x.attempt = o.attempt /\ x.resume = o.resume

(* A run stays an attempt at its occurrence, and stays started.            *)
SameAttempt(y, run) ==
    y.occ = run.occ /\ y.attempt = run.attempt /\ y.started = run.started

(* Each rewrites the run to y, its occurrence to x, its definition to b    *)
(* and the state of its launch to l, within these limits.                  *)
RunEffect(r, b, x, y, l) ==
    LET o == occs[runs[r].occ]
    IN  /\ b \in AutoRows /\ x \in OccRows /\ y \in RunRows /\ l \in Phases
        /\ autos' = [autos EXCEPT ![AutoOf(r)] = b]
        /\ occs' = [occs EXCEPT ![runs[r].occ] = x]
        /\ runs' = [runs EXCEPT ![r] = y]
        /\ launch' = [launch EXCEPT ![r] = l]
        /\ UNCHANGED <<dues, clock, requests>>
        /\ b.rev = autos[AutoOf(r)].rev /\ b.enabled = autos[AutoOf(r)].enabled
        /\ KeepsKey(x, o)
        /\ y.occ = runs[r].occ /\ y.attempt = runs[r].attempt
        /\ y.status \in Active => runs[r].status \in Active
        /\ x.status \in {"claimed", "waiting_approval"} =>
             o.status \in {"claimed", "waiting_approval"}
        /\ x.status = "claimed" =>
             x.approval = "approved" \/ (o.status = "claimed" /\ x.approval = o.approval)
        /\ l = "ready" /\ y.status = "queued" => x.approval = "approved"
        /\ y.started /\ ~runs[r].started =>
             /\ launch[r] = "ready" /\ runs[r].status = "queued"
             /\ o.status = "claimed" /\ x.status \in Consumed
        /\ \/ /\ overtaken' = overtaken
              /\ o.status \in Consumed => x.status \in Consumed
           \/ overtaken' = overtaken \cup {runs[r].occ}

LEMMA RunEffects ==
    ASSUME Typed, Linked, NEW r \in DOMAIN runs, RunAction(r)
    PROVE  \E b, x, y, l : RunEffect(r, b, x, y, l)
  <1> DEFINE i == runs[r].occ
             a == AutoOf(r)
  <1>1. /\ runs[r] \in RunRows /\ i \in DOMAIN occs /\ occs[i] \in OccRows
        /\ a \in Automations /\ autos[a] \in AutoRows
        /\ r \in DOMAIN launch /\ launch[r] \in Phases
    <2>1. runs \in Seq(RunRows) /\ occs \in Seq(OccRows)
          /\ launch \in Seq(Phases) /\ Len(launch) = Len(runs)
        BY DEF Typed
    <2>2. runs[r] \in RunRows /\ r \in DOMAIN launch /\ launch[r] \in Phases
        BY <2>1
    <2>3. i \in DOMAIN occs /\ occs[i] \in OccRows
        BY <2>1 DEF Linked
    <2>4. a \in Automations
        BY <2>3 DEF AutoOf, OccRows
    <2> QED
        BY <2>2, <2>3, <2>4 DEF Typed
  <1>2. clock + 1 \in 0..(MaxClock + 1) /\ 0 \in 0..(MaxClock + 1)
      BY BoundAssumption DEF Typed
  <1>3. NextRun(autos[a].enabled) \in 0..(MaxClock + 1)
      BY <1>2 DEF NextRun
  <1>4. occs[i].resume \in 0..(MaxClock + 1)
      BY <1>1 DEF OccRows
  <1>5. ASSUME NEW n \in 0..(MaxClock + 1)
        PROVE  Coalesce(n, autos[a].next) \in 0..(MaxClock + 1)
      BY <1>1, <1>5 DEF Coalesce, AutoRows
  <1>6. autos = [autos EXCEPT ![a] = autos[a]] /\ occs = [occs EXCEPT ![i] = occs[i]]
        /\ runs = [runs EXCEPT ![r] = runs[r]] /\ launch = [launch EXCEPT ![r] = launch[r]]
      BY <1>1 DEF Typed
  <1>7. CASE RequestApproval(r)
    <2> DEFINE asks == /\ runs[r].status = "queued" /\ RevisionOf(r) = autos[a].rev
                       /\ occs[i].status = "claimed"
               b == [autos[a] EXCEPT !.status = "waiting_approval"]
               x == [Ended(occs[i], "waiting_approval") EXCEPT !.approval = "pending"]
               y == [runs[r] EXCEPT !.status = "waiting_approval"]
    <2>1. CASE asks
      <3>1. b \in AutoRows /\ b.rev = autos[a].rev /\ b.enabled = autos[a].enabled
          BY <1>1 DEF AutoRows, Active
      <3>2. x \in OccRows /\ KeepsKey(x, occs[i])
            /\ x.status = "waiting_approval" /\ x.approval = "pending"
          BY <1>1 DEF OccRows, Ended, Pending, KeepsKey
      <3>3. y \in RunRows /\ y.occ = i /\ y.attempt = runs[r].attempt
            /\ y.status = "waiting_approval" /\ y.started = runs[r].started
          BY <1>1 DEF RunRows, Active
      <3>4. /\ autos' = [autos EXCEPT ![a] = b] /\ occs' = [occs EXCEPT ![i] = x]
            /\ runs' = [runs EXCEPT ![r] = y] /\ launch' = [launch EXCEPT ![r] = "none"]
            /\ UNCHANGED <<dues, clock, requests, overtaken>>
          BY <1>7, <2>1 DEF RequestApproval
      <3>5. RunEffect(r, b, x, y, "none")
          BY <1>1, <2>1, <3>1, <3>2, <3>3, <3>4
             DEF RunEffect, Phases, Active, Consumed, Final
      <3> QED
          BY <3>5
    <2>2. CASE ~asks
      <3>1. RunEffect(r, autos[a], occs[i], runs[r], "none")
          BY <1>1, <1>6, <1>7, <2>2
             DEF RequestApproval, RunEffect, KeepsKey, Phases, rows
      <3> QED
          BY <3>1
    <2> QED
        BY <2>1, <2>2
  <1>8. CASE Approve(r)
    <2> DEFINE b == [autos[a] EXCEPT !.status = "queued"]
               x == [occs[i] EXCEPT !.status = "claimed", !.leased = TRUE,
                                    !.approval = "approved"]
               y == [runs[r] EXCEPT !.status = "queued"]
    <2>1. b \in AutoRows /\ b.rev = autos[a].rev /\ b.enabled = autos[a].enabled
        BY <1>1 DEF AutoRows, Active, Final
    <2>2. x \in OccRows /\ KeepsKey(x, occs[i])
          /\ x.status = "claimed" /\ x.approval = "approved"
        BY <1>1 DEF OccRows, Pending, Consumed, Final, KeepsKey
    <2>3. y \in RunRows /\ y.occ = i /\ y.attempt = runs[r].attempt
          /\ y.status = "queued" /\ y.started = runs[r].started
        BY <1>1 DEF RunRows, Active, Final
    <2>4. /\ autos' = [autos EXCEPT ![a] = b] /\ occs' = [occs EXCEPT ![i] = x]
          /\ runs' = [runs EXCEPT ![r] = y] /\ launch' = [launch EXCEPT ![r] = "ready"]
          /\ UNCHANGED <<dues, clock, requests>>
        BY <1>1, <1>6, <1>8 DEF Approve
    <2>5. RunEffect(r, b, x, y, "ready")
        BY <1>1, <1>8, <2>1, <2>2, <2>3, <2>4
           DEF RunEffect, Approve, PendingApproval, Phases, Active, Consumed, Final
    <2> QED
        BY <2>5
  <1>9. CASE Deny(r)
    <2> DEFINE b == [autos[a] EXCEPT !.status = IF autos[a].enabled THEN "ready" ELSE "disabled",
                                     !.next = IF occs[i].origin = "manual_run_now"
                                                THEN occs[i].resume
                                                ELSE NextRun(autos[a].enabled)]
               x == [Ended(occs[i], "skipped") EXCEPT !.backoff = FALSE, !.approval = "denied"]
               y == [runs[r] EXCEPT !.status = "cancelled"]
    <2>1. b \in AutoRows /\ b.rev = autos[a].rev /\ b.enabled = autos[a].enabled
        BY <1>1, <1>3, <1>4 DEF AutoRows, Active, Final
    <2>2. x \in OccRows /\ KeepsKey(x, occs[i])
          /\ x.status = "skipped"
        BY <1>1 DEF OccRows, Pending, Consumed, Final, KeepsKey, Ended
    <2>3. y \in RunRows /\ y.occ = i /\ y.attempt = runs[r].attempt
          /\ y.status = "cancelled" /\ y.started = runs[r].started
        BY <1>1 DEF RunRows, Active, Final
    <2>4. /\ autos' = [autos EXCEPT ![a] = b] /\ occs' = [occs EXCEPT ![i] = x]
          /\ runs' = [runs EXCEPT ![r] = y] /\ launch' = [launch EXCEPT ![r] = launch[r]]
          /\ UNCHANGED <<dues, clock, requests>>
        BY <1>1, <1>6, <1>9 DEF Deny
    <2>5. RunEffect(r, b, x, y, launch[r])
        BY <1>1, <1>9, <2>1, <2>2, <2>3, <2>4
           DEF RunEffect, Deny, Phases, Active, Consumed, Final
    <2> QED
        BY <2>5
  <1>10. CASE Start(r)
    <2> DEFINE b == [autos[a] EXCEPT !.status = "running",
                                     !.next = Coalesce(IF occs[i].origin = "manual_run_now"
                                                         THEN occs[i].resume
                                                         ELSE NextRun(autos[a].enabled), @)]
               x == [Ended(occs[i], "running") EXCEPT !.backoff = FALSE]
               y == [runs[r] EXCEPT !.status = "running", !.started = TRUE]
    <2>1. b \in AutoRows /\ b.rev = autos[a].rev /\ b.enabled = autos[a].enabled
        BY <1>1, <1>3, <1>4, <1>5 DEF AutoRows, Active, Final
    <2>2. x \in OccRows /\ KeepsKey(x, occs[i])
          /\ x.status = "running"
        BY <1>1 DEF OccRows, Pending, Consumed, Final, KeepsKey, Ended
    <2>3. y \in RunRows /\ y.occ = i /\ y.attempt = runs[r].attempt
          /\ y.status = "running"
        BY <1>1 DEF RunRows, Active, Final
    <2>4. /\ autos' = [autos EXCEPT ![a] = b] /\ occs' = [occs EXCEPT ![i] = x]
          /\ runs' = [runs EXCEPT ![r] = y] /\ launch' = [launch EXCEPT ![r] = "none"]
          /\ UNCHANGED <<dues, clock, requests>>
        BY <1>1, <1>6, <1>10 DEF Start
    <2>5. RunEffect(r, b, x, y, "none")
        BY <1>1, <1>10, <2>1, <2>2, <2>3, <2>4
           DEF RunEffect, Start, Authoritative, Phases, Active, Consumed, Final
    <2> QED
        BY <2>5
  <1>11. CASE StartRefused(r)
    <2> DEFINE b == autos[a]
               x == occs[i]
               y == [runs[r] EXCEPT !.status = IF @ = "queued" THEN "cancelled" ELSE @]
    <2>1. b \in AutoRows /\ b.rev = autos[a].rev /\ b.enabled = autos[a].enabled
        BY <1>1 DEF AutoRows, Active, Final
    <2>2. x \in OccRows /\ KeepsKey(x, occs[i])
          /\ x.status = occs[i].status /\ x.approval = occs[i].approval
        BY <1>1 DEF OccRows, Pending, Consumed, Final, KeepsKey
    <2>3. y \in RunRows /\ y.occ = i /\ y.attempt = runs[r].attempt
          /\ y.status # "queued" /\ y.started = runs[r].started
          /\ (y.status \in Active => runs[r].status \in Active)
        BY <1>1 DEF RunRows, Active, Final
    <2>4. /\ autos' = [autos EXCEPT ![a] = b] /\ occs' = [occs EXCEPT ![i] = x]
          /\ runs' = [runs EXCEPT ![r] = y] /\ launch' = [launch EXCEPT ![r] = "failing"]
          /\ UNCHANGED <<dues, clock, requests>>
        BY <1>1, <1>6, <1>11 DEF StartRefused
    <2>5. overtaken' = overtaken
        BY <1>11 DEF StartRefused
    <2> HIDE DEF b, x, y
    <2>6. RunEffect(r, b, x, y, "failing")
        BY <1>1, <2>1, <2>2, <2>3, <2>4, <2>5 DEF RunEffect, Phases
    <2> QED
        BY <2>6
  <1>12. CASE LaunchFailed(r)
    <2> DEFINE exhausted == runs[r].attempt >= MaxAttempts
               b == [autos[a] EXCEPT !.status = "ready",
                                     !.next = IF ~exhausted THEN @
                                              ELSE Coalesce(IF occs[i].origin = "manual_run_now"
                                                              THEN occs[i].resume
                                                              ELSE NextRun(autos[a].enabled), @)]
               x == [Ended(occs[i], IF exhausted THEN "failed" ELSE "retry_wait")
                      EXCEPT !.backoff = ~exhausted]
               y == [runs[r] EXCEPT !.status = "cancelled"]
    <2>1. b \in AutoRows /\ b.rev = autos[a].rev /\ b.enabled = autos[a].enabled
        BY <1>1, <1>3, <1>4, <1>5 DEF AutoRows, Active, Final
    <2>2. x \in OccRows /\ KeepsKey(x, occs[i])
          /\ x.status \in {"failed", "retry_wait"}
        BY <1>1 DEF OccRows, Pending, Consumed, Final, KeepsKey, Ended
    <2>3. y \in RunRows /\ y.occ = i /\ y.attempt = runs[r].attempt
          /\ y.status = "cancelled" /\ y.started = runs[r].started
        BY <1>1 DEF RunRows, Active, Final
    <2>4. /\ autos' = [autos EXCEPT ![a] = b] /\ occs' = [occs EXCEPT ![i] = x]
          /\ runs' = [runs EXCEPT ![r] = y] /\ launch' = [launch EXCEPT ![r] = "none"]
          /\ UNCHANGED <<dues, clock, requests>>
        BY <1>1, <1>6, <1>12 DEF LaunchFailed
    <2>5. RunEffect(r, b, x, y, "none")
        BY <1>1, <1>12, <2>1, <2>2, <2>3, <2>4
           DEF RunEffect, LaunchFailed, Phases, Active, Consumed, Final
    <2> QED
        BY <2>5
  <1>13. ASSUME NEW status \in Outcomes, RunEnds(r, status)
         PROVE  \E b, x, y, l : RunEffect(r, b, x, y, l)
    <2>0. status \in Final
        BY OutcomeAssumption DEF Final
    <2> DEFINE b == [autos[a] EXCEPT !.status = status]
               x == Ended(occs[i], status)
               y == [runs[r] EXCEPT !.status = status]
    <2>1. b \in AutoRows /\ b.rev = autos[a].rev /\ b.enabled = autos[a].enabled
        BY <1>1, <2>0 DEF AutoRows, Active, Final
    <2>2. x \in OccRows /\ KeepsKey(x, occs[i])
          /\ x.status = status
        BY <1>1, <2>0 DEF OccRows, Pending, Consumed, Final, KeepsKey, Ended
    <2>3. y \in RunRows /\ y.occ = i /\ y.attempt = runs[r].attempt
          /\ y.status = status /\ y.started = runs[r].started
        BY <1>1, <2>0 DEF RunRows, Active, Final
    <2>4. /\ autos' = [autos EXCEPT ![a] = b] /\ occs' = [occs EXCEPT ![i] = x]
          /\ runs' = [runs EXCEPT ![r] = y] /\ launch' = [launch EXCEPT ![r] = launch[r]]
          /\ UNCHANGED <<dues, clock, requests>>
        BY <1>1, <1>6, <1>13 DEF RunEnds
    <2>5. RunEffect(r, b, x, y, launch[r])
        BY <1>1, <1>13, <2>1, <2>2, <2>3, <2>4, <2>0
           DEF RunEffect, RunEnds, Phases, Active, Consumed, Final
    <2> QED
        BY <2>5
  <1> QED
      BY <1>7, <1>8, <1>9, <1>10, <1>11, <1>12, <1>13 DEF RunAction

(* A claim rewrites the prepared occurrence to x and the definition to b.  *)
(* It either leaves the runs alone or adds the run of a new attempt.       *)
ClaimWrites(d, b, x) ==
    LET o == PreparedOccs(d)[Prepared(d)]
    IN  /\ b \in AutoRows /\ x \in OccRows
        /\ autos' = [autos EXCEPT ![d.auto] = b]
        /\ occs' = [PreparedOccs(d) EXCEPT ![Prepared(d)] = x]
        /\ b.rev = autos[d.auto].rev /\ b.enabled = autos[d.auto].enabled
        /\ x.auto = o.auto /\ x.rev = o.rev /\ x.slot = o.slot /\ x.origin = o.origin
        /\ x.resume = o.resume /\ x.approval = o.approval

ClaimRests(d, x) ==
    LET o == PreparedOccs(d)[Prepared(d)]
    IN  /\ UNCHANGED <<runs, launch>>
        /\ x.attempt = o.attempt
        /\ x.status \notin Consumed => x.status = o.status
        /\ o.status \in Consumed => x.status \in Consumed

ClaimQueues(d, x) ==
    LET o == PreparedOccs(d)[Prepared(d)]
    IN  /\ autos[d.auto].enabled
        /\ o.status \notin Consumed
        /\ ~HasIsolatedSourceLock(d.auto)
        /\ ~(HasActiveRun(d.auto, Prepared(d)) /\ Policy(d.auto).overlap = "skip")
        /\ x.status = "claimed" /\ x.attempt = o.attempt + 1
        /\ runs' = Append(SupersededRuns(Prepared(d), x.attempt),
                          [occ |-> Prepared(d), attempt |-> x.attempt, status |-> "queued",
                           started |-> FALSE])
        /\ launch' = Append(launch, IF Policy(d.auto).approval /\ o.approval # "approved"
                                      THEN "approve" ELSE "ready")

LEMMA ClaimEffects ==
    ASSUME Typed, Linked, NEW d \in dues, Claim(d)
    PROVE  /\ dues' \subseteq dues /\ UNCHANGED <<clock, requests, overtaken>>
           /\ \/ UNCHANGED <<autos, occs, runs, launch>>
              \/ \E b, x : ClaimWrites(d, b, x) /\ (ClaimRests(d, x) \/ ClaimQueues(d, x))
  <1> DEFINE i == Prepared(d)
             o == PreparedOccs(d)[i]
             a == d.auto
  <1>1. dues' \subseteq dues /\ UNCHANGED <<clock, requests, overtaken>>
      BY DEF Claim
  <1>2. CASE Refused(d)
      BY <1>1, <1>2 DEF Claim, rows
  <1>3. CASE ~Refused(d)
    <2>1. PICK late \in BOOLEAN : Decided(d, o, i, Decision(d, o, late))
        BY <1>3 DEF Claim
    <2>2. o \in OccRows /\ i \in DOMAIN PreparedOccs(d) /\ PreparedOccs(d) \in Seq(OccRows)
      <3>1. i \in DOMAIN PreparedOccs(d) /\ PreparedOccs(d) \in Seq(OccRows)
          BY PreparedRow
      <3> QED
          BY <3>1
    <2>3. a \in Automations /\ autos[a] \in AutoRows
        BY DEF Typed
    <2>4. PreparedOccs(d) = [PreparedOccs(d) EXCEPT ![i] = o]
        BY <2>2
    <2>5. autos = [autos EXCEPT ![a] = autos[a]]
        BY <2>3 DEF Typed
    <2>6. CursorAfter(d) \in 0..(MaxClock + 1)
      <3>1. clock + 1 \in 0..(MaxClock + 1) /\ 0 \in 0..(MaxClock + 1)
          BY BoundAssumption DEF Typed
      <3>2. autos[a].next \in 0..(MaxClock + 1)
          BY <2>3 DEF AutoRows
      <3>3. CASE PendingOccurrence(d) # 0
        <4>1. occs \in Seq(OccRows) /\ PendingOccurrence(d) \in DOMAIN occs
            BY <3>3, PendingFound DEF Typed
        <4>2. occs[PendingOccurrence(d)] \in OccRows
            BY <4>1
        <4>3. occs[PendingOccurrence(d)].resume \in 0..(MaxClock + 1)
            BY <4>2 DEF OccRows
        <4> QED
            BY <3>1, <3>2, <4>3 DEF CursorAfter, NextRun, Coalesce
      <3>4. CASE PendingOccurrence(d) = 0
          BY <3>1, <3>2, <3>4 DEF CursorAfter, NextRun
      <3> QED
          BY <3>3, <3>4
    <2>7. ASSUME NEW decision, NEW x \in OccRows, UseUp(d, i, decision, x),
                 KeepsKey(x, o), x.approval = o.approval,
                 x.status \in Consumed
          PROVE  \E b : ClaimWrites(d, b, x) /\ ClaimRests(d, x)
      <3> DEFINE b == [autos[a] EXCEPT
                         !.next = CursorAfter(d),
                         !.status = IF decision = "overlap"
                                       \/ (decision = "consumed" /\ @ # "queued")
                                      THEN @ ELSE "ready"]
      <3>1. b \in AutoRows /\ b.rev = autos[a].rev /\ b.enabled = autos[a].enabled
          BY <2>3, <2>6 DEF AutoRows
      <3>2. autos' = [autos EXCEPT ![a] = b]
          BY <2>7, <2>3 DEF UseUp, Typed
      <3>3. occs' = [PreparedOccs(d) EXCEPT ![i] = x] /\ UNCHANGED <<runs, launch>>
          BY <2>7 DEF UseUp
      <3> HIDE DEF b
      <3>4. ClaimWrites(d, b, x)
          BY <2>7, <3>1, <3>2, <3>3 DEF ClaimWrites, KeepsKey
      <3>5. ClaimRests(d, x)
          BY <2>7, <3>3 DEF ClaimRests, KeepsKey
      <3> QED
          BY <3>4, <3>5
    <2>8. CASE Decision(d, o, late) = "wait" /\ occs' = PreparedOccs(d)
               /\ UNCHANGED <<autos, runs, launch>>
      <3>1. ClaimWrites(d, autos[a], o)
          BY <2>2, <2>3, <2>4, <2>5, <2>8 DEF ClaimWrites
      <3>2. ClaimRests(d, o)
          BY <2>8 DEF ClaimRests
      <3> QED
          BY <1>1, <3>1, <3>2
    <2>9. CASE Decision(d, o, late) = "consumed" /\ UseUp(d, i, "consumed", o)
      <3>1. o.status \in Consumed
          BY <2>9 DEF Decision
      <3> QED
          BY <1>1, <2>2, <2>7, <2>9, <3>1 DEF KeepsKey
    <2>10. ASSUME NEW decision \in {"overlap", "misfire"},
                  UseUp(d, i, decision, [Ended(o, "skipped") EXCEPT !.backoff = FALSE])
           PROVE  \E b, x : ClaimWrites(d, b, x) /\ ClaimRests(d, x)
      <3> DEFINE x == [Ended(o, "skipped") EXCEPT !.backoff = FALSE]
      <3>1. x \in OccRows /\ KeepsKey(x, o) /\ x.approval = o.approval
            /\ x.status \in Consumed
          BY <2>2 DEF OccRows, Ended, KeepsKey, Consumed
      <3> HIDE DEF x
      <3> QED
          BY <2>7, <2>10, <3>1 DEF x
    <2>11. CASE UseUp(d, i, "exhausted", Ended(o, "failed"))
      <3> DEFINE x == Ended(o, "failed")
      <3>1. x \in OccRows /\ KeepsKey(x, o) /\ x.approval = o.approval
            /\ x.status \in Consumed
          BY <2>2 DEF OccRows, Ended, KeepsKey, Consumed, Final
      <3> QED
          BY <1>1, <2>7, <2>11, <3>1
    <2>12. CASE Decision(d, o, late) = "queue" /\ Queue(d, o, i)
      <3> DEFINE x == [o EXCEPT !.status = "claimed", !.attempt = @ + 1,
                                !.leased = TRUE, !.backoff = FALSE]
                 b == [autos[a] EXCEPT !.status = "queued"]
      <3>1. /\ o.status \notin Consumed /\ ~HasIsolatedSourceLock(a)
            /\ ~(HasActiveRun(a, i) /\ Policy(a).overlap = "skip")
            /\ ~(o.attempt + 1 > MaxAttempts)
          BY <2>12 DEF Decision
      <3>2. o.attempt + 1 \in 0..MaxAttempts
        <4>1. o.attempt \in 0..MaxAttempts
            BY <2>2 DEF OccRows
        <4> QED
            BY <3>1, <4>1, BoundAssumption
      <3>3. x \in OccRows /\ x.attempt = o.attempt + 1 /\ x.status = "claimed"
            /\ x.auto = o.auto /\ x.rev = o.rev /\ x.slot = o.slot
            /\ x.origin = o.origin /\ x.resume = o.resume /\ x.approval = o.approval
          BY <2>2, <3>2 DEF OccRows, Pending
      <3>4. b \in AutoRows /\ b.rev = autos[a].rev /\ b.enabled = autos[a].enabled
          BY <2>3 DEF AutoRows, Active
      <3>5. /\ occs' = [PreparedOccs(d) EXCEPT ![i] = x]
            /\ autos' = [autos EXCEPT ![a] = b]
          BY <2>12 DEF Queue
      <3>6. /\ runs' = Append(SupersededRuns(i, x.attempt),
                              [occ |-> i, attempt |-> x.attempt, status |-> "queued",
                               started |-> FALSE])
            /\ launch' = Append(launch, IF Policy(a).approval /\ o.approval # "approved"
                                          THEN "approve" ELSE "ready")
          BY <2>12, <3>3 DEF Queue
      <3>7. autos[a].enabled
          BY <1>3 DEF Refused
      <3> HIDE DEF x, b
      <3>8. ClaimWrites(d, b, x)
          BY <3>3, <3>4, <3>5 DEF ClaimWrites
      <3>9. ClaimQueues(d, x)
          BY <3>1, <3>3, <3>6, <3>7 DEF ClaimQueues
      <3> QED
          BY <1>1, <3>8, <3>9
    <2> QED
        BY <1>1, <2>1, <2>8, <2>9, <2>10, <2>11, <2>12 DEF Decided
  <1> QED
      BY <1>2, <1>3

(* The tables after a step of one run, row by row.                         *)
LEMMA RunStepRows ==
    ASSUME Typed, Linked, NEW r \in DOMAIN runs,
           NEW b, NEW x, NEW y, NEW l, RunEffect(r, b, x, y, l)
    PROVE  /\ autos' \in [Automations -> AutoRows]
           /\ AutoOf(r) \in Automations
           /\ \A a \in Automations : autos'[a] = IF a = AutoOf(r) THEN b ELSE autos[a]
           /\ occs' \in Seq(OccRows) /\ DOMAIN occs' = DOMAIN occs
           /\ runs[r].occ \in DOMAIN occs
           /\ \A o \in DOMAIN occs :
                occs'[o] = IF o = runs[r].occ THEN x ELSE occs[o]
           /\ runs' \in Seq(RunRows) /\ DOMAIN runs' = DOMAIN runs /\ Len(runs') = Len(runs)
           /\ \A s \in DOMAIN runs : runs'[s] = IF s = r THEN y ELSE runs[s]
           /\ launch' \in Seq(Phases) /\ Len(launch') = Len(launch)
           /\ DOMAIN launch = DOMAIN runs
           /\ \A s \in DOMAIN runs : launch'[s] = IF s = r THEN l ELSE launch[s]
  <1>1. /\ autos \in [Automations -> AutoRows] /\ occs \in Seq(OccRows)
        /\ runs \in Seq(RunRows) /\ launch \in Seq(Phases) /\ Len(launch) = Len(runs)
      BY DEF Typed
  <1>2. runs[r].occ \in DOMAIN occs
      BY DEF Linked
  <1>3. AutoOf(r) \in Automations
    <2>1. occs[runs[r].occ] \in OccRows
        BY <1>1, <1>2
    <2> QED
        BY <2>1 DEF AutoOf, OccRows
  <1>4. /\ b \in AutoRows /\ x \in OccRows /\ y \in RunRows /\ l \in Phases
        /\ autos' = [autos EXCEPT ![AutoOf(r)] = b]
        /\ occs' = [occs EXCEPT ![runs[r].occ] = x]
        /\ runs' = [runs EXCEPT ![r] = y]
        /\ launch' = [launch EXCEPT ![r] = l]
      BY DEF RunEffect
  <1>5. /\ autos' \in [Automations -> AutoRows]
        /\ \A a \in Automations : autos'[a] = IF a = AutoOf(r) THEN b ELSE autos[a]
      BY <1>1, <1>3, <1>4
  <1>6. DOMAIN launch = DOMAIN runs
      BY <1>1
  <1>7. /\ occs' \in Seq(OccRows) /\ DOMAIN occs' = DOMAIN occs
        /\ \A o \in DOMAIN occs :
             occs'[o] = IF o = runs[r].occ THEN x ELSE occs[o]
      BY <1>1, <1>2, <1>4, RowReplaced
  <1>8. /\ runs' \in Seq(RunRows) /\ DOMAIN runs' = DOMAIN runs /\ Len(runs') = Len(runs)
        /\ \A s \in DOMAIN runs : runs'[s] = IF s = r THEN y ELSE runs[s]
      BY <1>1, <1>4, RowReplaced
  <1>9. /\ launch' \in Seq(Phases) /\ Len(launch') = Len(launch)
        /\ \A s \in DOMAIN runs : launch'[s] = IF s = r THEN l ELSE launch[s]
      BY <1>1, <1>4, <1>6, RowReplaced
  <1> QED
      BY <1>2, <1>3, <1>5, <1>6, <1>7, <1>8, <1>9

(* The definitions and the other occurrences after a claim.                *)
LEMMA ClaimRows ==
    ASSUME Typed, Linked, NEW d \in dues, NEW b, NEW x, ClaimWrites(d, b, x)
    PROVE  /\ autos' \in [Automations -> AutoRows]
           /\ \A a \in Automations : autos'[a] = IF a = d.auto THEN b ELSE autos[a]
           /\ occs' \in Seq(OccRows)
           /\ DOMAIN occs' = DOMAIN occs \cup {Prepared(d)}
           /\ \A o \in DOMAIN occs : o # Prepared(d) => occs'[o] = occs[o]
  <1>1. d.auto \in Automations /\ autos \in [Automations -> AutoRows]
      BY DEF Typed
  <1>2. /\ b \in AutoRows /\ x \in OccRows
        /\ autos' = [autos EXCEPT ![d.auto] = b]
        /\ occs' = [PreparedOccs(d) EXCEPT ![Prepared(d)] = x]
      BY DEF ClaimWrites
  <1>3. /\ PreparedOccs(d) \in Seq(OccRows)
        /\ DOMAIN PreparedOccs(d) = DOMAIN occs \cup {Prepared(d)}
        /\ \A o \in DOMAIN occs : PreparedOccs(d)[o] = occs[o]
      BY PreparedRow
  <1>4. /\ occs' \in Seq(OccRows) /\ DOMAIN occs' = DOMAIN PreparedOccs(d)
        /\ \A o \in DOMAIN PreparedOccs(d) :
             occs'[o] = IF o = Prepared(d) THEN x ELSE PreparedOccs(d)[o]
      BY <1>2, <1>3, RowReplaced
  <1>5. /\ autos' \in [Automations -> AutoRows]
        /\ \A a \in Automations : autos'[a] = IF a = d.auto THEN b ELSE autos[a]
      BY <1>1, <1>2
  <1> QED
      BY <1>3, <1>4, <1>5

(* The occurrence of the claim, before and after.                          *)
LEMMA ClaimedRow ==
    ASSUME Typed, Linked, NEW d \in dues, NEW b, NEW x, ClaimWrites(d, b, x)
    PROVE  /\ d.auto \in Automations /\ x \in OccRows
           /\ occs'[Prepared(d)] = x
           /\ x.auto = d.auto /\ x.rev = autos[d.auto].rev
           /\ Prepared(d) \in DOMAIN occs =>
                PreparedOccs(d)[Prepared(d)] = occs[Prepared(d)]
           /\ Prepared(d) \notin DOMAIN occs =>
                PreparedOccs(d)[Prepared(d)] = Planned(d)
  <1>1. d.auto \in Automations
      BY DEF Typed
  <1>2. /\ x \in OccRows
        /\ occs' = [PreparedOccs(d) EXCEPT ![Prepared(d)] = x]
        /\ x.auto = PreparedOccs(d)[Prepared(d)].auto
        /\ x.rev = PreparedOccs(d)[Prepared(d)].rev
      BY DEF ClaimWrites
  <1>3. /\ PreparedOccs(d) \in Seq(OccRows)
        /\ DOMAIN PreparedOccs(d) = DOMAIN occs \cup {Prepared(d)}
        /\ \A o \in DOMAIN occs : PreparedOccs(d)[o] = occs[o]
        /\ PreparedOccs(d)[Prepared(d)].auto = d.auto
        /\ PreparedOccs(d)[Prepared(d)].rev = autos[d.auto].rev
        /\ Prepared(d) \notin DOMAIN occs =>
             PreparedOccs(d)[Prepared(d)] = Planned(d)
      BY PreparedRow
  <1>4. occs'[Prepared(d)] = x
      BY <1>2, <1>3
  <1> QED
      BY <1>1, <1>2, <1>3, <1>4

(* The runs after a claim that queues one.                                 *)
LEMMA QueueRows ==
    ASSUME Typed, Linked, NEW d \in dues, NEW x \in OccRows, ClaimQueues(d, x)
    PROVE  /\ runs' \in Seq(RunRows) /\ Len(runs') = Len(runs) + 1
           /\ DOMAIN runs' = DOMAIN runs \cup {Len(runs) + 1}
           /\ Len(runs) + 1 \notin DOMAIN runs
           /\ \A r \in DOMAIN runs :
                runs'[r] = IF /\ runs[r].occ = Prepared(d) /\ runs[r].status = "queued"
                              /\ runs[r].attempt < x.attempt
                             THEN [runs[r] EXCEPT !.status = "cancelled"] ELSE runs[r]
           /\ \A r \in DOMAIN runs : SameAttempt(runs'[r], runs[r])
           /\ runs'[Len(runs) + 1] = [occ |-> Prepared(d), attempt |-> x.attempt,
                                      status |-> "queued", started |-> FALSE]
           /\ launch' \in Seq(Phases) /\ Len(launch') = Len(runs) + 1
           /\ \A r \in DOMAIN runs : launch'[r] = launch[r]
           /\ launch'[Len(runs) + 1] =
                IF /\ Policy(d.auto).approval
                   /\ PreparedOccs(d)[Prepared(d)].approval # "approved"
                  THEN "approve" ELSE "ready"
  <1> DEFINE old == SupersededRuns(Prepared(d), x.attempt)
             new == [occ |-> Prepared(d), attempt |-> x.attempt, status |-> "queued",
                     started |-> FALSE]
             l == IF /\ Policy(d.auto).approval
                     /\ PreparedOccs(d)[Prepared(d)].approval # "approved"
                    THEN "approve" ELSE "ready"
  <1>1. runs \in Seq(RunRows) /\ launch \in Seq(Phases) /\ Len(launch) = Len(runs)
      BY DEF Typed
  <1>2. \A r \in DOMAIN runs : runs[r] \in RunRows
      BY <1>1
  <1>3. old \in [DOMAIN runs -> RunRows]
      BY <1>2 DEF SupersededRuns, RunRows, Final
  <1>4. old \in Seq(RunRows) /\ Len(old) = Len(runs) /\ DOMAIN old = DOMAIN runs
      BY <1>1, <1>3, RowsRewritten
  <1>5. new \in RunRows
    <2>1. Prepared(d) \in Nat
      <3>1. PreparedOccs(d) \in Seq(OccRows) /\ Prepared(d) \in DOMAIN PreparedOccs(d)
          BY PreparedRow
      <3> QED
          BY <3>1
    <2>2. x.attempt \in Nat
        BY BoundAssumption DEF OccRows
    <2> QED
        BY <2>1, <2>2 DEF RunRows, Active
  <1>6. runs' = Append(old, new) /\ launch' = Append(launch, l)
      BY DEF ClaimQueues
  <1>7. \A r \in DOMAIN runs :
          old[r] = IF /\ runs[r].occ = Prepared(d) /\ runs[r].status = "queued"
                      /\ runs[r].attempt < x.attempt
                     THEN [runs[r] EXCEPT !.status = "cancelled"] ELSE runs[r]
      BY DEF SupersededRuns
  <1>8. l \in Phases
      BY DEF Phases
  <1> HIDE DEF old, new, l
  <1>9. /\ runs' \in Seq(RunRows) /\ Len(runs') = Len(runs) + 1
        /\ DOMAIN runs' = DOMAIN runs \cup {Len(runs) + 1}
        /\ Len(runs) + 1 \notin DOMAIN runs
        /\ \A r \in DOMAIN runs : runs'[r] = old[r]
        /\ runs'[Len(runs) + 1] = new
      BY <1>4, <1>5, <1>6, RowAdded
  <1>10. /\ launch' \in Seq(Phases) /\ Len(launch') = Len(runs) + 1
         /\ \A r \in DOMAIN runs : launch'[r] = launch[r]
         /\ launch'[Len(runs) + 1] = l
      BY <1>1, <1>6, <1>8, RowAdded
  <1>11. \A r \in DOMAIN runs : SameAttempt(runs'[r], runs[r])
    <2>1. \A r \in DOMAIN runs :
            SameAttempt([runs[r] EXCEPT !.status = "cancelled"], runs[r])
        BY <1>2 DEF SameAttempt, RunRows
    <2>2. \A r \in DOMAIN runs : SameAttempt(runs[r], runs[r])
        BY DEF SameAttempt
    <2> QED
        BY <1>7, <1>9, <2>1, <2>2
  <1> QED
      BY <1>7, <1>9, <1>10, <1>11 DEF new, l

(* The tables after a definition is saved.                                 *)
LEMMA SaveRows ==
    ASSUME Typed, Linked, NEW a \in Automations, NEW enabled \in BOOLEAN,
           SaveAutomation(a, enabled)
    PROVE  /\ autos' \in [Automations -> AutoRows]
           /\ \A c \in Automations : c # a => autos'[c] = autos[c]
           /\ autos'[a].rev = autos[a].rev + 1 /\ autos'[a].rev <= Len(Policies[a])
           /\ occs' \in Seq(OccRows) /\ DOMAIN occs' = DOMAIN occs
           /\ \A o \in DOMAIN occs :
                occs'[o] = IF Supersedes(a, o) /\ occs[o].status \in Pending
                             THEN [occs[o] EXCEPT !.status = "cancelled", !.leased = FALSE,
                                                  !.backoff = FALSE]
                             ELSE occs[o]
           /\ \A o \in DOMAIN occs : KeepsKey(occs'[o], occs[o])
           /\ runs' \in Seq(RunRows) /\ DOMAIN runs' = DOMAIN runs /\ Len(runs') = Len(runs)
           /\ \A r \in DOMAIN runs : SameAttempt(runs'[r], runs[r])
           /\ \A r \in DOMAIN runs :
                runs'[r] = IF Supersedes(a, runs[r].occ)
                              /\ runs[r].status \in {"queued", "waiting_approval"}
                             THEN [runs[r] EXCEPT !.status = "cancelled"] ELSE runs[r]
  <1>1. /\ autos \in [Automations -> AutoRows] /\ occs \in Seq(OccRows)
        /\ runs \in Seq(RunRows)
      BY DEF Typed
  <1>2. autos[a] \in AutoRows /\ Len(Policies[a]) \in Nat /\ autos[a].rev \in Nat
      BY <1>1, PolicyAssumption DEF AutoRows
  <1>3. NextRun(enabled) \in 0..(MaxClock + 1)
      BY BoundAssumption DEF NextRun, Typed
  <1> DEFINE b == [enabled |-> enabled, next |-> NextRun(enabled),
                   status |-> IF enabled THEN "ready" ELSE "disabled",
                   rev |-> autos[a].rev + 1]
  <1>4. b \in AutoRows
      BY <1>2, <1>3 DEF AutoRows
  <1>5. autos' = [autos EXCEPT ![a] = b] /\ autos[a].rev < Len(Policies[a])
      BY DEF SaveAutomation
  <1>6. b.rev = autos[a].rev + 1 /\ b.rev <= Len(Policies[a])
      BY <1>2, <1>5
  <1>7. /\ autos' \in [Automations -> AutoRows]
        /\ \A c \in Automations : c # a => autos'[c] = autos[c]
        /\ autos'[a] = b
    <2> HIDE DEF b
    <2> QED
      BY <1>1, <1>4, <1>5
  <1>8. \A o \in DOMAIN occs : occs[o] \in OccRows
      BY <1>1
  <1>9. \A r \in DOMAIN runs : runs[r] \in RunRows
      BY <1>1
  <1>10. SavedOccs(a) \in [DOMAIN occs -> OccRows]
      BY <1>8 DEF SavedOccs, OccRows, Consumed, Final
  <1>11. SavedRuns(a) \in [DOMAIN runs -> RunRows]
      BY <1>9 DEF SavedRuns, RunRows, Final
  <1>12. occs' = SavedOccs(a) /\ runs' = SavedRuns(a)
      BY DEF SaveAutomation
  <1>13. occs' \in Seq(OccRows) /\ DOMAIN occs' = DOMAIN occs
      BY <1>1, <1>10, <1>12, RowsRewritten
  <1>14. runs' \in Seq(RunRows) /\ DOMAIN runs' = DOMAIN runs /\ Len(runs') = Len(runs)
      BY <1>1, <1>11, <1>12, RowsRewritten
  <1>15. \A o \in DOMAIN occs :
           occs'[o] = IF Supersedes(a, o) /\ occs[o].status \in Pending
                        THEN [occs[o] EXCEPT !.status = "cancelled", !.leased = FALSE,
                                             !.backoff = FALSE]
                        ELSE occs[o]
      BY <1>12 DEF SavedOccs
  <1>16. \A r \in DOMAIN runs :
           runs'[r] = IF Supersedes(a, runs[r].occ)
                         /\ runs[r].status \in {"queued", "waiting_approval"}
                        THEN [runs[r] EXCEPT !.status = "cancelled"] ELSE runs[r]
      BY <1>12 DEF SavedRuns
  <1>17. \A o \in DOMAIN occs : KeepsKey(occs'[o], occs[o])
    <2>1. \A o \in DOMAIN occs :
            KeepsKey([occs[o] EXCEPT !.status = "cancelled", !.leased = FALSE,
                                     !.backoff = FALSE], occs[o])
        BY <1>8 DEF KeepsKey, OccRows
    <2>2. \A o \in DOMAIN occs : KeepsKey(occs[o], occs[o])
        BY DEF KeepsKey
    <2> QED
        BY <1>15, <2>1, <2>2
  <1>18. \A r \in DOMAIN runs : SameAttempt(runs'[r], runs[r])
    <2>1. \A r \in DOMAIN runs :
            SameAttempt([runs[r] EXCEPT !.status = "cancelled"], runs[r])
        BY <1>9 DEF SameAttempt, RunRows
    <2>2. \A r \in DOMAIN runs : SameAttempt(runs[r], runs[r])
        BY DEF SameAttempt
    <2> QED
        BY <1>16, <2>1, <2>2
  <1> QED
      BY <1>6, <1>7, <1>13, <1>14, <1>15, <1>16, <1>17, <1>18

(* The tables after a restart.                                             *)
LEMMA RestartRows ==
    ASSUME Typed, Linked, Restart
    PROVE  /\ autos' \in [Automations -> AutoRows]
           /\ \A a \in Automations : /\ autos'[a].rev = autos[a].rev
                                     /\ autos'[a].enabled = autos[a].enabled
                                     /\ autos'[a].next = autos[a].next
           /\ occs' \in Seq(OccRows) /\ DOMAIN occs' = DOMAIN occs
           /\ \A o \in DOMAIN occs :
                occs'[o] = IF \E r \in RunsOf(o) : runs[r].status = "running"
                             THEN [Ended(occs[o], "cancelled") EXCEPT !.backoff = FALSE]
                             ELSE occs[o]
           /\ \A o \in DOMAIN occs : KeepsKey(occs'[o], occs[o])
           /\ runs' \in Seq(RunRows) /\ DOMAIN runs' = DOMAIN runs /\ Len(runs') = Len(runs)
           /\ \A r \in DOMAIN runs : SameAttempt(runs'[r], runs[r])
           /\ \A r \in DOMAIN runs :
                runs'[r] = IF runs[r].status = "running"
                             THEN [runs[r] EXCEPT !.status = "cancelled"] ELSE runs[r]
           /\ launch' \in Seq(Phases) /\ Len(launch') = Len(launch)
           /\ \A r \in DOMAIN runs : launch'[r] = "none"
  <1>1. /\ autos \in [Automations -> AutoRows] /\ occs \in Seq(OccRows)
        /\ runs \in Seq(RunRows) /\ launch \in Seq(Phases) /\ DOMAIN launch = DOMAIN runs
      BY DEF Typed
  <1>2. \A o \in DOMAIN occs : occs[o] \in OccRows
      BY <1>1
  <1>3. \A r \in DOMAIN runs : runs[r] \in RunRows
      BY <1>1
  <1>4. occs' \in [DOMAIN occs -> OccRows]
    <2>1. \A o \in DOMAIN occs :
            [Ended(occs[o], "cancelled") EXCEPT !.backoff = FALSE] \in OccRows
        BY <1>2 DEF Ended, OccRows, Consumed, Final
    <2> QED
        BY <1>2, <2>1 DEF Restart
  <1>5. runs' \in [DOMAIN runs -> RunRows]
      BY <1>3 DEF Restart, RunRows, Final
  <1>6. launch' \in [DOMAIN launch -> Phases] /\ \A r \in DOMAIN runs : launch'[r] = "none"
      BY <1>1 DEF Restart, Phases
  <1>7. /\ autos' \in [Automations -> AutoRows]
        /\ \A a \in Automations : /\ autos'[a].rev = autos[a].rev
                                  /\ autos'[a].enabled = autos[a].enabled
                                  /\ autos'[a].next = autos[a].next
    <2>1. ASSUME NEW a \in Automations
          PROVE  autos'[a] \in {autos[a], [autos[a] EXCEPT !.status = "cancelled"]}
        BY DEF Restart
    <2>2. ASSUME NEW a \in Automations
          PROVE  /\ autos'[a] \in AutoRows
                 /\ autos'[a].rev = autos[a].rev /\ autos'[a].enabled = autos[a].enabled
                 /\ autos'[a].next = autos[a].next
      <3>1. autos[a] \in AutoRows
          BY <1>1
      <3> QED
          BY <2>1, <3>1 DEF AutoRows, Final
    <2>3. autos' = [a \in Automations |-> autos'[a]]
        BY DEF Restart
    <2> QED
        BY <2>2, <2>3
  <1>8. occs' \in Seq(OccRows) /\ DOMAIN occs' = DOMAIN occs
      BY <1>1, <1>4, RowsRewritten
  <1>9. runs' \in Seq(RunRows) /\ DOMAIN runs' = DOMAIN runs /\ Len(runs') = Len(runs)
      BY <1>1, <1>5, RowsRewritten
  <1>10. launch' \in Seq(Phases) /\ Len(launch') = Len(launch)
      BY <1>1, <1>6, RowsRewritten
  <1>11. /\ \A o \in DOMAIN occs :
              occs'[o] = IF \E r \in RunsOf(o) : runs[r].status = "running"
                           THEN [Ended(occs[o], "cancelled") EXCEPT !.backoff = FALSE]
                           ELSE occs[o]
         /\ \A r \in DOMAIN runs :
              runs'[r] = IF runs[r].status = "running"
                           THEN [runs[r] EXCEPT !.status = "cancelled"] ELSE runs[r]
      BY DEF Restart
  <1>12. \A o \in DOMAIN occs : KeepsKey(occs'[o], occs[o])
    <2>1. \A o \in DOMAIN occs :
            KeepsKey([Ended(occs[o], "cancelled") EXCEPT !.backoff = FALSE], occs[o])
        BY <1>2 DEF KeepsKey, OccRows, Ended
    <2>2. \A o \in DOMAIN occs : KeepsKey(occs[o], occs[o])
        BY DEF KeepsKey
    <2> QED
        BY <1>11, <2>1, <2>2
  <1>13. \A r \in DOMAIN runs : SameAttempt(runs'[r], runs[r])
    <2>1. \A r \in DOMAIN runs :
            SameAttempt([runs[r] EXCEPT !.status = "cancelled"], runs[r])
        BY <1>3 DEF SameAttempt, RunRows
    <2>2. \A r \in DOMAIN runs : SameAttempt(runs[r], runs[r])
        BY DEF SameAttempt
    <2> QED
        BY <1>11, <2>1, <2>2
  <1> QED
      BY <1>6, <1>7, <1>8, <1>9, <1>10, <1>11, <1>12, <1>13

(* The occurrences after a lease or a backoff ran out.                     *)
LEMMA TimerRows ==
    ASSUME Typed, NEW i \in DOMAIN occs, LeaseExpires(i) \/ BackoffEnds(i)
    PROVE  /\ occs' \in Seq(OccRows) /\ DOMAIN occs' = DOMAIN occs
           /\ \A o \in DOMAIN occs : /\ KeepsKey(occs'[o], occs[o])
                                     /\ occs'[o].status = occs[o].status
                                     /\ occs'[o].approval = occs[o].approval
           /\ UNCHANGED <<autos, runs, dues, launch, clock, requests, overtaken>>
  <1>1. occs \in Seq(OccRows)
      BY DEF Typed
  <1>2. occs[i] \in OccRows
      BY <1>1
  <1>3. PICK x \in OccRows : /\ occs' = [occs EXCEPT ![i] = x]
                             /\ KeepsKey(x, occs[i])
                             /\ x.status = occs[i].status /\ x.approval = occs[i].approval
    <2>1. CASE LeaseExpires(i)
      <3> DEFINE x == [occs[i] EXCEPT !.leased = FALSE]
      <3>1. x \in OccRows /\ KeepsKey(x, occs[i])
            /\ x.status = occs[i].status /\ x.approval = occs[i].approval
          BY <1>2 DEF OccRows, KeepsKey
      <3>2. occs' = [occs EXCEPT ![i] = x]
          BY <2>1 DEF LeaseExpires
      <3> QED
          BY <3>1, <3>2
    <2>2. CASE BackoffEnds(i)
      <3> DEFINE x == [occs[i] EXCEPT !.backoff = FALSE]
      <3>1. x \in OccRows /\ KeepsKey(x, occs[i])
            /\ x.status = occs[i].status /\ x.approval = occs[i].approval
          BY <1>2 DEF OccRows, KeepsKey
      <3>2. occs' = [occs EXCEPT ![i] = x]
          BY <2>2 DEF BackoffEnds
      <3> QED
          BY <3>1, <3>2
    <2> QED
        BY <2>1, <2>2
  <1>4. /\ occs' \in Seq(OccRows) /\ DOMAIN occs' = DOMAIN occs
        /\ \A o \in DOMAIN occs : occs'[o] = IF o = i THEN x ELSE occs[o]
      BY <1>1, <1>3, RowReplaced
  <1>5. UNCHANGED <<autos, runs, dues, launch, clock, requests, overtaken>>
      BY DEF LeaseExpires, BackoffEnds
  <1> QED
      BY <1>3, <1>4, <1>5 DEF KeepsKey

-----------------------------------------------------------------------------
(*                            Type correctness                             *)

(* The steps that leave the tables alone.                                  *)
Quiet == \/ \E a \in Automations : ListDue(a) \/ RunNow(a)
         \/ Fire
         \/ UNCHANGED vars

LEMMA QuietRows ==
    ASSUME Quiet
    PROVE  UNCHANGED <<autos, occs, runs, launch, overtaken>>
  BY DEF Quiet, ListDue, RunNow, Fire, vars, rows

(* Every step is one of these.                                             *)
LEMMA StepCases ==
    ASSUME [Next]_vars
    PROVE  \/ \E a \in Automations, enabled \in BOOLEAN : SaveAutomation(a, enabled)
           \/ \E d \in dues : Claim(d)
           \/ \E r \in DOMAIN runs : RunAction(r)
           \/ \E i \in DOMAIN occs : LeaseExpires(i) \/ BackoffEnds(i)
           \/ Restart
           \/ Quiet
  BY DEF Next, RunAction, Quiet

(* The tables keep their types.                                            *)
LEMMA TypedStep == ASSUME Typed, Linked, [Next]_vars PROVE Typed'
  <1>1. ASSUME NEW a \in Automations, NEW enabled \in BOOLEAN, SaveAutomation(a, enabled)
        PROVE  Typed'
    <2>1. UNCHANGED <<dues, launch, clock, requests, overtaken>>
        BY <1>1 DEF SaveAutomation
    <2>2. /\ autos' \in [Automations -> AutoRows]
          /\ occs' \in Seq(OccRows) /\ DOMAIN occs' = DOMAIN occs
          /\ runs' \in Seq(RunRows) /\ Len(runs') = Len(runs)
        BY <1>1, SaveRows
    <2> QED
        BY <2>1, <2>2 DEF Typed
  <1>2. ASSUME NEW d \in dues, Claim(d) PROVE Typed'
    <2>1. dues' \subseteq dues /\ UNCHANGED <<clock, requests, overtaken>>
        BY <1>2, ClaimEffects
    <2>2. CASE UNCHANGED <<autos, occs, runs, launch>>
        BY <2>1, <2>2 DEF Typed
    <2>3. ASSUME NEW b, NEW x, ClaimWrites(d, b, x), ClaimRests(d, x) \/ ClaimQueues(d, x)
          PROVE  Typed'
      <3>1. /\ autos' \in [Automations -> AutoRows]
            /\ occs' \in Seq(OccRows) /\ DOMAIN occs \subseteq DOMAIN occs'
          BY <2>3, ClaimRows
      <3>2. runs' \in Seq(RunRows) /\ launch' \in Seq(Phases) /\ Len(launch') = Len(runs')
        <4>1. CASE ClaimRests(d, x)
            BY <4>1 DEF ClaimRests, Typed
        <4>2. CASE ClaimQueues(d, x)
          <5>1. x \in OccRows
              BY <2>3 DEF ClaimWrites
          <5> QED
              BY <4>2, <5>1, QueueRows
        <4> QED
            BY <2>3, <4>1, <4>2
      <3> QED
          BY <2>1, <3>1, <3>2 DEF Typed
    <2> QED
        BY <1>2, <2>2, <2>3, ClaimEffects
  <1>3. ASSUME NEW r \in DOMAIN runs, RunAction(r) PROVE Typed'
    <2>1. PICK b, x, y, l : RunEffect(r, b, x, y, l)
        BY <1>3, RunEffects
    <2>2. /\ autos' \in [Automations -> AutoRows]
          /\ occs' \in Seq(OccRows) /\ DOMAIN occs' = DOMAIN occs
          /\ runs[r].occ \in DOMAIN occs
          /\ runs' \in Seq(RunRows) /\ Len(runs') = Len(runs)
          /\ launch' \in Seq(Phases) /\ Len(launch') = Len(launch)
        BY <2>1, RunStepRows
    <2>3. UNCHANGED <<dues, clock, requests>>
          /\ overtaken' \subseteq overtaken \cup {runs[r].occ}
        BY <2>1 DEF RunEffect
    <2> QED
        BY <2>2, <2>3 DEF Typed
  <1>4. ASSUME NEW i \in DOMAIN occs, LeaseExpires(i) \/ BackoffEnds(i) PROVE Typed'
      BY <1>4, TimerRows DEF Typed
  <1>5. CASE Restart
    <2>1. dues' = {} /\ UNCHANGED <<clock, requests, overtaken>>
        BY <1>5 DEF Restart
    <2> QED
        BY <1>5, <2>1, RestartRows DEF Typed
  <1>6. CASE Quiet
    <2>1. UNCHANGED <<autos, occs, runs, launch, overtaken>>
        BY <1>6, QuietRows
    <2>2. clock' \in 0..MaxClock
        BY <1>6, BoundAssumption DEF Quiet, ListDue, RunNow, Fire, vars, Typed
    <2>3. requests' \in [Automations -> Nat]
        BY <1>6 DEF Quiet, ListDue, RunNow, Fire, vars, Typed
    <2>4. dues' \subseteq [auto : Automations, origin : Origins, slot : Nat]
      <3>1. ASSUME NEW a \in Automations, ListDue(a), PendingManual(a) # {}
            PROVE  occs[Min(PendingManual(a))].slot \in Nat
        <4>1. PendingManual(a) \in SUBSET Nat /\ PendingManual(a) \subseteq DOMAIN occs
            BY DEF PendingManual, Typed
        <4>2. Min(PendingManual(a)) \in DOMAIN occs /\ occs \in Seq(OccRows)
            BY <3>1, <4>1, MinIn DEF Typed
        <4>3. occs[Min(PendingManual(a))] \in OccRows
            BY <4>2
        <4> QED
            BY <4>3 DEF OccRows
      <3>2. ASSUME NEW a \in Automations PROVE autos[a].next \in Nat /\ requests[a] + 1 \in Nat
          BY BoundAssumption DEF Typed, AutoRows
      <3>3. ASSUME NEW a \in Automations, ListDue(a)
            PROVE  dues' \subseteq [auto : Automations, origin : Origins, slot : Nat]
        <4>1. PICK n \in Nat, origin \in Origins :
                dues' = dues \cup {[auto |-> a, origin |-> origin, slot |-> n]}
          <5>1. CASE PendingManual(a) # {}
              BY <3>1, <3>3, <5>1 DEF ListDue, Origins
          <5>2. CASE PendingManual(a) = {}
              BY <3>2, <3>3, <5>2 DEF ListDue, Origins
          <5> QED
              BY <5>1, <5>2
        <4> QED
            BY <4>1 DEF Typed
      <3>4. ASSUME NEW a \in Automations, RunNow(a)
            PROVE  dues' \subseteq [auto : Automations, origin : Origins, slot : Nat]
          BY <3>2, <3>4 DEF RunNow, Typed, Origins
      <3>5. CASE Fire \/ UNCHANGED vars
          BY <3>5 DEF Fire, vars, Typed
      <3> QED
          BY <1>6, <3>3, <3>4, <3>5 DEF Quiet
    <2> QED
        BY <2>1, <2>2, <2>3, <2>4 DEF Typed
  <1> QED
      BY <1>1, <1>2, <1>3, <1>4, <1>5, <1>6, StepCases

(* The columns that the references and the policies are read from.         *)
LEMMA Referents ==
    ASSUME Typed
    PROVE  /\ \A a \in Automations : autos[a].rev \in Nat
           /\ \A o \in DOMAIN occs : /\ occs[o].auto \in Automations
                                     /\ occs[o].attempt \in Nat
                                     /\ occs[o].rev \in Nat
           /\ \A r \in DOMAIN runs : runs[r].attempt \in Nat
  <1>1. /\ autos \in [Automations -> AutoRows]
        /\ occs \in Seq(OccRows) /\ runs \in Seq(RunRows)
      BY DEF Typed
  <1>2. \A a \in Automations : autos[a].rev \in Nat
      BY <1>1 DEF AutoRows
  <1>3. \A o \in DOMAIN occs : occs[o] \in OccRows
      BY <1>1
  <1>4. \A r \in DOMAIN runs : runs[r] \in RunRows
      BY <1>1
  <1>5. \A x \in OccRows : x.auto \in Automations /\ x.attempt \in Nat /\ x.rev \in Nat
      BY BoundAssumption DEF OccRows
  <1>6. \A y \in RunRows : y.attempt \in Nat
      BY DEF RunRows
  <1> QED
      BY <1>2, <1>3, <1>4, <1>5, <1>6

(* Steps that neither add rows nor rewrite keys keep the references.       *)
LEMMA LinkedKept ==
    ASSUME Typed, Linked,
           \A a \in Automations : autos'[a].rev \in autos[a].rev..Len(Policies[a]),
           DOMAIN occs' = DOMAIN occs, \A o \in DOMAIN occs : KeepsKey(occs'[o], occs[o]),
           DOMAIN runs' = DOMAIN runs,
           \A r \in DOMAIN runs : /\ runs'[r].occ = runs[r].occ
                                  /\ runs'[r].attempt = runs[r].attempt
    PROVE  Linked'
  <1>1. /\ \A a \in Automations : autos[a].rev \in Nat /\ Len(Policies[a]) \in Nat
        /\ \A o \in DOMAIN occs : occs[o].auto \in Automations
      BY Referents, PolicyAssumption
  <1>2. \A a \in Automations : autos'[a].rev \in 1..Len(Policies[a])
      BY <1>1 DEF Linked
  <1>3. ASSUME NEW o \in DOMAIN occs PROVE occs'[o].rev \in 1..autos'[occs'[o].auto].rev
    <2>1. occs[o].auto \in Automations /\ occs[o].rev \in 1..autos[occs[o].auto].rev
        BY <1>1 DEF Linked
    <2>2. occs'[o].auto = occs[o].auto /\ occs'[o].rev = occs[o].rev
        BY DEF KeepsKey
    <2> QED
        BY <1>1, <2>1, <2>2
  <1>4. ASSUME NEW r \in DOMAIN runs
        PROVE  /\ runs'[r].occ \in DOMAIN occs
               /\ runs'[r].attempt \in 1..occs'[runs'[r].occ].attempt
    <2>1. runs[r].occ \in DOMAIN occs /\ runs[r].attempt \in 1..occs[runs[r].occ].attempt
        BY DEF Linked
    <2>2. occs'[runs[r].occ].attempt = occs[runs[r].occ].attempt
        BY <2>1 DEF KeepsKey
    <2> QED
        BY <2>1, <2>2
  <1> QED
      BY <1>2, <1>3, <1>4 DEF Linked

(* The references between the tables stay good.                            *)
LEMMA LinkedStep == ASSUME Typed, Linked, [Next]_vars PROVE Linked'
  <1>0. /\ \A a \in Automations : autos[a].rev \in Nat /\ Len(Policies[a]) \in Nat
        /\ \A a \in Automations : autos[a].rev \in autos[a].rev..Len(Policies[a])
      BY Referents, PolicyAssumption DEF Linked
  <1>1. ASSUME NEW a \in Automations, NEW enabled \in BOOLEAN, SaveAutomation(a, enabled)
        PROVE  Linked'
    <2>1. /\ \A c \in Automations : c # a => autos'[c] = autos[c]
          /\ autos'[a].rev = autos[a].rev + 1 /\ autos'[a].rev <= Len(Policies[a])
          /\ DOMAIN occs' = DOMAIN occs /\ \A o \in DOMAIN occs : KeepsKey(occs'[o], occs[o])
          /\ DOMAIN runs' = DOMAIN runs
          /\ \A r \in DOMAIN runs : SameAttempt(runs'[r], runs[r])
        BY <1>1, SaveRows
    <2>2. \A c \in Automations : autos'[c].rev \in autos[c].rev..Len(Policies[c])
        BY <1>0, <2>1
    <2> QED
        BY <2>1, <2>2, LinkedKept DEF SameAttempt
  <1>2. ASSUME NEW d \in dues, Claim(d) PROVE Linked'
    <2>1. CASE UNCHANGED <<autos, occs, runs, launch>>
        BY <2>1 DEF Linked
    <2>2. ASSUME NEW b, NEW x, ClaimWrites(d, b, x), ClaimRests(d, x) \/ ClaimQueues(d, x)
          PROVE  Linked'
      <3> DEFINE i == Prepared(d)
                 o == PreparedOccs(d)[i]
      <3>1. /\ d.auto \in Automations
            /\ \A a \in Automations : autos'[a] = IF a = d.auto THEN b ELSE autos[a]
            /\ DOMAIN occs' = DOMAIN occs \cup {i}
            /\ \A j \in DOMAIN occs : j # i => occs'[j] = occs[j]
            /\ occs'[i] = x
            /\ x.auto = d.auto /\ x.rev = autos[d.auto].rev
            /\ i \in DOMAIN occs => o = occs[i]
            /\ i \notin DOMAIN occs => o = Planned(d)
        <4>1. /\ \A a \in Automations : autos'[a] = IF a = d.auto THEN b ELSE autos[a]
              /\ DOMAIN occs' = DOMAIN occs \cup {i}
              /\ \A j \in DOMAIN occs : j # i => occs'[j] = occs[j]
            BY <2>2, ClaimRows
        <4>2. /\ d.auto \in Automations /\ occs'[i] = x
              /\ x.auto = d.auto /\ x.rev = autos[d.auto].rev
            BY <2>2, ClaimedRow
        <4>3. /\ i \in DOMAIN occs => o = occs[i]
              /\ i \notin DOMAIN occs => o = Planned(d)
            BY <2>2, ClaimedRow
        <4> QED
            BY <4>1, <4>2, <4>3
      <3>2. b.rev = autos[d.auto].rev /\ x \in OccRows
          BY <2>2 DEF ClaimWrites
      <3>3. \A a \in Automations : autos'[a].rev = autos[a].rev
          BY <3>1, <3>2
      <3>4. x.attempt = o.attempt \/ x.attempt = o.attempt + 1
          BY <2>2 DEF ClaimRests, ClaimQueues
      <3>5. i \notin DOMAIN occs => o.attempt = 0
          BY <3>1 DEF Planned
      <3>6. o.attempt \in Nat /\ x.attempt \in Nat /\ x.attempt >= o.attempt
          BY <3>1, <3>4, <3>5, Referents
      <3>7. \A j \in DOMAIN occs' : occs'[j].rev \in 1..autos'[occs'[j].auto].rev
        <4>1. autos[d.auto].rev \in 1..autos[d.auto].rev
            BY <1>0, <3>1 DEF Linked
        <4>2. ASSUME NEW j \in DOMAIN occs', j # i
              PROVE  occs'[j].rev \in 1..autos'[occs'[j].auto].rev
          <5>1. j \in DOMAIN occs /\ occs'[j] = occs[j]
              BY <3>1, <4>2
          <5>2. autos'[occs[j].auto].rev = autos[occs[j].auto].rev
              BY <3>3, <5>1, Referents
          <5> QED
              BY <5>1, <5>2 DEF Linked
        <4> QED
            BY <3>1, <3>3, <4>1, <4>2
      <3>8. \A r \in DOMAIN runs : /\ runs[r].occ \in DOMAIN occs'
                                   /\ runs[r].attempt \in 1..occs'[runs[r].occ].attempt
        <4>1. ASSUME NEW r \in DOMAIN runs
              PROVE  /\ runs[r].occ \in DOMAIN occs'
                     /\ runs[r].attempt \in 1..occs'[runs[r].occ].attempt
          <5>1. /\ runs[r].occ \in DOMAIN occs
                /\ runs[r].attempt \in 1..occs[runs[r].occ].attempt
              BY DEF Linked
          <5>2. occs'[runs[r].occ].attempt >= occs[runs[r].occ].attempt
                /\ occs'[runs[r].occ].attempt \in Nat
            <6>1. CASE runs[r].occ = i
                BY <3>1, <3>6, <5>1, <6>1
            <6>2. CASE runs[r].occ # i
                BY <3>1, <5>1, <6>2, Referents
            <6> QED
                BY <6>1, <6>2
          <5> QED
              BY <3>1, <5>1, <5>2, Referents
        <4> QED
            BY <4>1
      <3>9. \A r \in DOMAIN runs' : /\ runs'[r].occ \in DOMAIN occs'
                                    /\ runs'[r].attempt \in 1..occs'[runs'[r].occ].attempt
        <4>1. CASE ClaimRests(d, x)
            BY <3>8, <4>1 DEF ClaimRests
        <4>2. CASE ClaimQueues(d, x)
          <5>1. /\ DOMAIN runs' = DOMAIN runs \cup {Len(runs) + 1}
                /\ \A r \in DOMAIN runs : SameAttempt(runs'[r], runs[r])
                /\ runs'[Len(runs) + 1] = [occ |-> i, attempt |-> x.attempt,
                                           status |-> "queued", started |-> FALSE]
              BY <3>2, <4>2, QueueRows
          <5>2. x.attempt \in 1..x.attempt
              BY <3>6, <4>2 DEF ClaimQueues
          <5> QED
              BY <3>1, <3>8, <5>1, <5>2 DEF SameAttempt
        <4> QED
            BY <2>2, <4>1, <4>2
      <3>10. \A a \in Automations : autos'[a].rev \in 1..Len(Policies[a])
          BY <3>3 DEF Linked
      <3> QED
          BY <3>7, <3>9, <3>10 DEF Linked
    <2> QED
        BY <1>2, <2>1, <2>2, ClaimEffects
  <1>3. ASSUME NEW r \in DOMAIN runs, RunAction(r) PROVE Linked'
    <2>1. PICK b, x, y, l : RunEffect(r, b, x, y, l)
        BY <1>3, RunEffects
    <2>2. /\ b.rev = autos[AutoOf(r)].rev /\ KeepsKey(x, occs[runs[r].occ])
          /\ y.occ = runs[r].occ /\ y.attempt = runs[r].attempt
        BY <2>1 DEF RunEffect
    <2>3. /\ \A a \in Automations : autos'[a] = IF a = AutoOf(r) THEN b ELSE autos[a]
          /\ DOMAIN occs' = DOMAIN occs /\ DOMAIN runs' = DOMAIN runs
          /\ \A o \in DOMAIN occs : occs'[o] = IF o = runs[r].occ THEN x ELSE occs[o]
          /\ \A s \in DOMAIN runs : runs'[s] = IF s = r THEN y ELSE runs[s]
        BY <2>1, RunStepRows
    <2>4. /\ \A a \in Automations : autos'[a].rev = autos[a].rev
          /\ \A s \in DOMAIN runs : runs'[s].occ = runs[s].occ
                                    /\ runs'[s].attempt = runs[s].attempt
        BY <2>2, <2>3
    <2>5. \A o \in DOMAIN occs : KeepsKey(occs'[o], occs[o])
        BY <2>2, <2>3 DEF KeepsKey
    <2> QED
        BY <1>0, <2>3, <2>4, <2>5, LinkedKept
  <1>4. ASSUME NEW i \in DOMAIN occs, LeaseExpires(i) \/ BackoffEnds(i) PROVE Linked'
    <2>1. /\ DOMAIN occs' = DOMAIN occs
          /\ \A o \in DOMAIN occs : KeepsKey(occs'[o], occs[o])
          /\ UNCHANGED <<autos, runs>>
        BY <1>4, TimerRows
    <2> QED
        BY <1>0, <2>1, LinkedKept
  <1>5. CASE Restart
    <2>1. /\ \A a \in Automations : autos'[a].rev = autos[a].rev
          /\ DOMAIN occs' = DOMAIN occs /\ DOMAIN runs' = DOMAIN runs
          /\ \A o \in DOMAIN occs : KeepsKey(occs'[o], occs[o])
          /\ \A r \in DOMAIN runs : SameAttempt(runs'[r], runs[r])
        BY <1>5, RestartRows
    <2> QED
        BY <1>0, <2>1, LinkedKept DEF SameAttempt
  <1>6. CASE Quiet
      BY <1>6, QuietRows DEF Linked
  <1> QED
      BY <1>1, <1>2, <1>3, <1>4, <1>5, <1>6, StepCases

(* The empty tables are typed and linked.                                  *)
LEMMA TypedInit == ASSUME Init PROVE Typed /\ Linked
  <1>1. autos \in [Automations -> AutoRows] /\ \A a \in Automations : autos[a].rev = 1
      BY BoundAssumption DEF Init, AutoRows
  <1>2. occs = <<>> /\ runs = <<>> /\ launch = <<>> /\ dues = {} /\ clock = 0
        /\ requests = [a \in Automations |-> 0] /\ overtaken = {}
      BY DEF Init
  <1>3. \A a \in Automations : 1 \in 1..Len(Policies[a])
    <2> DEFINE P == [overlap : {"skip", "allow"}, misfire : {"run_latest", "skip"},
                     approval : BOOLEAN, isolated : BOOLEAN]
    <2>1. Policies \in [Automations -> Seq(P)] /\ \A a \in Automations : Policies[a] # <<>>
        BY PolicyAssumption
    <2> HIDE DEF P
    <2> QED
        BY <2>1
  <1>4. Typed
      BY <1>1, <1>2, BoundAssumption DEF Typed
  <1>5. Linked
      BY <1>1, <1>2, <1>3 DEF Linked
  <1> QED
      BY <1>4, <1>5

LEMMA TypedGivesTypeOK == ASSUME Typed, Linked PROVE TypeOK
  <1>1. /\ autos \in [Automations -> AutoRows]
        /\ \A o \in DOMAIN occs : occs[o] \in OccRows
        /\ \A r \in DOMAIN runs : runs[r] \in RunRows
    <2>1. occs \in Seq(OccRows) /\ runs \in Seq(RunRows)
        BY DEF Typed
    <2> QED
        BY <2>1 DEF Typed
  <1>2. DOMAIN autos = Automations
        /\ \A a \in Automations :
             /\ autos[a].enabled \in BOOLEAN
             /\ autos[a].status \in Active \cup Final \cup {"ready", "disabled"}
             /\ autos[a].next \in 0..(MaxClock + 1)
             /\ autos[a].rev \in 1..Len(Policies[a])
      BY <1>1 DEF AutoRows, Linked
  <1>3. \A o \in DOMAIN occs :
          /\ occs[o].auto \in Automations
          /\ occs[o].rev \in 1..autos[occs[o].auto].rev
          /\ occs[o].origin \in Origins /\ occs[o].slot \in Nat
          /\ occs[o].status \in Pending \cup Consumed
          /\ occs[o].attempt \in 0..MaxAttempts
          /\ occs[o].leased \in BOOLEAN /\ occs[o].backoff \in BOOLEAN
          /\ occs[o].approval \in {"pending", "approved", "denied", "not_required"}
          /\ occs[o].resume \in 0..(MaxClock + 1)
    <2>1. \A x \in OccRows :
          /\ x.auto \in Automations
          /\ x.origin \in Origins /\ x.slot \in Nat
          /\ x.status \in Pending \cup Consumed
          /\ x.attempt \in 0..MaxAttempts
          /\ x.leased \in BOOLEAN /\ x.backoff \in BOOLEAN
          /\ x.approval \in {"pending", "approved", "denied", "not_required"}
          /\ x.resume \in 0..(MaxClock + 1)
        BY DEF OccRows
    <2> QED
        BY <1>1, <2>1 DEF Linked
  <1>4. \A r \in DOMAIN runs :
          /\ runs[r].occ \in DOMAIN occs
          /\ runs[r].attempt \in 1..occs[runs[r].occ].attempt
          /\ runs[r].status \in Active \cup Final
          /\ runs[r].started \in BOOLEAN
    <2>1. \A y \in RunRows : y.status \in Active \cup Final /\ y.started \in BOOLEAN
        BY DEF RunRows
    <2> QED
        BY <1>1, <2>1 DEF Linked
  <1> QED
      BY <1>2, <1>3, <1>4 DEF TypeOK, Typed

LEMMA TablesCorrect == Spec => [](Typed /\ Linked)
  <1>1. Init => Typed /\ Linked
      BY TypedInit
  <1>2. Typed /\ Linked /\ [Next]_vars => (Typed /\ Linked)'
      BY TypedStep, LinkedStep
  <1> QED
      BY <1>1, <1>2, PTL DEF Spec

(* The rows of definitions, occurrences and runs keep to their columns,    *)
(* the cursor is at most one slot ahead of the clock's bound, and a run is *)
(* one of the attempts made at its occurrence.                             *)
THEOREM TypeCorrect == Spec => []TypeOK
  <1>1. Typed /\ Linked => TypeOK
      BY TypedGivesTypeOK
  <1> QED
      BY <1>1, TablesCorrect, PTL

-----------------------------------------------------------------------------
(*                   The overlap policy and the writers                    *)

(* A step leaves a run with its occurrence and its policy and activates    *)
(* none; a claim may add one, which neither an overlap nor a lock forbids. *)
KeepsRun(r) ==
    /\ r \in DOMAIN runs'
    /\ runs'[r].occ = runs[r].occ
    /\ AutoOf(r)' = AutoOf(r) /\ RevisionOf(r)' = RevisionOf(r)
    /\ runs'[r].status \in Active => runs[r].status \in Active

AddsRun(d, n) ==
    /\ runs'[n].occ = Prepared(d)
    /\ AutoOf(n)' = d.auto /\ RevisionOf(n)' = autos[d.auto].rev
    /\ ~HasIsolatedSourceLock(d.auto)
    /\ ~(HasActiveRun(d.auto, Prepared(d)) /\ Policy(d.auto).overlap = "skip")

LEMMA RunsKept ==
    ASSUME Linked,
           DOMAIN runs' = DOMAIN runs, \A o \in DOMAIN occs : KeepsKey(occs'[o], occs[o]),
           \A r \in DOMAIN runs :
             /\ runs'[r].occ = runs[r].occ
             /\ runs'[r].status \in Active => runs[r].status \in Active
    PROVE  \A r \in DOMAIN runs : KeepsRun(r)
  BY DEF Linked, KeepsKey, KeepsRun, AutoOf, RevisionOf

LEMMA ActiveSteps ==
    ASSUME Typed, Linked, [Next]_vars
    PROVE  /\ \A r \in DOMAIN runs : KeepsRun(r)
           /\ \/ DOMAIN runs' = DOMAIN runs
              \/ \E d \in dues, n \in DOMAIN runs' :
                   DOMAIN runs' = DOMAIN runs \cup {n} /\ AddsRun(d, n)
  <1> DEFINE Goal == /\ \A r \in DOMAIN runs : KeepsRun(r)
                     /\ \/ DOMAIN runs' = DOMAIN runs
                        \/ \E d \in dues, n \in DOMAIN runs' :
                             DOMAIN runs' = DOMAIN runs \cup {n} /\ AddsRun(d, n)
  <1>0. \A r \in DOMAIN runs : [runs[r] EXCEPT !.status = "cancelled"].status = "cancelled"
                               /\ "cancelled" \notin Active
    <2>1. runs \in Seq(RunRows)
        BY DEF Typed
    <2>2. \A r \in DOMAIN runs : runs[r] \in RunRows
        BY <2>1
    <2> QED
        BY <2>2 DEF RunRows, Active
  <1>1. ASSUME NEW a \in Automations, NEW enabled \in BOOLEAN, SaveAutomation(a, enabled)
        PROVE  Goal
    <2>1. /\ DOMAIN runs' = DOMAIN runs /\ \A o \in DOMAIN occs : KeepsKey(occs'[o], occs[o])
          /\ \A r \in DOMAIN runs : SameAttempt(runs'[r], runs[r])
        BY <1>1, SaveRows
    <2>2. \A r \in DOMAIN runs : runs'[r] \in {runs[r], [runs[r] EXCEPT !.status = "cancelled"]}
        BY <1>1, SaveRows
    <2> QED
        BY <1>0, <2>1, <2>2, RunsKept DEF SameAttempt
  <1>2. ASSUME NEW d \in dues, Claim(d) PROVE Goal
    <2>1. CASE UNCHANGED <<autos, occs, runs, launch>>
        BY <2>1, RunsKept DEF KeepsKey
    <2>2. ASSUME NEW b, NEW x, ClaimWrites(d, b, x), ClaimRests(d, x) \/ ClaimQueues(d, x)
          PROVE  Goal
      <3>1. /\ \A j \in DOMAIN occs : j # Prepared(d) => occs'[j] = occs[j]
          BY <2>2, ClaimRows
      <3>2. /\ d.auto \in Automations /\ occs'[Prepared(d)] = x
            /\ x.auto = d.auto /\ x.rev = autos[d.auto].rev /\ x \in OccRows
          BY <2>2, ClaimedRow
      <3>3. Prepared(d) \in DOMAIN occs => /\ occs[Prepared(d)].auto = d.auto
                                           /\ occs[Prepared(d)].rev = autos[d.auto].rev
          BY PreparedRow
      <3>4. \A o \in DOMAIN occs : occs'[o].auto = occs[o].auto /\ occs'[o].rev = occs[o].rev
          BY <3>1, <3>2, <3>3
      <3>5. CASE ClaimRests(d, x)
        <4>1. UNCHANGED runs
            BY <3>5 DEF ClaimRests
        <4> QED
            BY <3>4, <4>1 DEF Linked, KeepsRun, AutoOf, RevisionOf
      <3>6. CASE ClaimQueues(d, x)
        <4>0. PICK n : n = Len(runs) + 1
            OBVIOUS
        <4>1. /\ DOMAIN runs' = DOMAIN runs \cup {n}
              /\ \A r \in DOMAIN runs : SameAttempt(runs'[r], runs[r])
            BY <3>2, <3>6, <4>0, QueueRows
        <4>2. runs'[n] = [occ |-> Prepared(d), attempt |-> x.attempt,
                          status |-> "queued", started |-> FALSE]
            BY <3>2, <3>6, <4>0, QueueRows
        <4>3. \A r \in DOMAIN runs :
                runs'[r] \in {runs[r], [runs[r] EXCEPT !.status = "cancelled"]}
            BY <3>2, <3>6, QueueRows
        <4>4. \A r \in DOMAIN runs : KeepsRun(r)
            BY <1>0, <3>4, <4>1, <4>3 DEF Linked, KeepsRun, AutoOf, RevisionOf, SameAttempt
        <4>5. AddsRun(d, n)
          <5>1. runs'[n].occ = Prepared(d)
              BY <4>2
          <5>2. AutoOf(n)' = d.auto /\ RevisionOf(n)' = autos[d.auto].rev
              BY <3>2, <5>1 DEF AutoOf, RevisionOf
          <5>3. /\ ~HasIsolatedSourceLock(d.auto)
                /\ ~(HasActiveRun(d.auto, Prepared(d)) /\ Policy(d.auto).overlap = "skip")
              BY <3>6 DEF ClaimQueues
          <5> QED
              BY <5>1, <5>2, <5>3 DEF AddsRun
        <4> QED
            BY <4>1, <4>4, <4>5
      <3> QED
          BY <2>2, <3>5, <3>6
    <2> QED
        BY <1>2, <2>1, <2>2, ClaimEffects
  <1>3. ASSUME NEW r \in DOMAIN runs, RunAction(r) PROVE Goal
    <2>1. PICK b, x, y, l : RunEffect(r, b, x, y, l)
        BY <1>3, RunEffects
    <2>2. /\ KeepsKey(x, occs[runs[r].occ])
          /\ y.occ = runs[r].occ /\ (y.status \in Active => runs[r].status \in Active)
        BY <2>1 DEF RunEffect
    <2>3. /\ DOMAIN occs' = DOMAIN occs /\ DOMAIN runs' = DOMAIN runs
          /\ \A o \in DOMAIN occs : occs'[o] = IF o = runs[r].occ THEN x ELSE occs[o]
          /\ \A s \in DOMAIN runs : runs'[s] = IF s = r THEN y ELSE runs[s]
        BY <2>1, RunStepRows
    <2>4. \A o \in DOMAIN occs : KeepsKey(occs'[o], occs[o])
        BY <2>2, <2>3 DEF KeepsKey
    <2> QED
        BY <2>2, <2>3, <2>4, RunsKept
  <1>4. ASSUME NEW i \in DOMAIN occs, LeaseExpires(i) \/ BackoffEnds(i) PROVE Goal
    <2>1. UNCHANGED runs /\ \A o \in DOMAIN occs : KeepsKey(occs'[o], occs[o])
        BY <1>4, TimerRows
    <2> QED
        BY <2>1, RunsKept
  <1>5. CASE Restart
    <2>1. /\ DOMAIN runs' = DOMAIN runs
          /\ \A o \in DOMAIN occs : KeepsKey(occs'[o], occs[o])
          /\ \A r \in DOMAIN runs : SameAttempt(runs'[r], runs[r])
        BY <1>5, RestartRows
    <2>2. \A r \in DOMAIN runs : runs'[r] \in {runs[r], [runs[r] EXCEPT !.status = "cancelled"]}
        BY <1>5, RestartRows
    <2> QED
        BY <1>0, <2>1, <2>2, RunsKept DEF SameAttempt
  <1>6. CASE Quiet
    <2>1. UNCHANGED <<occs, runs>>
        BY <1>6, QuietRows
    <2> QED
        BY <2>1, RunsKept DEF KeepsKey
  <1> QED
      BY <1>1, <1>2, <1>3, <1>4, <1>5, <1>6, StepCases

(* A run that is kept is kept under its policy, and a run that is added    *)
(* comes under the policy of the saved revision.                           *)
LEMMA PolicyKept == ASSUME NEW r \in DOMAIN runs, KeepsRun(r) PROVE PolicyOf(r)' = PolicyOf(r)
  BY DEF KeepsRun, PolicyOf

LEMMA PolicyAdded ==
    ASSUME NEW d, NEW n, AddsRun(d, n) PROVE PolicyOf(n)' = Policy(d.auto)
  BY DEF AddsRun, PolicyOf, Policy

LEMMA OverlapStep ==
    ASSUME Typed, Linked, OverlapIsSkipped, [Next]_vars
    PROVE  OverlapIsSkipped'
  <1> DEFINE Clash(r, s) == /\ runs[r].status \in Active /\ runs[s].status \in Active
                            /\ AutoOf(r) = AutoOf(s) /\ runs[r].occ # runs[s].occ
  <1> SUFFICES ASSUME NEW r \in DOMAIN runs', NEW s \in DOMAIN runs', Clash(r, s)'
               PROVE  PolicyOf(r)'.overlap = "allow" \/ PolicyOf(s)'.overlap = "allow"
      BY DEF OverlapIsSkipped
  <1>1. CASE r \in DOMAIN runs /\ s \in DOMAIN runs
    <2>1. KeepsRun(r) /\ KeepsRun(s)
        BY <1>1, ActiveSteps
    <2>2. Clash(r, s)
        BY <2>1 DEF KeepsRun
    <2>3. PolicyOf(r).overlap = "allow" \/ PolicyOf(s).overlap = "allow"
        BY <1>1, <2>2 DEF OverlapIsSkipped
    <2> QED
        BY <1>1, <2>1, <2>3, PolicyKept
  <1>2. ASSUME NEW d \in dues, NEW n \in DOMAIN runs', AddsRun(d, n),
               NEW old \in DOMAIN runs, Clash(old, n)' \/ Clash(n, old)'
        PROVE  PolicyOf(n)'.overlap = "allow"
    <2>1. KeepsRun(old)
        BY ActiveSteps
    <2>2. /\ runs[old].status \in Active /\ AutoOf(old) = d.auto
          /\ runs[old].occ # Prepared(d)
        BY <1>2, <2>1 DEF KeepsRun, AddsRun
    <2>3. Policy(d.auto).overlap # "skip"
        BY <1>2, <2>2 DEF AddsRun, HasActiveRun
    <2>4. d.auto \in Automations /\ autos[d.auto].rev \in 1..Len(Policies[d.auto])
        BY DEF Typed, Linked
    <2>5. Policy(d.auto).overlap \in {"skip", "allow"}
        BY <2>4, PolicyTyped DEF Policy
    <2> QED
        BY <1>2, <2>3, <2>5, PolicyAdded
  <1>3. ~Clash(r, r)'
      OBVIOUS
  <1>4. CASE ~(r \in DOMAIN runs /\ s \in DOMAIN runs)
    <2>1. PICK d \in dues, n \in DOMAIN runs' :
            DOMAIN runs' = DOMAIN runs \cup {n} /\ AddsRun(d, n)
        BY <1>4, ActiveSteps
    <2>2. (r = n /\ s \in DOMAIN runs) \/ (s = n /\ r \in DOMAIN runs)
        BY <1>3, <1>4, <2>1
    <2> QED
        BY <1>2, <2>1, <2>2
  <1> QED
      BY <1>1, <1>4

LEMMA WriterStep ==
    ASSUME Typed, Linked, OneIsolatedWriter, [Next]_vars
    PROVE  OneIsolatedWriter'
  <1> DEFINE Both(r, s) == /\ runs[r].status \in Active /\ runs[s].status \in Active
                           /\ PolicyOf(r).isolated /\ PolicyOf(s).isolated
  <1> SUFFICES ASSUME NEW r \in DOMAIN runs', NEW s \in DOMAIN runs', Both(r, s)'
               PROVE  AutoOf(r)' = AutoOf(s)'
      BY DEF OneIsolatedWriter
  <1>1. CASE r \in DOMAIN runs /\ s \in DOMAIN runs
    <2>1. KeepsRun(r) /\ KeepsRun(s)
        BY <1>1, ActiveSteps
    <2>2. PolicyOf(r)' = PolicyOf(r) /\ PolicyOf(s)' = PolicyOf(s)
        BY <1>1, <2>1, PolicyKept
    <2>3. Both(r, s)
        BY <2>1, <2>2 DEF KeepsRun
    <2>4. AutoOf(r) = AutoOf(s)
        BY <1>1, <2>3 DEF OneIsolatedWriter
    <2> QED
        BY <2>1, <2>4 DEF KeepsRun
  <1>2. ASSUME NEW d \in dues, NEW n \in DOMAIN runs', AddsRun(d, n),
               NEW old \in DOMAIN runs, Both(old, n)' \/ Both(n, old)'
        PROVE  AutoOf(old)' = AutoOf(n)'
    <2>1. KeepsRun(old)
        BY ActiveSteps
    <2>2. PolicyOf(old)' = PolicyOf(old) /\ PolicyOf(n)' = Policy(d.auto)
        BY <1>2, <2>1, PolicyKept, PolicyAdded
    <2>3. /\ runs[old].status \in Active /\ PolicyOf(old).isolated
          /\ Policy(d.auto).isolated
        BY <1>2, <2>1, <2>2 DEF KeepsRun
    <2>4. AutoOf(old) = d.auto
        BY <1>2, <2>3 DEF AddsRun, HasIsolatedSourceLock
    <2> QED
        BY <1>2, <2>1, <2>4 DEF AddsRun, KeepsRun
  <1>3. CASE ~(r \in DOMAIN runs /\ s \in DOMAIN runs)
    <2>1. PICK d \in dues, n \in DOMAIN runs' :
            DOMAIN runs' = DOMAIN runs \cup {n} /\ AddsRun(d, n)
        BY <1>3, ActiveSteps
    <2>2. r = s \/ (r = n /\ s \in DOMAIN runs) \/ (s = n /\ r \in DOMAIN runs)
        BY <1>3, <2>1
    <2> QED
        BY <1>2, <2>1, <2>2
  <1> QED
      BY <1>1, <1>3

(* Whatever the scheduler, the desktop and the restarts do, a definition   *)
(* whose overlap policy is "skip" never has two occurrences active at once *)
(* (has_active_run in claim_due_workflow_automation).                      *)
THEOREM OverlapPolicyHolds == Spec => []OverlapIsSkipped
  <1>1. Init => OverlapIsSkipped
      BY DEF Init, OverlapIsSkipped
  <1>2. Typed /\ Linked /\ OverlapIsSkipped /\ [Next]_vars => OverlapIsSkipped'
      BY OverlapStep
  <1> QED
      BY <1>1, <1>2, TablesCorrect, PTL DEF Spec

(* No two definitions ever have isolated patches active on one source root *)
(* (has_isolated_source_lock), the approvals that wait included.           *)
THEOREM WritersExcludeEachOther == Spec => []OneIsolatedWriter
  <1>1. Init => OneIsolatedWriter
      BY DEF Init, OneIsolatedWriter
  <1>2. Typed /\ Linked /\ OneIsolatedWriter /\ [Next]_vars => OneIsolatedWriter'
      BY WriterStep
  <1> QED
      BY <1>1, <1>2, TablesCorrect, PTL DEF Spec

-----------------------------------------------------------------------------
(*                          Authority of a start                           *)

(* The statuses after a save and after a restart.                          *)
LEMMA SaveStatuses ==
    ASSUME Typed, Linked, NEW a \in Automations, NEW enabled \in BOOLEAN,
           SaveAutomation(a, enabled)
    PROVE  /\ \A o \in DOMAIN occs :
                /\ occs'[o].status = IF Supersedes(a, o) /\ occs[o].status \in Pending
                                       THEN "cancelled" ELSE occs[o].status
                /\ occs'[o].approval = occs[o].approval
           /\ \A r \in DOMAIN runs : runs'[r].status \in {runs[r].status, "cancelled"}
  <1>1. occs \in Seq(OccRows) /\ runs \in Seq(RunRows)
      BY DEF Typed
  <1>2. \A o \in DOMAIN occs : occs[o] \in OccRows
      BY <1>1
  <1>3. \A r \in DOMAIN runs : runs[r] \in RunRows
      BY <1>1
  <1>4. ASSUME NEW o \in DOMAIN occs
        PROVE  /\ occs'[o].status = IF Supersedes(a, o) /\ occs[o].status \in Pending
                                      THEN "cancelled" ELSE occs[o].status
               /\ occs'[o].approval = occs[o].approval
    <2> DEFINE x == [occs[o] EXCEPT !.status = "cancelled", !.leased = FALSE,
                                    !.backoff = FALSE]
    <2>1. x.status = "cancelled" /\ x.approval = occs[o].approval
        BY <1>2 DEF OccRows
    <2>2. occs'[o] = IF Supersedes(a, o) /\ occs[o].status \in Pending THEN x ELSE occs[o]
        BY SaveRows
    <2> HIDE DEF x
    <2> QED
        BY <2>1, <2>2
  <1>5. ASSUME NEW r \in DOMAIN runs PROVE runs'[r].status \in {runs[r].status, "cancelled"}
    <2>1. runs'[r] = runs[r] \/ runs'[r] = [runs[r] EXCEPT !.status = "cancelled"]
        BY SaveRows
    <2> QED
        BY <1>3, <2>1 DEF RunRows
  <1> QED
      BY <1>4, <1>5

LEMMA RestartStatuses ==
    ASSUME Typed, Linked, Restart
    PROVE  \A o \in DOMAIN occs : /\ occs'[o].status \in {occs[o].status, "cancelled"}
                                  /\ occs'[o].approval = occs[o].approval
  <1>1. occs \in Seq(OccRows)
      BY DEF Typed
  <1>2. \A o \in DOMAIN occs : occs[o] \in OccRows
      BY <1>1
  <1>3. ASSUME NEW o \in DOMAIN occs
        PROVE  /\ occs'[o].status \in {occs[o].status, "cancelled"}
               /\ occs'[o].approval = occs[o].approval
    <2> DEFINE x == [Ended(occs[o], "cancelled") EXCEPT !.backoff = FALSE]
    <2>1. x.status = "cancelled" /\ x.approval = occs[o].approval
        BY <1>2 DEF OccRows, Ended
    <2>2. occs'[o] = occs[o] \/ occs'[o] = x
        BY RestartRows
    <2> HIDE DEF x
    <2> QED
        BY <2>1, <2>2
  <1> QED
      BY <1>3

(* No claim and no approval outlives a save.                               *)
LEMMA CurrentStep ==
    ASSUME Typed, Linked, ClaimsAreCurrent, [Next]_vars
    PROVE  ClaimsAreCurrent'
  <1> DEFINE Held(status) == status \in {"claimed", "waiting_approval"}
  <1>0. \A o \in DOMAIN occs : occs[o].auto \in Automations
      BY Referents
  <1>1. ASSUME NEW a \in Automations, NEW enabled \in BOOLEAN, SaveAutomation(a, enabled)
        PROVE  ClaimsAreCurrent'
    <2>1. DOMAIN occs' = DOMAIN occs
          /\ \A c \in Automations : c # a => autos'[c] = autos[c]
        BY <1>1, SaveRows
    <2>2. \A o \in DOMAIN occs : KeepsKey(occs'[o], occs[o])
        BY <1>1, SaveRows
    <2>3. \A o \in DOMAIN occs :
            occs'[o].status = IF Supersedes(a, o) /\ occs[o].status \in Pending
                                THEN "cancelled" ELSE occs[o].status
        BY <1>1, SaveStatuses
    <2>4. ASSUME NEW o \in DOMAIN occs, Held(occs'[o].status)
          PROVE  occs[o].auto # a /\ Held(occs[o].status)
      <3>1. Held(occs[o].status) /\ ~(Supersedes(a, o) /\ occs[o].status \in Pending)
          BY <2>3, <2>4
      <3>2. occs[o].status \in Pending
          BY <3>1 DEF Pending
      <3> QED
          BY <3>1, <3>2 DEF Supersedes, ClaimsAreCurrent
    <2> QED
        BY <1>0, <2>1, <2>2, <2>4 DEF ClaimsAreCurrent, KeepsKey
  <1>2. ASSUME NEW d \in dues, Claim(d) PROVE ClaimsAreCurrent'
    <2>1. CASE UNCHANGED <<autos, occs, runs, launch>>
        BY <2>1 DEF ClaimsAreCurrent
    <2>2. ASSUME NEW b, NEW x, ClaimWrites(d, b, x), ClaimRests(d, x) \/ ClaimQueues(d, x)
          PROVE  ClaimsAreCurrent'
      <3> DEFINE i == Prepared(d)
                 o == PreparedOccs(d)[i]
      <3>1. /\ \A a \in Automations : autos'[a] = IF a = d.auto THEN b ELSE autos[a]
            /\ DOMAIN occs' = DOMAIN occs \cup {i}
            /\ \A j \in DOMAIN occs : j # i => occs'[j] = occs[j]
          BY <2>2, ClaimRows
      <3>2. /\ d.auto \in Automations /\ occs'[i] = x
            /\ x.auto = d.auto /\ x.rev = autos[d.auto].rev
          BY <2>2, ClaimedRow
      <3>3. /\ i \in DOMAIN occs => o = occs[i]
            /\ i \notin DOMAIN occs => o.status = "planned"
          BY PreparedBefore
      <3>4. b.rev = autos[d.auto].rev /\ b.enabled = autos[d.auto].enabled /\ x.auto = o.auto
          BY <2>2 DEF ClaimWrites
      <3>5. \A a \in Automations : /\ autos'[a].rev = autos[a].rev
                                   /\ autos'[a].enabled = autos[a].enabled
          BY <3>1, <3>4
      <3>6. Held(x.status) => autos[d.auto].enabled
        <4>1. CASE ClaimQueues(d, x)
            BY <4>1 DEF ClaimQueues
        <4>2. CASE ClaimRests(d, x) /\ Held(x.status)
          <5>1. x.status = o.status
              BY <4>2 DEF ClaimRests, Consumed, Final
          <5>2. i \in DOMAIN occs /\ Held(occs[i].status)
              BY <3>3, <4>2, <5>1
          <5> QED
              BY <3>2, <3>3, <3>4, <5>2 DEF ClaimsAreCurrent
        <4> QED
            BY <2>2, <4>1, <4>2
      <3> QED
          BY <1>0, <3>1, <3>2, <3>5, <3>6 DEF ClaimsAreCurrent
    <2> QED
        BY <1>2, <2>1, <2>2, ClaimEffects
  <1>3. ASSUME NEW r \in DOMAIN runs, RunAction(r) PROVE ClaimsAreCurrent'
    <2>1. PICK b, x, y, l : RunEffect(r, b, x, y, l)
        BY <1>3, RunEffects
    <2>2. /\ KeepsKey(x, occs[runs[r].occ])
          /\ b.rev = autos[AutoOf(r)].rev /\ b.enabled = autos[AutoOf(r)].enabled
          /\ (Held(x.status) => Held(occs[runs[r].occ].status))
        BY <2>1 DEF RunEffect
    <2>3. /\ \A a \in Automations : autos'[a] = IF a = AutoOf(r) THEN b ELSE autos[a]
          /\ DOMAIN occs' = DOMAIN occs
          /\ \A o \in DOMAIN occs : occs'[o] = IF o = runs[r].occ THEN x ELSE occs[o]
        BY <2>1, RunStepRows
    <2>4. \A a \in Automations : /\ autos'[a].rev = autos[a].rev
                                 /\ autos'[a].enabled = autos[a].enabled
        BY <2>2, <2>3
    <2>5. \A o \in DOMAIN occs : /\ KeepsKey(occs'[o], occs[o])
                                 /\ Held(occs'[o].status) => Held(occs[o].status)
        BY <2>2, <2>3 DEF KeepsKey
    <2> QED
        BY <1>0, <2>3, <2>4, <2>5 DEF ClaimsAreCurrent, KeepsKey
  <1>4. ASSUME NEW i \in DOMAIN occs, LeaseExpires(i) \/ BackoffEnds(i)
        PROVE  ClaimsAreCurrent'
      BY <1>4, TimerRows DEF ClaimsAreCurrent, KeepsKey
  <1>5. CASE Restart
    <2>1. /\ \A a \in Automations : /\ autos'[a].rev = autos[a].rev
                                    /\ autos'[a].enabled = autos[a].enabled
          /\ DOMAIN occs' = DOMAIN occs
        BY <1>5, RestartRows
    <2>2. \A o \in DOMAIN occs : KeepsKey(occs'[o], occs[o])
        BY <1>5, RestartRows
    <2>3. \A o \in DOMAIN occs : occs'[o].status \in {occs[o].status, "cancelled"}
        BY <1>5, RestartStatuses
    <2> QED
        BY <1>0, <2>1, <2>2, <2>3 DEF ClaimsAreCurrent, KeepsKey
  <1>6. CASE Quiet
      BY <1>6, QuietRows DEF ClaimsAreCurrent
  <1> QED
      BY <1>1, <1>2, <1>3, <1>4, <1>5, <1>6, StepCases

(* A queued run of an older attempt does not survive the claim of a new    *)
(* one, so the approval that a start relies on is its own.                 *)
LEMMA ApprovedStep ==
    ASSUME Typed, Linked, ReadyIsApproved, [Next]_vars
    PROVE  ReadyIsApproved'
  <1> DEFINE Fit(r) == /\ launch[r] = "ready" /\ runs[r].status = "queued"
                       /\ occs[runs[r].occ].status = "claimed" /\ PolicyOf(r).approval
  <1>0. \A r \in DOMAIN runs : /\ KeepsRun(r) /\ PolicyOf(r)' = PolicyOf(r)
                               /\ runs[r].occ \in DOMAIN occs /\ runs'[r].occ = runs[r].occ
      BY ActiveSteps, PolicyKept DEF Linked, KeepsRun
  <1>1. ASSUME NEW a \in Automations, NEW enabled \in BOOLEAN, SaveAutomation(a, enabled)
        PROVE  ReadyIsApproved'
    <2>1. DOMAIN runs' = DOMAIN runs /\ launch' = launch
        BY <1>1, SaveRows DEF SaveAutomation
    <2>2. /\ \A o \in DOMAIN occs : /\ occs'[o].status \in {occs[o].status, "cancelled"}
                                    /\ occs'[o].approval = occs[o].approval
          /\ \A r \in DOMAIN runs : runs'[r].status \in {runs[r].status, "cancelled"}
        BY <1>1, SaveStatuses
    <2> QED
        BY <1>0, <2>1, <2>2 DEF ReadyIsApproved
  <1>2. ASSUME NEW d \in dues, Claim(d) PROVE ReadyIsApproved'
    <2>1. CASE UNCHANGED <<autos, occs, runs, launch>>
        BY <1>0, <2>1 DEF ReadyIsApproved
    <2>2. ASSUME NEW b, NEW x, ClaimWrites(d, b, x), ClaimRests(d, x) \/ ClaimQueues(d, x)
          PROVE  ReadyIsApproved'
      <3> DEFINE i == Prepared(d)
                 o == PreparedOccs(d)[i]
      <3>1. \A j \in DOMAIN occs : j # i => occs'[j] = occs[j]
          BY <2>2, ClaimRows
      <3>2. occs'[i] = x /\ x \in OccRows
          BY <2>2, ClaimedRow
      <3>3. i \in DOMAIN occs => o = occs[i]
          BY PreparedBefore
      <3>4. x.approval = o.approval
          BY <2>2 DEF ClaimWrites
      <3>5. CASE ClaimRests(d, x)
        <4>1. UNCHANGED <<runs, launch>> /\ (x.status = "claimed" => o.status = "claimed")
            BY <3>5 DEF ClaimRests, Consumed, Final
        <4>2. \A j \in DOMAIN occs :
                occs'[j].status = "claimed" => /\ occs[j].status = "claimed"
                                               /\ occs'[j].approval = occs[j].approval
            BY <3>1, <3>2, <3>3, <3>4, <4>1
        <4> QED
            BY <1>0, <4>1, <4>2 DEF ReadyIsApproved
      <3>6. CASE ClaimQueues(d, x)
        <4>0. PICK n : n = Len(runs) + 1
            OBVIOUS
        <4>1. /\ DOMAIN runs' = DOMAIN runs \cup {n}
              /\ \A r \in DOMAIN runs : launch'[r] = launch[r]
            BY <3>2, <3>6, <4>0, QueueRows
        <4>2. ASSUME NEW r \in DOMAIN runs, runs'[r].status = "queued"
              PROVE  runs[r].occ # i /\ runs[r].status = "queued"
          <5> DEFINE y == [runs[r] EXCEPT !.status = "cancelled"]
          <5>1. y.status = "cancelled"
            <6>1. runs \in Seq(RunRows)
                BY DEF Typed
            <6>2. runs[r] \in RunRows
                BY <6>1
            <6> QED
                BY <6>2 DEF RunRows
          <5>2. runs'[r] = IF /\ runs[r].occ = i /\ runs[r].status = "queued"
                              /\ runs[r].attempt < x.attempt
                             THEN y ELSE runs[r]
              BY <3>2, <3>6, QueueRows
          <5>3. runs[r].occ = i => runs[r].attempt < x.attempt
            <6>1. runs[r].occ \in DOMAIN occs
                  /\ runs[r].attempt \in 1..occs[runs[r].occ].attempt
                BY DEF Linked
            <6>2. x.attempt = o.attempt + 1
                BY <3>6 DEF ClaimQueues
            <6>3. occs[runs[r].occ].attempt \in Nat /\ runs[r].attempt \in Nat
                BY <6>1, Referents
            <6> QED
                BY <3>3, <6>1, <6>2, <6>3
          <5> HIDE DEF y
          <5> QED
              BY <4>2, <5>1, <5>2, <5>3
        <4>3. launch'[n] = IF Policy(d.auto).approval /\ o.approval # "approved"
                             THEN "approve" ELSE "ready"
            BY <3>2, <3>6, <4>0, QueueRows
        <4>4. runs'[n].occ = i /\ PolicyOf(n)' = Policy(d.auto)
          <5>1. runs'[n] = [occ |-> i, attempt |-> x.attempt,
                            status |-> "queued", started |-> FALSE]
              BY <3>2, <3>6, <4>0, QueueRows
          <5>2. runs'[n].occ = i
              BY <5>1
          <5>3. x.auto = d.auto /\ x.rev = autos[d.auto].rev
              BY <2>2, ClaimedRow
          <5> QED
              BY <3>2, <5>2, <5>3 DEF PolicyOf, AutoOf, RevisionOf, Policy
        <4>5. ASSUME NEW r \in DOMAIN runs, Fit(r)'
              PROVE  occs'[runs'[r].occ].approval = "approved"
          <5>1. runs[r].occ # i /\ runs[r].status = "queued"
              BY <4>2, <4>5
          <5>2. occs'[runs'[r].occ] = occs[runs[r].occ]
              BY <1>0, <3>1, <5>1
          <5>3. Fit(r)
              BY <1>0, <4>1, <4>5, <5>1, <5>2
          <5> QED
              BY <5>2, <5>3 DEF ReadyIsApproved
        <4>6. ASSUME Fit(n)' PROVE occs'[runs'[n].occ].approval = "approved"
            BY <3>2, <3>4, <4>3, <4>4, <4>6
        <4> QED
            BY <4>1, <4>5, <4>6 DEF ReadyIsApproved
      <3> QED
          BY <2>2, <3>5, <3>6
    <2> QED
        BY <1>2, <2>1, <2>2, ClaimEffects
  <1>3. ASSUME NEW r \in DOMAIN runs, RunAction(r) PROVE ReadyIsApproved'
    <2>1. PICK b, x, y, l : RunEffect(r, b, x, y, l)
        BY <1>3, RunEffects
    <2>2. /\ x.status = "claimed" =>
               \/ x.approval = "approved"
               \/ /\ occs[runs[r].occ].status = "claimed"
                  /\ x.approval = occs[runs[r].occ].approval
          /\ l = "ready" /\ y.status = "queued" => x.approval = "approved"
        BY <2>1 DEF RunEffect
    <2>3. /\ DOMAIN runs' = DOMAIN runs
          /\ \A o \in DOMAIN occs : occs'[o] = IF o = runs[r].occ THEN x ELSE occs[o]
          /\ \A s \in DOMAIN runs : runs'[s] = IF s = r THEN y ELSE runs[s]
          /\ \A s \in DOMAIN runs : launch'[s] = IF s = r THEN l ELSE launch[s]
        BY <2>1, RunStepRows
    <2>4. ASSUME NEW s \in DOMAIN runs, Fit(s)'
          PROVE  occs'[runs'[s].occ].approval = "approved"
      <3>1. CASE s = r
          BY <1>0, <2>2, <2>3, <2>4, <3>1
      <3>2. CASE s # r /\ runs[s].occ = runs[r].occ
          BY <1>0, <2>2, <2>3, <2>4, <3>2 DEF ReadyIsApproved
      <3>3. CASE s # r /\ runs[s].occ # runs[r].occ
          BY <1>0, <2>3, <2>4, <3>3 DEF ReadyIsApproved
      <3> QED
          BY <3>1, <3>2, <3>3
    <2> QED
        BY <2>3, <2>4 DEF ReadyIsApproved
  <1>4. ASSUME NEW i \in DOMAIN occs, LeaseExpires(i) \/ BackoffEnds(i)
        PROVE  ReadyIsApproved'
    <2>1. /\ UNCHANGED <<runs, launch>>
          /\ \A o \in DOMAIN occs : /\ occs'[o].status = occs[o].status
                                    /\ occs'[o].approval = occs[o].approval
        BY <1>4, TimerRows
    <2> QED
        BY <1>0, <2>1 DEF ReadyIsApproved
  <1>5. CASE Restart
    <2>1. DOMAIN runs' = DOMAIN runs /\ \A r \in DOMAIN runs : launch'[r] = "none"
        BY <1>5, RestartRows
    <2> QED
        BY <2>1 DEF ReadyIsApproved
  <1>6. CASE Quiet
    <2>1. UNCHANGED <<occs, runs, launch>>
        BY <1>6, QuietRows
    <2> QED
        BY <1>0, <2>1 DEF ReadyIsApproved
  <1> QED
      BY <1>1, <1>2, <1>3, <1>4, <1>5, <1>6, StepCases

(* The definitions and the approvals that starts rely on.                  *)
LEMMA AuthorityCorrect ==
    Spec => [](Typed /\ Linked /\ ClaimsAreCurrent /\ ReadyIsApproved)
  <1>1. Init => ClaimsAreCurrent /\ ReadyIsApproved
      BY DEF Init, ClaimsAreCurrent, ReadyIsApproved
  <1>2. /\ Typed /\ Linked /\ ClaimsAreCurrent /\ ReadyIsApproved
        /\ [Next]_vars
        => ClaimsAreCurrent' /\ ReadyIsApproved'
      BY CurrentStep, ApprovedStep
  <1> QED
      BY <1>1, <1>2, TablesCorrect, PTL DEF Spec

(* Only the start of a run starts it.                                      *)
LEMMA StartSteps ==
    ASSUME Typed, Linked, [Next]_vars, NEW r \in DOMAIN runs,
           runs'[r].started, ~runs[r].started
    PROVE  /\ launch[r] = "ready" /\ runs[r].status = "queued"
           /\ occs[runs[r].occ].status = "claimed"
  <1>1. ASSUME NEW a \in Automations, NEW enabled \in BOOLEAN, SaveAutomation(a, enabled)
        PROVE  FALSE
    <2>1. SameAttempt(runs'[r], runs[r])
        BY <1>1, SaveRows
    <2> QED
        BY <2>1 DEF SameAttempt
  <1>2. ASSUME NEW d \in dues, Claim(d) PROVE FALSE
    <2>1. ASSUME NEW b, NEW x, ClaimWrites(d, b, x), ClaimQueues(d, x) PROVE FALSE
      <3>1. x \in OccRows
          BY <2>1, ClaimedRow
      <3>2. SameAttempt(runs'[r], runs[r])
          BY <2>1, <3>1, QueueRows
      <3> QED
          BY <3>2 DEF SameAttempt
    <2>2. ASSUME NEW x, ClaimRests(d, x) PROVE FALSE
        BY <2>2 DEF ClaimRests
    <2> QED
        BY <1>2, <2>1, <2>2, ClaimEffects
  <1>3. ASSUME NEW s \in DOMAIN runs, RunAction(s)
        PROVE  /\ launch[r] = "ready" /\ runs[r].status = "queued"
               /\ occs[runs[r].occ].status = "claimed"
    <2>1. PICK b, x, y, l : RunEffect(s, b, x, y, l)
        BY <1>3, RunEffects
    <2>2. y.started /\ ~runs[s].started =>
            /\ launch[s] = "ready" /\ runs[s].status = "queued"
            /\ occs[runs[s].occ].status = "claimed"
        BY <2>1 DEF RunEffect
    <2>3. runs'[r] = IF r = s THEN y ELSE runs[r]
        BY <2>1, RunStepRows
    <2> QED
        BY <2>2, <2>3
  <1>4. ASSUME NEW i \in DOMAIN occs, LeaseExpires(i) \/ BackoffEnds(i) PROVE FALSE
      BY <1>4, TimerRows
  <1>5. CASE Restart
    <2>1. SameAttempt(runs'[r], runs[r])
        BY <1>5, RestartRows
    <2> QED
        BY <2>1 DEF SameAttempt
  <1>6. CASE Quiet
      BY <1>6, QuietRows
  <1> QED
      BY <1>1, <1>2, <1>3, <1>4, <1>5, <1>6, StepCases

(* No run starts under a revision that was saved over, under a disabled    *)
(* definition, or without the approval its revision asks for, whatever     *)
(* was saved, approved, retried or restarted since it was claimed.         *)
THEOREM OnlyAuthorisedStarts == Spec => StartsAreAuthorised
  <1>1. ASSUME Typed, Linked, ClaimsAreCurrent, ReadyIsApproved, [Next]_vars,
               NEW r \in DOMAIN runs, runs'[r].started, ~runs[r].started
        PROVE  /\ autos[AutoOf(r)].enabled
               /\ RevisionOf(r) = autos[AutoOf(r)].rev
               /\ Policy(AutoOf(r)).approval => occs[runs[r].occ].approval = "approved"
    <2>1. /\ launch[r] = "ready" /\ runs[r].status = "queued"
          /\ occs[runs[r].occ].status = "claimed"
        BY <1>1, StartSteps
    <2>2. runs[r].occ \in DOMAIN occs
        BY <1>1 DEF Linked
    <2>3. autos[AutoOf(r)].enabled /\ RevisionOf(r) = autos[AutoOf(r)].rev
        BY <1>1, <2>1, <2>2 DEF ClaimsAreCurrent, AutoOf, RevisionOf
    <2>4. Policy(AutoOf(r)) = PolicyOf(r)
        BY <2>3 DEF Policy, PolicyOf
    <2> QED
        BY <1>1, <2>1, <2>3, <2>4 DEF ReadyIsApproved
  <1>2. /\ Typed /\ Linked /\ ClaimsAreCurrent /\ ReadyIsApproved
        /\ [Next]_vars
        => [\A r \in DOMAIN runs :
              runs'[r].started /\ ~runs[r].started =>
                /\ autos[AutoOf(r)].enabled
                /\ RevisionOf(r) = autos[AutoOf(r)].rev
                /\ Policy(AutoOf(r)).approval =>
                     occs[runs[r].occ].approval = "approved"]_vars
      BY <1>1
  <1> QED
      BY <1>2, AuthorityCorrect, PTL DEF Spec, StartsAreAuthorised

-----------------------------------------------------------------------------
(*                      One execution per occurrence                       *)

(* A step that starts no run and leaves a consumed occurrence consumed.    *)
LEMMA ConsumedKept ==
    ASSUME Linked, StartedIsConsumed, overtaken \subseteq overtaken',
           \A r \in DOMAIN runs' : runs'[r].started =>
             r \in DOMAIN runs /\ runs[r].started /\ runs'[r].occ = runs[r].occ,
           \A r \in DOMAIN runs :
             runs[r].started /\ runs[r].occ \notin overtaken'
               /\ occs[runs[r].occ].status \in Consumed =>
             occs'[runs[r].occ].status \in Consumed
    PROVE  StartedIsConsumed'
  BY DEF StartedIsConsumed

LEMMA ConsumedStep ==
    ASSUME Typed, Linked, StartedIsConsumed, [Next]_vars
    PROVE  StartedIsConsumed'
  <1>0. \A r \in DOMAIN runs : runs[r].occ \in DOMAIN occs
      BY DEF Linked
  <1>1. ASSUME NEW a \in Automations, NEW enabled \in BOOLEAN, SaveAutomation(a, enabled)
        PROVE  StartedIsConsumed'
    <2>1. DOMAIN runs' = DOMAIN runs /\ overtaken' = overtaken
        BY <1>1, SaveRows DEF SaveAutomation
    <2>2. \A r \in DOMAIN runs : SameAttempt(runs'[r], runs[r])
        BY <1>1, SaveRows
    <2>3. \A o \in DOMAIN occs : occs'[o].status \in {occs[o].status, "cancelled"}
        BY <1>1, SaveStatuses
    <2> QED
        BY <1>0, <2>1, <2>2, <2>3, ConsumedKept DEF SameAttempt, Consumed, Final
  <1>2. ASSUME NEW d \in dues, Claim(d) PROVE StartedIsConsumed'
    <2>0. overtaken' = overtaken
        BY <1>2, ClaimEffects
    <2>1. CASE UNCHANGED <<autos, occs, runs, launch>>
        BY <2>0, <2>1, ConsumedKept
    <2>2. ASSUME NEW b, NEW x, ClaimWrites(d, b, x), ClaimRests(d, x) \/ ClaimQueues(d, x)
          PROVE  StartedIsConsumed'
      <3> DEFINE i == Prepared(d)
                 o == PreparedOccs(d)[i]
      <3>1. \A j \in DOMAIN occs : j # i => occs'[j] = occs[j]
          BY <2>2, ClaimRows
      <3>2. occs'[i] = x /\ x \in OccRows
          BY <2>2, ClaimedRow
      <3>3. i \in DOMAIN occs => o = occs[i]
          BY PreparedBefore
      <3>4. o.status \in Consumed => x.status \in Consumed
          BY <2>2 DEF ClaimRests, ClaimQueues
      <3>5. \A r \in DOMAIN runs : occs[runs[r].occ].status \in Consumed =>
                                   occs'[runs[r].occ].status \in Consumed
          BY <1>0, <3>1, <3>2, <3>3, <3>4
      <3>6. CASE ClaimRests(d, x)
        <4>1. UNCHANGED runs
            BY <3>6 DEF ClaimRests
        <4> QED
            BY <2>0, <3>5, <4>1, ConsumedKept
      <3>7. CASE ClaimQueues(d, x)
        <4>0. PICK n : n = Len(runs) + 1
            OBVIOUS
        <4>1. /\ DOMAIN runs' = DOMAIN runs \cup {n}
              /\ \A r \in DOMAIN runs : SameAttempt(runs'[r], runs[r])
            BY <3>2, <3>7, <4>0, QueueRows
        <4>2. runs'[n] = [occ |-> i, attempt |-> x.attempt,
                          status |-> "queued", started |-> FALSE]
            BY <3>2, <3>7, <4>0, QueueRows
        <4>3. \A r \in DOMAIN runs' : runs'[r].started =>
                r \in DOMAIN runs /\ runs[r].started /\ runs'[r].occ = runs[r].occ
            BY <4>1, <4>2 DEF SameAttempt
        <4> QED
            BY <2>0, <3>5, <4>3, ConsumedKept
      <3> QED
          BY <2>2, <3>6, <3>7
    <2> QED
        BY <1>2, <2>1, <2>2, ClaimEffects
  <1>3. ASSUME NEW r \in DOMAIN runs, RunAction(r) PROVE StartedIsConsumed'
    <2> DEFINE i == runs[r].occ
    <2>1. PICK b, x, y, l : RunEffect(r, b, x, y, l)
        BY <1>3, RunEffects
    <2>2. /\ y.occ = i
          /\ y.started /\ ~runs[r].started =>
               occs[i].status = "claimed" /\ x.status \in Consumed
          /\ overtaken \subseteq overtaken'
          /\ i \notin overtaken' /\ occs[i].status \in Consumed => x.status \in Consumed
        BY <2>1 DEF RunEffect
    <2>3. /\ DOMAIN runs' = DOMAIN runs
          /\ \A o \in DOMAIN occs : occs'[o] = IF o = i THEN x ELSE occs[o]
          /\ \A s \in DOMAIN runs : runs'[s] = IF s = r THEN y ELSE runs[s]
        BY <2>1, RunStepRows
    <2>4. \A s \in DOMAIN runs : runs'[s].occ = runs[s].occ
        BY <2>2, <2>3
    <2>5. CASE y.started /\ ~runs[r].started
      <3>1. occs[i].status \notin Consumed
          BY <2>2, <2>5 DEF Consumed, Final
      <3>2. ASSUME NEW s \in DOMAIN runs, runs[s].started, runs[s].occ \notin overtaken
            PROVE  runs[s].occ # i
          BY <3>1, <3>2 DEF StartedIsConsumed
      <3>3. ASSUME NEW s \in DOMAIN runs, runs'[s].started, runs'[s].occ \notin overtaken'
            PROVE  /\ occs'[runs'[s].occ].status \in Consumed
                   /\ \A t \in DOMAIN runs :
                        runs'[t].started /\ runs'[t].occ = runs'[s].occ => t = s
        <4>1. CASE s = r
            BY <1>0, <2>2, <2>3, <2>4, <2>5, <3>2, <3>3, <4>1
        <4>2. CASE s # r
          <5>1. runs[s].started /\ runs[s].occ \notin overtaken /\ runs[s].occ # i
              BY <2>2, <2>3, <2>4, <3>2, <3>3, <4>2
          <5> QED
              BY <1>0, <2>3, <2>4, <5>1 DEF StartedIsConsumed
        <4> QED
            BY <4>1, <4>2
      <3> QED
          BY <2>3, <3>3 DEF StartedIsConsumed
    <2>6. CASE ~(y.started /\ ~runs[r].started)
      <3>1. \A s \in DOMAIN runs' : runs'[s].started =>
              s \in DOMAIN runs /\ runs[s].started /\ runs'[s].occ = runs[s].occ
          BY <2>3, <2>4, <2>6
      <3>2. \A s \in DOMAIN runs :
              runs[s].occ \notin overtaken' /\ occs[runs[s].occ].status \in Consumed =>
              occs'[runs[s].occ].status \in Consumed
          BY <1>0, <2>2, <2>3
      <3> QED
          BY <2>2, <3>1, <3>2, ConsumedKept
    <2> QED
        BY <2>5, <2>6
  <1>4. ASSUME NEW i \in DOMAIN occs, LeaseExpires(i) \/ BackoffEnds(i)
        PROVE  StartedIsConsumed'
    <2>1. /\ UNCHANGED <<runs, overtaken>>
          /\ \A o \in DOMAIN occs : occs'[o].status = occs[o].status
        BY <1>4, TimerRows
    <2> QED
        BY <1>0, <2>1, ConsumedKept
  <1>5. CASE Restart
    <2>1. DOMAIN runs' = DOMAIN runs /\ \A r \in DOMAIN runs : SameAttempt(runs'[r], runs[r])
        BY <1>5, RestartRows
    <2>2. \A o \in DOMAIN occs : occs'[o].status \in {occs[o].status, "cancelled"}
        BY <1>5, RestartStatuses
    <2>3. overtaken' = overtaken
        BY <1>5 DEF Restart
    <2> QED
        BY <1>0, <2>1, <2>2, <2>3, ConsumedKept DEF SameAttempt, Consumed, Final
  <1>6. CASE Quiet
    <2>1. UNCHANGED <<occs, runs, overtaken>>
        BY <1>6, QuietRows
    <2> QED
        BY <2>1, ConsumedKept
  <1> QED
      BY <1>1, <1>2, <1>3, <1>4, <1>5, <1>6, StepCases

(* One started run at most is a set of at most one.                        *)
LEMMA ConsumedGivesOne == ASSUME StartedIsConsumed PROVE OneExecution
  <1> SUFFICES ASSUME NEW o \in DOMAIN occs \ overtaken
               PROVE  Cardinality({r \in RunsOf(o) : runs[r].started}) <= 1
      BY DEF OneExecution
  <1> DEFINE S == {r \in RunsOf(o) : runs[r].started}
  <1>1. CASE S = {}
      BY <1>1, FS_EmptySet
  <1>2. CASE S # {}
    <2>1. PICK r \in S : TRUE
        BY <1>2
    <2>2. S = {r}
        BY <2>1 DEF StartedIsConsumed, RunsOf
    <2>3. Cardinality({r}) = 1
        BY FS_Singleton
    <2> QED
        BY <2>2, <2>3
  <1> QED
      BY <1>1, <1>2

(* Two ticks, `Due now`, an expired lease, retries and restarts never make *)
(* one occurrence run twice, for any number of attempts, due runs and      *)
(* fire times; the exception is a launch failure that no lease fences.     *)
THEOREM OccurrenceRunsOnce == Spec => []OneExecution
  <1>1. Init => StartedIsConsumed
      BY DEF Init, StartedIsConsumed
  <1>2. Typed /\ Linked /\ StartedIsConsumed /\ [Next]_vars => StartedIsConsumed'
      BY ConsumedStep
  <1>3. StartedIsConsumed => OneExecution
      BY ConsumedGivesOne
  <1> QED
      BY <1>1, <1>2, <1>3, TablesCorrect, PTL DEF Spec
=============================================================================
