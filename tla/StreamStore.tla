----------------------------- MODULE StreamStore -----------------------------
(***************************************************************************)
(* The window's live projection of one Agent Run: streamStore with the     *)
(* ordering buffer (streaming/ordering.ts), the recovery of missing events *)
(* from the ledger (runReconciliation.ts), the stall watchdog and the      *)
(* hydration of a reloaded window (durableReplay.ts).                      *)
(*                                                                         *)
(* The backend is external: it numbers events, commits the durable ones    *)
(* and only then sends an event to the window, which may lose it.  (That   *)
(* is what RunEventOutbox shows of the outbox: DeliveredInOrder and        *)
(* DeliveredIsDurable.)  Previews and the terminal of a run that failed    *)
(* closed are sent but never stored.                                       *)
(*                                                                         *)
(* One conversation and one run: the guards that compare run identifiers   *)
(* always succeed here.                                                    *)
(***************************************************************************)
EXTENDS Integers, Sequences, FiniteSets, FiniteSetsExt, SequencesExt

CONSTANTS
    Plans,          \* bound: the runs considered, as sequences of event kinds
    PageSize,       \* rows of one recovery page
    MaxAttempts,    \* MAX_GAP_RECOVERY_ATTEMPTS
    MaxFaults,      \* bound: queries that fail or outlive their deadline
    MaxReloads      \* bound: reloads of the window and restarts of the stream

(* Progress that is stored and progress that is not, the two that suspend  *)
(* and reopen a run, and its end, stored or not.                           *)
Kinds == {"text", "preview", "suspend", "resume", "done", "failed"}

ASSUME StreamAssumption ==
    /\ Plans \subseteq Seq(Kinds) /\ MaxFaults \in Nat /\ MaxReloads \in Nat
    /\ PageSize \in Nat \ {0} /\ MaxAttempts \in Nat \ {0}
    \* nothing follows the end of a run (TerminalEndsStream of RunEventOutbox)
    /\ \A plan \in Plans : \A i \in 1..Len(plan) :
            plan[i] \in {"done", "failed"} => i = Len(plan)

VARIABLES
    log,        \* the run's events by sequence number (external)
    wire,       \* events sent, neither delivered to the window nor lost
    stream,     \* InternalStreamState of the conversation
    launching,  \* the launch handshake has not returned yet
    reader,     \* the three procedures that read the ledger
    queries,    \* DurableRunReconciler.inFlight: run-event pages
    runsQuery,  \* the same for the list of task runs
    shown,      \* history: events applied to the projection, in order
    hidden,     \* history: events consumed while nothing was streaming
    late,       \* history: a page older than the live events it vouched for
    faults, reloads      \* bounds

windowVars == <<stream, launching, reader, queries, runsQuery>>
historyVars == <<shown, hidden, late>>
boundVars == <<faults, reloads>>
vars == <<log, wire, windowVars, historyVars, boundVars>>
----------------------------------------------------------------------------
(*                       Events and the ledger                             *)

(* persistence: "failed" is the terminal event of fail_closed.             *)
IsDurable(k) == k \notin {"preview", "failed"}

(* classifyAgentRunEventLifecycle.                                         *)
IsTerminal(k) == k \in {"done", "failed"}
IsSuspension(k) == k = "suspend"
IsResume(k) == k = "resume"

Durable == {n \in DOMAIN log : IsDurable(log[n])}
Ended == \E n \in DOMAIN log : IsTerminal(log[n])
Highest(S) == Max(S \cup {0})

(* The task row that listTaskRuns returns: taskRunIsActive,                *)
(* taskRunIsSuspended, or one of the final statuses.  The row is taken to  *)
(* stay final once the run has ended, although a late progress write can   *)
(* set it back to running (FailClosedStaysClosed of RunEventOutbox).       *)
TaskStatus ==
    LET marks == {n \in DOMAIN log : IsSuspension(log[n]) \/ IsResume(log[n])}
    IN  CASE Ended -> "terminal"
          [] ~Ended /\ marks # {} /\ IsSuspension(log[Highest(marks)]) -> "suspended"
          [] OTHER -> "active"

(* list_agent_run_event_page: the first request freezes the ledger head.   *)
NoMark == -1
NoPage == [rows |-> {}, high |-> NoMark, more |-> FALSE, seen |-> 0]

FirstRows(S) == {n \in S : Cardinality({m \in S : m < n}) < PageSize}

PageAfter(cursor, mark) ==
    LET high == IF mark = NoMark THEN Highest(Durable) ELSE mark
        rows == {n \in Durable : cursor < n /\ n <= high}
    IN  [rows |-> FirstRows(rows), high |-> high,
         more |-> FirstRows(rows) # rows, seen |-> Len(log)]

(* The backend produces the next event; it is sent to the window, or lost. *)
Emit(k, lost) ==
    /\ \E plan \in Plans : IsPrefix(Append(log, k), plan)
    /\ log' = Append(log, k)
    /\ wire' = IF lost THEN wire ELSE wire \cup {Len(log) + 1}
    /\ UNCHANGED <<windowVars, historyVars, boundVars>>
----------------------------------------------------------------------------
(*                       The window's state                                *)

(* createDefaultState; "timer" is an armed watchdog, "visible" what        *)
(* stateHasVisiblePreview answers.                                         *)
Absent == [present |-> FALSE, bound |-> FALSE, streaming |-> FALSE, last |-> 0,
           pending |-> {}, timer |-> FALSE, visible |-> FALSE]
Fresh == [Absent EXCEPT !.present = TRUE, !.streaming = TRUE]

(* What a reader remembers across its awaits: the cursor and the frozen    *)
(* mark of its pages, the live events it has vouched for, the attempt, the *)
(* rows collected and the task status it read; "got" that its query was    *)
(* answered.  "generation" compares _watchdogGeneration of the state with  *)
(* the one the watchdog fired in: the same, past it, or still behind it    *)
(* because a new state object starts to count from zero.  "bound" says     *)
(* that the watchdog expects a run identifier.                             *)
Readers == {"gap", "watchdog", "hydration"}
Idle == [pc |-> "idle", cursor |-> 0, mark |-> NoMark, live |-> 0, attempt |-> 0,
         rows |-> {}, status |-> "none", page |-> NoPage, got |-> FALSE,
         generation |-> "past", bound |-> FALSE, seen |-> 0, after |-> 0, present |-> FALSE, streaming |-> FALSE]

Init ==
    /\ log = <<>> /\ wire = {}
    /\ stream = [Fresh EXCEPT !.timer = TRUE]
    /\ launching = TRUE
    /\ reader = [p \in Readers |-> Idle]
    /\ queries = {} /\ runsQuery = "none"
    /\ shown = <<>> /\ hidden = {} /\ late = FALSE
    /\ faults = 0 /\ reloads = 0

(* query: a request for a page already under way is joined.                *)
Join(qs, cursor, mark) ==
    IF \E q \in qs : q.cursor = cursor /\ q.mark = mark
    THEN qs
    ELSE qs \cup {[cursor |-> cursor, mark |-> mark, read |-> FALSE, page |-> NoPage]}

(* recoverMissingRunEvents: one gap recovery at a time.  It starts its     *)
(* first attempt at once: pendingHighWater is read before the query.       *)
LiveThrough(s, after) == IF s.pending = {} THEN after ELSE Max(s.pending)

Attempt(s, n, after) ==
    [Idle EXCEPT !.pc = "page", !.attempt = n, !.cursor = after, !.after = after,
                 !.live = LiveThrough(s, after)]

RecoverGap(s, rs) ==
    IF rs["gap"].pc = "idle"
    THEN /\ reader' = [rs EXCEPT !["gap"] = Attempt(s, 0, s.last)]
         /\ queries' = Join(queries, s.last, NoMark)
    ELSE reader' = rs /\ UNCHANGED queries

(* isCurrent of recoverRunEventGap, for one run.                           *)
GapIsCurrent == stream.present /\ (stream.bound \/ stream.pending # {})

----------------------------------------------------------------------------
(*                       Applying events in order                          *)

(* takeNextStreamRunEvent, repeated: the events that follow the cursor.    *)
Following(last, S) == {n \in S : last < n /\ last+1..n \subseteq S}

(* applyOrderedRunEvent stops at a terminal event ...                      *)
Processed(R) == {n \in R : \A t \in R : IsTerminal(log[t]) => n <= t}

(* ... and shows an event only while the projection is streaming, unless   *)
(* the event ends or reopens it.                                           *)
StreamingAt(R, n, before) ==
    LET marks == {m \in R : m < n /\ (IsSuspension(log[m]) \/ IsResume(log[m]))}
    IN  IF marks = {} THEN before ELSE IsResume(log[Max(marks)])

Shows(R, before) ==
    {n \in Processed(R) : \/ StreamingAt(R, n, before)
                          \/ IsTerminal(log[n]) \/ IsResume(log[n])}

EndsWith(R) == \E t \in R : IsTerminal(log[t])

(* What the events R leave behind once they are consumed up to last: the   *)
(* state, the events shown and the events hidden.                          *)
Outcome(s, R, last, pending) ==
    LET show == Shows(R, s.streaming)
        streaming == ~EndsWith(R)
                     /\ StreamingAt(Processed(R), Highest(R) + 1, s.streaming)
    IN  [stream |-> [s EXCEPT !.last = last,
                              !.pending = IF EndsWith(R) THEN {} ELSE pending,
                              !.streaming = streaming,
                              !.timer = streaming /\ (s.timer \/ show # {}),
                              !.visible = s.visible \/ show # {}],
         show |-> show,
         hide |-> Processed(R) \ show]

(* The events of a set, in the order of their numbers.                     *)
InOrder(S) ==
    CHOOSE q \in Surjection(1..Cardinality(S), S) :
        \A i, j \in DOMAIN q : i < j => q[i] < q[j]

Record(o) ==
    /\ shown' = shown \o InOrder(o.show)
    /\ hidden' = hidden \cup o.hide

(* resetTimeout, called for every event shown, starts a new generation of  *)
(* the watchdog.  How far a new state's counter is behind is not kept, so  *)
(* it may stay behind, meet the old number or pass it.                     *)
Generations == {"same", "past", "behind"}
NewGeneration(rs) ==
    {[rs EXCEPT !["watchdog"].generation = g] :
        g \in IF rs["watchdog"].generation = "behind" THEN Generations ELSE {"past"}}
Reset(o, rs) == IF o.show = {} THEN {rs} ELSE NewGeneration(rs)

(* createDefaultState: the state object is replaced by a new one.          *)
NewState(rs) ==
    IF rs["watchdog"].pc = "idle" THEN rs
    ELSE [rs EXCEPT !["watchdog"].generation = "behind"]

(* takeAuthoritativeRunEventSuffix: the rows of a page are merged with the *)
(* live events that the page vouches for, the cursor moves over the        *)
(* numbers that are in neither, and the other live events wait.  Every row *)
(* is at most "through".                                                   *)
AllPending(s, complete, through) == s.pending      \* mutant of Vouched
Vouched(s, complete, through) ==
    IF complete THEN {n \in s.pending : n <= through} ELSE {}

(* applyAuthoritativeRunEventSuffix.                                       *)
RepeatedSuffix(s, rows, complete, through) ==      \* mutant of Suffix
    Outcome(s, rows, Highest({s.last} \cup rows), s.pending)
Suffix(s, rows, complete, through) ==
    LET base == {n \in rows \cup Vouched(s, complete, through) : n > s.last}
        R == base \cup Following(Highest({s.last} \cup base), s.pending)
        last == Highest({s.last} \cup R)
    IN  Outcome(s, R, last, {n \in s.pending : n > last})

(* dispatch: one live event reaches the window.                            *)
DispatchInOrder(s, n) ==
    LET R == Following(s.last, s.pending \cup {n})
    IN  Outcome(s, R, Max(R), (s.pending \cup {n}) \ R)

Dispatch(n) ==
    LET s == IF stream.present THEN stream ELSE Fresh
    IN  /\ n \in wire /\ n = Min(wire)
        /\ wire' = wire \ {n}
        /\ \/ /\ n <= s.last \/ n \in s.pending
              /\ stream' = s
              /\ UNCHANGED <<reader, queries, shown, hidden>>
           \/ /\ n = s.last + 1
              /\ \E o \in {DispatchInOrder(s, n)} :
                   stream' = o.stream /\ Record(o) /\ reader' \in Reset(o, reader)
              /\ UNCHANGED queries
           \/ /\ n > s.last + 1 /\ n \notin s.pending
              /\ stream' = [s EXCEPT !.pending = @ \cup {n}]
              /\ RecoverGap(stream', reader)
              /\ UNCHANGED <<shown, hidden>>
        /\ UNCHANGED <<log, launching, runsQuery, late, boundVars>>

(* bindTurnHandle: the launch handshake returns.                           *)
BindTurnHandle ==
    LET s == [stream EXCEPT !.bound = TRUE, !.timer = stream.streaming]
    IN  /\ launching /\ log # <<>>
        /\ launching' = FALSE
        /\ stream' = s
        /\ \E rs \in IF s.streaming THEN NewGeneration(reader) ELSE {reader} :
             IF s.streaming /\ s.pending # {}
             THEN RecoverGap(s, rs)
             ELSE reader' = rs /\ UNCHANGED queries
        /\ UNCHANGED <<log, wire, runsQuery, historyVars, boundVars>>

(* sendError: the launch fails.                                            *)
SendError ==
    /\ launching /\ log = <<>>
    /\ launching' = FALSE
    /\ stream' = [stream EXCEPT !.streaming = FALSE, !.timer = FALSE, !.visible = TRUE]
    /\ UNCHANGED <<log, wire, reader, queries, runsQuery, historyVars, boundVars>>

(* recordHeartbeat: the outbox has processed more than the window has.     *)
Heartbeat ==
    /\ stream.streaming /\ stream.bound /\ ~Ended
    /\ Len(log) > stream.last /\ reader["gap"].pc = "idle"
    /\ RecoverGap(stream, reader)
    /\ UNCHANGED <<log, wire, stream, launching, runsQuery, historyVars, boundVars>>

(* The stop command has returned: markResumableSuspension.                 *)
MarkResumableSuspension ==
    /\ stream.streaming /\ ~launching /\ TaskStatus = "suspended"
    /\ stream' = [stream EXCEPT !.streaming = FALSE, !.timer = FALSE]
    /\ UNCHANGED <<log, wire, launching, reader, queries, runsQuery,
                   historyVars, boundVars>>

(* startStream, as the user continues a suspended run.  A restore that is  *)
(* pending is dropped; a hydration that still loads its pages goes on.     *)
StartStream ==
    /\ ~launching /\ ~stream.streaming /\ TaskStatus = "suspended"
    /\ reloads < MaxReloads
    /\ reloads' = reloads + 1
    /\ stream' = [Fresh EXCEPT !.timer = TRUE]
    /\ launching' = TRUE
    /\ reader' \in NewGeneration(NewState(
                     IF reader["hydration"].pc = "project"
                     THEN [reader EXCEPT !["hydration"] = Idle] ELSE reader))
    /\ shown' = <<>> /\ hidden' = {}
    /\ UNCHANGED <<log, wire, queries, runsQuery, late, faults>>

(* The window is reloaded: its memory and the events on their way are lost.*)
Reload ==
    /\ reloads < MaxReloads
    /\ reloads' = reloads + 1
    /\ stream' = Absent /\ launching' = FALSE /\ wire' = {}
    /\ reader' = [p \in Readers |-> Idle]
    /\ queries' = {} /\ runsQuery' = "none"
    /\ shown' = <<>> /\ hidden' = {} /\ late' = FALSE
    /\ UNCHANGED <<log, faults>>
----------------------------------------------------------------------------
(*                       Queries and their deadlines                       *)

WaitsFor(p, q) ==
    /\ reader[p].pc = "page" /\ ~reader[p].got
    /\ reader[p].cursor = q.cursor /\ reader[p].mark = q.mark

(* The native read of a page takes its snapshot ...                        *)
ReadPage(q) ==
    /\ q \in queries /\ ~q.read
    /\ queries' = (queries \ {q}) \cup
                  {[q EXCEPT !.read = TRUE, !.page = PageAfter(q.cursor, q.mark)]}
    /\ UNCHANGED <<log, wire, stream, launching, reader, runsQuery,
                   historyVars, boundVars>>

(* ... and its answer goes to whoever waits for it.  An answer that nobody *)
(* waits for any more is kept for the next request of the same page.  The  *)
(* first reader to continue takes it, for the others it is "got".          *)
Answered(p) == {q \in queries : q.read /\ WaitsFor(p, q)}
Arrived(p) ==
    reader[p].pc = "page" /\ (reader[p].got \/ Answered(p) # {})

PageOf(p) ==
    IF reader[p].got THEN reader[p].page ELSE (CHOOSE q \in Answered(p) : TRUE).page

Taken(p) ==
    [r \in Readers |->
       IF r # p /\ \E q \in Answered(p) : WaitsFor(r, q)
       THEN [reader[r] EXCEPT !.page = PageOf(p), !.got = TRUE]
       ELSE reader[r]]

LeftAfter(p) == queries \ Answered(p)

(* The attempt of a gap recovery ends without closing the gap.  When it    *)
(* was the last one, the projection is ended with an error.                *)
GivenUpQuietly(s) == [s EXCEPT !.timer = FALSE]      \* mutant of GivenUp
GivenUp(s) == [s EXCEPT !.pending = {}, !.streaming = FALSE, !.timer = FALSE,
                        !.visible = TRUE]

LastAttemptLater(r) == r.attempt >= MaxAttempts      \* mutant of LastAttempt
LastAttempt(r) == r.attempt + 1 >= MaxAttempts

EndAttempt(r, after) ==
    IF LastAttempt(r) THEN Idle
    ELSE [Idle EXCEPT !.pc = "delay", !.attempt = r.attempt, !.after = after]

(* rearmWatchdogRecovery.                                                  *)
Rearmed(s) == [s EXCEPT !.timer = TRUE, !.visible = TRUE]

WatchdogIsCurrent ==
    /\ stream.present /\ stream.streaming
    /\ reader["watchdog"].generation = "same"
    /\ reader["watchdog"].bound => stream.bound

(* A query is rejected or its deadline passes: each of its readers         *)
(* catches the error.                                                      *)
Catches(p, s) ==
    CASE p = "gap" /\ GapIsCurrent /\ LastAttempt(reader[p]) -> GivenUp(s)
      [] p = "watchdog" /\ WatchdogIsCurrent -> Rearmed(s)
      [] OTHER -> s

AfterError(p) ==
    IF p = "gap" /\ GapIsCurrent THEN EndAttempt(reader[p], reader[p].after) ELSE Idle

Fail(P) ==
    /\ faults < MaxFaults
    /\ faults' = faults + 1
    /\ reader' = [p \in Readers |-> IF p \in P THEN AfterError(p) ELSE reader[p]]
    /\ stream' = LET s == IF "watchdog" \in P THEN Catches("watchdog", stream) ELSE stream
                 IN  IF "gap" \in P THEN Catches("gap", s) ELSE s
    /\ UNCHANGED <<log, wire, launching, historyVars, reloads>>

DeadlinePasses(p) ==
    /\ reader[p].pc \in {"page", "runs"} /\ ~reader[p].got
    /\ Fail({p})
    /\ UNCHANGED <<queries, runsQuery>>

PageQueryFails(q) ==
    /\ q \in queries /\ ~q.read
    /\ Fail({p \in Readers : WaitsFor(p, q)})
    /\ queries' = queries \ {q}
    /\ UNCHANGED runsQuery

RunsQueryFails ==
    /\ runsQuery = "open"
    /\ Fail({p \in {"watchdog"} : reader[p].pc = "runs"})
    /\ runsQuery' = "none"
    /\ UNCHANGED queries
----------------------------------------------------------------------------
(*                       Recovery of a gap                                 *)

PageEnd(r, page) == Highest({r.cursor} \cup page.rows)

(* The events that existed when the first page was read.                   *)
FirstSeen(r, page) == IF r.mark = NoMark THEN page.seen ELSE r.seen

Continued(r, page) ==
    [r EXCEPT !.cursor = PageEnd(r, page), !.mark = page.high,
              !.rows = @ \cup page.rows, !.page = NoPage, !.got = FALSE,
              !.seen = FirstSeen(r, page)]

(* Was the ledger read before the live events it is taken to vouch for, or *)
(* the suffix from a cursor that the projection has not reached (it was    *)
(* replaced)?                                                              *)
Outdated(r, page, from) == FirstSeen(r, page) < r.live \/ from > stream.last

(* recoverGap after the await of a page: accept, then the next page, the   *)
(* end of the recovery, or a further attempt.                              *)
Through(r, page) == Max({page.high, r.live})

AfterPage(r, page, o, rs) ==
    IF page.more
    THEN /\ reader' = [rs EXCEPT !["gap"] = Continued(r, page)]
         /\ queries' = Join(LeftAfter("gap"), PageEnd(r, page), page.high)
         /\ stream' = o.stream
    ELSE /\ queries' = LeftAfter("gap")
         /\ IF o.stream.pending = {}
            THEN reader' = [rs EXCEPT !["gap"] = Idle] /\ stream' = o.stream
            ELSE /\ reader' = [rs EXCEPT !["gap"] = EndAttempt(r, PageEnd(r, page))]
                 /\ stream' = IF LastAttempt(r) THEN GivenUp(o.stream) ELSE o.stream

GapPage ==
    /\ Arrived("gap") /\ GapIsCurrent
    /\ \E page \in {PageOf("gap")}, r \in {reader["gap"]} :
         \E o \in {Suffix(stream, page.rows, ~page.more, Through(r, page))} :
            /\ Record(o)
            /\ late' = (late \/ Outdated(r, page, r.cursor))
            /\ \E rs \in Reset(o, Taken("gap")) : AfterPage(r, page, o, rs)
    /\ UNCHANGED <<log, wire, launching, runsQuery, boundVars>>

(* The delay before the next attempt is over.                              *)
GapRetry ==
    LET r == reader["gap"]
    IN  /\ r.pc = "delay" /\ GapIsCurrent
        /\ reader' = [reader EXCEPT !["gap"] = Attempt(stream, r.attempt + 1, r.after)]
        /\ queries' = Join(queries, r.after, NoMark)
        /\ UNCHANGED <<log, wire, stream, launching, runsQuery, historyVars, boundVars>>

GapIsStale ==
    /\ Arrived("gap") \/ reader["gap"].pc = "delay"
    /\ ~GapIsCurrent
    /\ reader' = [Taken("gap") EXCEPT !["gap"] = Idle]
    /\ queries' = LeftAfter("gap")
    /\ UNCHANGED <<log, wire, stream, launching, runsQuery, historyVars, boundVars>>
----------------------------------------------------------------------------
(*                       The stall watchdog                                *)

(* recoverSuspectedStall: no event for two minutes, far longer than an     *)
(* event is on its way to the window.  The live events it                  *)
(* vouches for are read first, then the list of task runs, then the pages. *)
WatchdogFires ==
    /\ stream.timer /\ stream.streaming /\ reader["watchdog"].pc = "idle"
    /\ wire = {}
    /\ stream' = [stream EXCEPT !.timer = FALSE, !.visible = TRUE]
    /\ reader' = [reader EXCEPT !["watchdog"] =
                    [Idle EXCEPT !.pc = "runs", !.generation = "same",
                                 !.bound = stream.bound, !.cursor = stream.last, !.after = stream.last,
                                 !.live = IF stream.bound THEN LiveThrough(stream, 0)
                                          ELSE 0]]
    /\ runsQuery' = IF runsQuery = "none" THEN "open" ELSE runsQuery
    /\ UNCHANGED <<log, wire, launching, queries, historyVars, boundVars>>

ReadRuns ==
    /\ runsQuery = "open"
    /\ runsQuery' = TaskStatus
    /\ UNCHANGED <<log, wire, stream, launching, reader, queries,
                   historyVars, boundVars>>

WatchdogRuns ==
    LET r == reader["watchdog"]
    IN  /\ r.pc = "runs" /\ runsQuery \notin {"none", "open"}
        /\ runsQuery' = "none"
        /\ IF WatchdogIsCurrent
           THEN /\ reader' = [reader EXCEPT !["watchdog"].pc = "page",
                                            !["watchdog"].status = runsQuery]
                /\ queries' = Join(queries, r.cursor, NoMark)
           ELSE reader' = [reader EXCEPT !["watchdog"] = Idle] /\ UNCHANGED queries
        /\ UNCHANGED <<log, wire, stream, launching, historyVars, boundVars>>

(* listRunEventSuffix: collect the pages up to the frozen mark.            *)
NextPage(p) ==
    /\ Arrived(p) /\ PageOf(p).more
    /\ \E page \in {PageOf(p)}, r \in {reader[p]} :
         /\ reader' = [Taken(p) EXCEPT ![p] = Continued(r, page)]
         /\ queries' = Join(LeftAfter(p), PageEnd(r, page), page.high)
    /\ UNCHANGED <<log, wire, stream, launching, runsQuery, historyVars, boundVars>>

WatchdogNextPage == WatchdogIsCurrent /\ NextPage("watchdog")

WatchdogIsStale ==
    /\ Arrived("watchdog") /\ ~WatchdogIsCurrent
    /\ reader' = [Taken("watchdog") EXCEPT !["watchdog"] = Idle]
    /\ queries' = LeftAfter("watchdog")
    /\ UNCHANGED <<log, wire, stream, launching, runsQuery, historyVars, boundVars>>

(* The outcome of reconcile is applied: the suffix, then, if the stream    *)
(* still runs, what the task row said.  (A completed run's message is      *)
(* stored before its terminal event; a failure to load it is a failed      *)
(* query.)                                                                 *)
NotSettled(s, status) ==      \* mutant of Settled
    IF s.streaming THEN [s EXCEPT !.timer = TRUE] ELSE s
Settled(s, status) ==
    CASE ~s.streaming -> s
      [] s.streaming /\ status = "active" -> [s EXCEPT !.timer = TRUE]
      [] s.streaming /\ status # "active" ->
           [s EXCEPT !.streaming = FALSE, !.timer = FALSE,
                     !.visible = s.visible \/ status = "terminal"]

WatchdogThrough(r, rows) ==
    Max({r.live, IF rows = {} THEN stream.last ELSE Max(rows)})

WatchdogOutcome ==
    /\ Arrived("watchdog") /\ ~PageOf("watchdog").more /\ WatchdogIsCurrent
    /\ \E r \in {reader["watchdog"]}, page \in {PageOf("watchdog")} :
         \E rows \in {r.rows \cup page.rows} :
            \E o \in {Suffix(stream, rows, TRUE, WatchdogThrough(r, rows))} :
               /\ Record(o)
               /\ stream' = Settled(o.stream, r.status)
               /\ late' = (late \/ Outdated(r, page, r.after))
    /\ reader' = [Taken("watchdog") EXCEPT !["watchdog"] = Idle]
    /\ queries' = LeftAfter("watchdog")
    /\ UNCHANGED <<log, wire, launching, runsQuery, boundVars>>
----------------------------------------------------------------------------
(*                       Hydration                                         *)

(* A conversation is opened: the task runs are loaded, and the run's       *)
(* events from the first one on if it can continue.                        *)
BeginHydration ==
    /\ ~stream.streaming /\ ~stream.visible /\ ~launching
    /\ reader["hydration"].pc = "idle"
    /\ log # <<>> /\ TaskStatus # "terminal"
    /\ reader' = [reader EXCEPT !["hydration"] =
                    [Idle EXCEPT !.pc = "page", !.status = TaskStatus]]
    /\ queries' = Join(queries, 0, NoMark)
    /\ UNCHANGED <<log, wire, stream, launching, runsQuery, historyVars, boundVars>>

HydrationNextPage == NextPage("hydration")

(* restoreFromRunEvents: live delivery may be ahead of what was fetched.   *)
AdmitsAlways(rows) == TRUE      \* mutant of Admits
Admits(rows) ==
    \/ ~stream.present
    \/ /\ stream.last <= Highest(rows)
       /\ ~stream.visible
       /\ ~(stream.streaming /\ stream.bound)

AdmitHydration ==
    LET r == reader["hydration"]
        rows == r.rows \cup PageOf("hydration").rows
        admitted == [r EXCEPT !.pc = "project", !.rows = rows, !.page = NoPage,
                              !.got = FALSE, !.after = stream.last,
                              !.present = stream.present,
                              !.streaming = stream.streaming]
    IN  /\ Arrived("hydration") /\ ~PageOf("hydration").more
        /\ reader' = [Taken("hydration") EXCEPT !["hydration"] =
                        IF Admits(rows) THEN admitted ELSE Idle]
        /\ queries' = LeftAfter("hydration")
        /\ UNCHANGED <<log, wire, stream, launching, runsQuery,
                       historyVars, boundVars>>

(* ownsRestore: the projection yields between batches, and what it would   *)
(* replace may have moved meanwhile.                                       *)
OwnsRestore(r) ==
    /\ stream.present = r.present
    /\ stream.streaming = r.streaming
    /\ stream.last = r.after
    /\ ~(stream.streaming /\ (stream.bound \/ stream.visible))

(* restoreProjectedState: the rows, then the buffered live events that     *)
(* follow them without a gap.                                              *)
CommitHydration ==
    LET r == reader["hydration"]
        P == Processed(r.rows)
        top == Highest(P)
        B == IF EndsWith(P) THEN {} ELSE Processed(Following(top, stream.pending))
        last == Highest(P \cup B)
        running == r.status = "active" /\ ~EndsWith(P \cup B)
        rs == [reader EXCEPT !["hydration"] = Idle]
    IN  /\ r.pc = "project"
        /\ IF OwnsRestore(r)
           THEN /\ reader' \in IF running THEN NewGeneration(NewState(rs))
                               ELSE {NewState(rs)}
                /\ stream' = [Fresh EXCEPT
                    !.streaming = running, !.timer = running, !.last = last,
                    !.pending = IF EndsWith(P \cup B) THEN {}
                                ELSE {n \in stream.pending : n > last},
                    !.visible = (P \cup B # {})]
                /\ shown' = InOrder(P \cup B)
                /\ hidden' = {}
           ELSE reader' = rs /\ UNCHANGED <<stream, shown, hidden>>
        /\ UNCHANGED <<log, wire, launching, queries, runsQuery, late, boundVars>>
----------------------------------------------------------------------------
Recover ==
    \/ \E q \in queries : ReadPage(q)
    \/ GapPage \/ GapRetry \/ GapIsStale
    \/ ReadRuns \/ WatchdogFires \/ WatchdogRuns \/ WatchdogNextPage
    \/ WatchdogIsStale \/ WatchdogOutcome
    \/ HydrationNextPage \/ AdmitHydration \/ CommitHydration

CanRecover ==
    \/ \E q \in queries : ~q.read
    \/ runsQuery = "open"
    \/ reader["gap"].pc = "delay"
    \/ reader["watchdog"].pc = "runs" /\ runsQuery # "none"
    \/ reader["hydration"].pc = "project"
    \/ stream.timer /\ stream.streaming /\ reader["watchdog"].pc = "idle" /\ wire = {}
    \/ \E p \in Readers : Arrived(p)

Next ==
    \/ \E k \in Kinds, lost \in BOOLEAN : Emit(k, lost)
    \/ \E n \in wire : Dispatch(n)
    \/ BindTurnHandle \/ SendError \/ StartStream \/ Reload
    \/ Heartbeat \/ MarkResumableSuspension \/ BeginHydration
    \/ \E p \in Readers : DeadlinePasses(p)
    \/ \E q \in queries : PageQueryFails(q)
    \/ RunsQueryFails
    \/ Recover

(* The event loop runs its timers and continuations, and the database      *)
(* answers; what was sent and not lost reaches the window.  The first two  *)
(* are weak fairness with the enabling condition spelled out, which TLC    *)
(* evaluates faster: CanRecover is ENABLED <<Recover>>_vars.               *)
Fairness ==
    /\ []<>~CanRecover \/ []<><<Recover>>_vars
    /\ []<>(wire = {}) \/ []<><<\E n \in wire : Dispatch(n)>>_vars
    /\ WF_vars(BindTurnHandle)

Spec == Init /\ [][Next]_vars /\ Fairness
----------------------------------------------------------------------------
(*                       Properties                                        *)

(* The store's fields keep to their values; in particular a gap recovery   *)
(* never begins more than MAX_GAP_RECOVERY_ATTEMPTS attempts.              *)
TypeOK ==
    /\ log \in Seq(Kinds) /\ wire \subseteq DOMAIN log
    /\ stream \in [present : BOOLEAN, bound : BOOLEAN, streaming : BOOLEAN,
                   last : Nat, pending : SUBSET DOMAIN log, timer : BOOLEAN,
                   visible : BOOLEAN]
    /\ launching \in BOOLEAN /\ late \in BOOLEAN
    /\ \A p \in Readers :
         /\ reader[p].pc \in {"idle", "runs", "page", "delay", "project"}
         /\ reader[p].page.rows \subseteq DOMAIN log /\ reader[p].attempt < MaxAttempts
    /\ runsQuery \in {"none", "open", "active", "suspended", "terminal"}

(* What the user has been shown is in the order of the run and shows no    *)
(* event twice, however live events, pages and hydration interleave.       *)
ShownInOrder ==
    \A i, j \in DOMAIN shown : i < j => shown[i] < shown[j]

(* Behind the cursor no durable event is missing: it was applied, or it    *)
(* arrived while the projection was stopped.                               *)
NothingSkipped ==
    \A n \in Durable : n <= stream.last => n \in ToSet(shown) \cup hidden

(* The same, unless a page read before the live events arrived was taken   *)
(* to vouch for them: recoverGap joined a query already in flight.         *)
NothingSkippedInTime == ~late => NothingSkipped

(* A restore never replaces a projection by an older one: the cursor moves *)
(* back, and durable events disappear from view, only when the window is   *)
(* reloaded or a new stream is started.                                    *)
NeverRollsBack ==
    [][reloads' = reloads => /\ stream'.last >= stream.last
                             /\ Durable \cap ToSet(shown) \subseteq ToSet(shown')]_vars

(* A stream whose run has ended stops, whatever was lost on the way: the   *)
(* terminal event, a page or the watchdog settles it.                      *)
EndedIsSettled == Ended /\ stream.present ~> ~stream.streaming

(* A gap in the live events does not last: it is filled, skipped with the  *)
(* ledger's consent, or the stream is ended with an error.                 *)
GapIsResolved == stream.pending # {} ~> stream.pending = {}
=============================================================================
