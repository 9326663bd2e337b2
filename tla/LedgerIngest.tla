---------------------------- MODULE LedgerIngest ----------------------------
(***************************************************************************)
(* How the bill of one provider account becomes ledger entries:            *)
(* LedgerIngestService (src/src/ledger/service.ts), which chooses a time   *)
(* window, asks the provider for it piece by piece and reacts to what      *)
(* comes back, over the transactions of LedgerStore (store.ts).            *)
(*                                                                         *)
(* Time is in whole seconds, the resolution of a provider window.  The     *)
(* provider's clock is `real'; the process reads Local, which may lag      *)
(* behind it and be adjusted, but is never ahead of it.  A response is the *)
(* set of events the provider shows for a window when it answers; it is    *)
(* oversized when there are more than PageSize.                            *)
(***************************************************************************)
EXTENDS Integers, Sequences, FiniteSets

CONSTANTS
    Events,          \* the provider's events
    OccurredAt,      \* when each occurred, by the provider's clock
    Prompt,          \* the events the provider shows within the safety lag
    PageSize,        \* DEFAULT_ACCOUNT_LOG_PAGE_SIZE
    Lag,             \* safetyLagMilliseconds
    Window,          \* windowMilliseconds, the longest window
    Overlaps,        \* the overlaps a change of the settings can lead to
    Interval,        \* scanIntervalMilliseconds
    Sweeps,          \* the compensations, the longest first: [lookback, interval]
    Activated,       \* initialWindowStartMilliseconds
    MaxRequests,     \* maxRequestsPerRun
    RetryBase, MaxDelay, PermanentDelay,   \* recordIngestScheduleFailure
    RetryAfters,     \* the Retry-After hints an error can carry
    MaxFailures,     \* bound: consecutive failures counted
    Skews,           \* by how much the local clock can lag behind
    MaxTime, MaxFaults   \* bounds: the provider's clock, errors and crashes

ASSUME EventsAssumption ==
    /\ OccurredAt \in [Events -> Nat] /\ Prompt \subseteq Events
ASSUME ClocksAssumption ==
    /\ Lag \in Nat /\ Window \in Nat \ {0} /\ Interval \in Nat \ {0}
    /\ Overlaps \subseteq Nat /\ Overlaps # {}
    /\ Skews \subseteq Nat /\ 0 \in Skews
    /\ MaxTime \in Nat /\ MaxFaults \in Nat /\ Activated \in 0 .. MaxTime
ASSUME SweepsAssumption == Sweeps \in Seq([lookback : Nat, interval : Nat])
ASSUME BudgetsAssumption ==
    /\ PageSize \in Nat \ {0} /\ MaxRequests \in Nat \ {0}
    /\ RetryBase \in Nat \ {0} /\ MaxDelay \in Nat /\ PermanentDelay \in Nat
    /\ RetryAfters \subseteq Nat
    \* counting further would not change the delay
    /\ MaxFailures \in Nat \ {0} /\ RetryBase * 2^(MaxFailures - 1) >= MaxDelay

VARIABLES
    real, skew,    \* the provider's clock, and how far ours is behind it
    visible,       \* the events the provider shows
    overlap,       \* the overlap of the settings in force
    cursor,        \* ledger_cursors, by lane
    run,           \* the last row of ingest_runs of each lane with its segments
    latest,        \* the last observation of each request
    processed,     \* the pages with a PROCESSED observation
    stored,        \* the pages whose events were written to provider_raw_events
    origin,        \* ledger_entries: the page each event was first normalised from
    due,           \* ledger_compensation_state: when each sweep is due
    dueUpdated,    \* its updated_at
    cooldown,      \* ledger_ingest_schedule_state
    svc,           \* the scan in flight
    history,       \* the lane of the last batch to hand over, whether a start was
                   \* refused, where the first normal window began, and whether the
                   \* local clock was never adjusted
    faults

vars == <<real, skew, visible, overlap, cursor, run, latest, processed, stored,
          origin, due, dueUpdated, cooldown, svc, history, faults>>
world == <<real, skew, visible, overlap>>
evidence == <<latest, processed, stored, origin>>
sweeps == <<due, dueUpdated>>

Later(a, b) == IF a >= b THEN a ELSE b
Sooner(a, b) == IF a =< b THEN a ELSE b

Local == Later(0, real - skew)

Lanes == {"NORMAL", "COMPENSATION"}
\* Scan kinds: 0 is NORMAL, k the k-th sweep.
LaneOf(kind) == IF kind = 0 THEN "NORMAL" ELSE "COMPENSATION"

NoCursor == [present |-> FALSE, start |-> 0, end |-> 0, kind |-> 0, overlap |-> 0,
             complete |-> FALSE, lastEvent |-> -1, updated |-> 0]
NoRun == [status |-> "NONE", start |-> 0, end |-> 0, kind |-> 0,
          pending |-> {}, written |-> 0, shown |-> {}, reached |-> -1]
Idle == [kind |-> -1, left |-> 0]

(***************************************************************************)
(* chooseWindow.  A choice is a kind with a window; NoChoice is null.      *)
(***************************************************************************)
NoChoice == [kind |-> -1, start |-> 0, end |-> 0]
Choice(kind, start, end) == [kind |-> kind, start |-> start, end |-> end]

\* A faulty SafeTail: the safety lag is left out.
SafeTailWithoutLag == Local

SafeTail == Local - Lag
Normal == cursor["NORMAL"]
Compensation == cursor["COMPENSATION"]

Anchor == Sooner(Normal.end, SafeTail)
BoundedEnd == IF Normal.present THEN Sooner(SafeTail, Anchor + Window) ELSE SafeTail
\* A faulty RegularStart: the overlap is taken from the new end.
RegularStartFromNewEnd ==
    IF Normal.present THEN BoundedEnd - Normal.overlap
    ELSE Later(BoundedEnd - Window, Activated)

RegularStart ==
    IF Normal.present THEN Anchor - Normal.overlap
    ELSE Later(BoundedEnd - Window, Activated)

\* The latest recorded event only ever pulls the start further back.
Rewound == Later(0, Normal.lastEvent - Normal.overlap)
NormalStart ==
    Later(0, IF /\ Normal.present /\ Normal.lastEvent >= 0
                /\ Rewound > Normal.start /\ Rewound < RegularStart
             THEN Rewound ELSE RegularStart)

NormalAvailable == NormalStart < BoundedEnd
NormalDue == ~Normal.present \/ SafeTail - Normal.end >= Interval
\* A faulty NormalGetsTurn: a tie goes to the sweep.
NormalLosesTie == NormalDue /\ Normal.updated < Compensation.updated

NormalGetsTurn == NormalDue /\ Normal.updated =< Compensation.updated
CompensationOpen == Compensation.present /\ ~Compensation.complete
NormalGap == Later(0, SafeTail - Normal.end)

DueSweeps ==
    { k \in DOMAIN Sweeps : Local >= due[k] /\ Sweeps[k].lookback >= NormalGap }
FirstSweep == CHOOSE k \in DueSweeps : \A j \in DueSweeps : k =< j
SweepStart(k) == Later(Activated, Anchor - Sweeps[k].lookback)

SweepChosen ==
    /\ Normal.present /\ ~CompensationOpen
    /\ ~NormalAvailable \/ NormalGap =< Window
    /\ DueSweeps # {}
    /\ SweepStart(FirstSweep) < BoundedEnd

ChooseWindow ==
    CASE SafeTail =< 0 -> NoChoice
      [] SafeTail > 0 /\ Normal.present /\ ~Normal.complete ->
            Choice(0, Normal.start, Normal.end)
      [] SafeTail > 0 /\ ~(Normal.present /\ ~Normal.complete) ->
            IF CompensationOpen /\ ~NormalGetsTurn
            THEN Choice(Compensation.kind, Compensation.start, Compensation.end)
            ELSE IF SweepChosen
            THEN Choice(FirstSweep, SweepStart(FirstSweep), BoundedEnd)
            ELSE IF NormalAvailable THEN Choice(0, NormalStart, BoundedEnd)
            ELSE NoChoice

(***************************************************************************)
(* startIngestRun: a RUNNING run is resumed, an incomplete cursor restarts *)
(* its own window, a complete one moves on.  Other parameters are refused. *)
(***************************************************************************)
\* A faulty EffectiveOverlap: the settings in force, also for a window resumed.
OverlapInForce(c) == overlap

\* An incomplete window keeps the overlap it was opened with.
EffectiveOverlap(c) == IF c.present /\ ~c.complete THEN c.overlap ELSE overlap

Refused(w, o) ==
    LET lane == LaneOf(w.kind)
        c == cursor[lane]
        r == run[lane]
    IN  \/ /\ r.status = "RUNNING"
           /\ \/ r.start # w.start \/ r.end # w.end \/ r.kind # w.kind
              \/ ~c.present \/ c.start # w.start \/ c.end # w.end
              \/ c.kind # r.kind \/ c.overlap # o \/ c.complete
        \/ /\ r.status # "RUNNING" /\ c.present /\ ~c.complete
           /\ c.start # w.start \/ c.end # w.end \/ c.overlap # o

OpenedCursor(c, w, o) ==
    [present |-> TRUE, start |-> w.start, end |-> w.end, kind |-> w.kind,
     overlap |-> o, complete |-> FALSE, lastEvent |-> c.lastEvent,
     updated |-> Later(Local, c.updated)]

OpenedRun(c, w) ==
    [status |-> "RUNNING", start |-> w.start, end |-> w.end,
     kind |-> IF c.present /\ ~c.complete THEN c.kind ELSE w.kind,
     pending |-> {<<w.start, w.end>>}, written |-> Later(Local, c.updated),
     shown |-> visible, reached |-> -1]

Budget(kind) == IF kind = 0 THEN MaxRequests ELSE 1

Cooling == cooldown.until > Later(Local, cooldown.updated)

Begin ==
    /\ svc = Idle /\ ~Cooling
    /\ LET w == ChooseWindow
           lane == LaneOf(w.kind)
           c == cursor[lane]
           o == EffectiveOverlap(c)
       IN  /\ w # NoChoice
           /\ IF Refused(w, o)
              THEN /\ history' = [history EXCEPT !.refused = TRUE]
                   /\ UNCHANGED <<cursor, run, svc>>
              ELSE /\ svc' = [kind |-> w.kind, left |-> Budget(w.kind)]
                   /\ run' = IF run[lane].status = "RUNNING" THEN run
                             ELSE [run EXCEPT ![lane] = OpenedRun(c, w)]
                   /\ cursor' = IF c.present /\ ~c.complete THEN cursor
                                ELSE [cursor EXCEPT ![lane] = OpenedCursor(c, w, o)]
                   /\ history' = IF Normal.present THEN history
                                 ELSE [history EXCEPT !.from = w.start]
    /\ UNCHANGED <<world, evidence, sweeps, cooldown, faults>>

(***************************************************************************)
(* One provider request of the batch in flight, sent as soon as the batch  *)
(* begins or the page before it is recorded.                               *)
(***************************************************************************)
Lane == LaneOf(svc.kind)
Run == run[Lane]

\* getNextPendingSegment: a normal scan goes forward, a sweep backwards.
Precedes(x, y) ==
    \/ IF svc.kind = 0 THEN x[1] < y[1] ELSE x[1] > y[1]
    \/ x[1] = y[1] /\ x[2] =< y[2]
Segment == CHOOSE x \in Run.pending : \A y \in Run.pending : Precedes(x, y)

Shown(w) == { e \in visible : OccurredAt[e] >= w[1] /\ OccurredAt[e] =< w[2] }
Oversized(resp) == Cardinality(resp) > PageSize

\* splitLedgerWindow: both halves keep the second they share.
Midpoint(w) == (w[1] + w[2]) \div 2
Halves(w) == IF w[2] - w[1] =< 1 THEN {}
             ELSE {<<w[1], Midpoint(w)>>, <<Midpoint(w), w[2]>>}

\* clampIngestWriteTime
WriteTime == Later(Local, Later(Run.written, cursor[Lane].updated))

\* No page yet: the event is not in the ledger.
NoPage == <<<<0, 0>>, {}>>
entries == { e \in Events : origin[e] # NoPage }

NoObservation == [response |-> {}, disposition |-> "NONE"]

Failure(retryable, after) ==
    LET n == Sooner(MaxFailures, cooldown.failures + 1)
        base == IF retryable THEN RetryBase * 2^(n - 1) ELSE PermanentDelay
        delay == Sooner(MaxDelay, Later(base, after))
        now == Later(WriteTime, cooldown.updated)
    IN  [until |-> now + delay, failures |-> n, updated |-> now]

NoCooldown == [until |-> 0, failures |-> 0, updated |-> 0]

Yielded == [cursor EXCEPT ![Lane].updated = WriteTime]
BatchEnds == svc' = Idle /\ history' = [history EXCEPT !.lane = Lane]

\* A response that differs from the last one to the same request is kept as
\* evidence only; the run and its window wait for the next attempt.
RecordVariant(w, resp) ==
    /\ latest[w].disposition # "NONE" /\ latest[w].response # resp
    /\ latest' = [latest EXCEPT ![w] = [response |-> resp, disposition |-> "REJECTED"]]
    /\ cooldown' = Failure(TRUE, 0)
    /\ cursor' = Yielded
    /\ BatchEnds
    /\ UNCHANGED <<run, processed, stored, origin, sweeps>>

Observed(w, resp) ==
    /\ latest[w].disposition = "NONE" \/ latest[w].response = resp
    /\ latest' = [latest EXCEPT ![w] = [response |-> resp, disposition |-> "PROCESSED"]]
    /\ processed' = processed \cup {<<w, resp>>}

SplitRun(r, w) ==
    [r EXCEPT !.pending = (@ \ {w}) \cup Halves(w), !.written = WriteTime]

\* An oversized window is halved, or given up at one second.
RecordSplit(w, resp) ==
    /\ Oversized(resp) /\ Halves(w) # {}
    /\ Observed(w, resp)
    /\ run' = [run EXCEPT ![Lane] = SplitRun(@, w)]
    /\ cooldown' = NoCooldown
    /\ svc' = [svc EXCEPT !.left = @ - 1]
    /\ UNCHANGED <<cursor, history, stored, origin, sweeps>>

\* A faulty RecordTooDense: the second is skipped and the run goes on.
RecordDenseSkipped(w, resp) ==
    LET rest == Run.pending \ {w}
    IN  /\ Oversized(resp) /\ Halves(w) = {}
        /\ Observed(w, resp)
        /\ run' = [run EXCEPT ![Lane].pending = rest,
                              ![Lane].status = IF rest = {} THEN "COMPLETED" ELSE @]
        /\ cursor' = IF rest = {} THEN [cursor EXCEPT ![Lane].complete = TRUE] ELSE Yielded
        /\ due' = IF due = <<>> THEN [k \in DOMAIN Sweeps |-> WriteTime] ELSE due
        /\ dueUpdated' = WriteTime
        /\ BatchEnds
        /\ UNCHANGED <<stored, origin, cooldown>>

RecordTooDense(w, resp) ==
    /\ Oversized(resp) /\ Halves(w) = {}
    /\ Observed(w, resp)
    /\ run' = [run EXCEPT ![Lane].status = "FAILED"]
    /\ cooldown' = Failure(FALSE, 0)
    /\ svc' = Idle
    /\ UNCHANGED <<cursor, stored, origin, sweeps, history>>

\* A faulty Normalises: a confirmed variant is taken for a duplicate.
NormalisesFirstOnly(w, resp) == latest[w].disposition = "NONE"

\* The events of a page are normalised once: at its first observation, or
\* when a rejected variant is confirmed that was never processed before.
Normalises(w, resp) ==
    \/ latest[w].disposition = "NONE"
    \/ latest[w].disposition = "REJECTED" /\ <<w, resp>> \notin processed

\* advanceCompensationState: a sweep also counts for the shorter ones.
Advanced(kind) ==
    IF due = <<>> THEN [k \in DOMAIN Sweeps |-> WriteTime + Sweeps[k].interval]
    ELSE [k \in DOMAIN Sweeps |-> IF kind # 0 /\ k >= kind
                                  THEN WriteTime + Sweeps[k].interval ELSE due[k]]

AdvancedAt == Later(dueUpdated, WriteTime)

Latest(known) ==
    IF known = {} THEN -1
    ELSE LET e == CHOOSE x \in known : \A y \in known : OccurredAt[y] =< OccurredAt[x]
         IN  OccurredAt[e]

\* normalizeAndInsert: an event that is already in the ledger is a duplicate.
Normalised(w, resp) ==
    IF Normalises(w, resp)
    THEN [e \in Events |-> IF e \in resp \ entries THEN <<w, resp>> ELSE origin[e]]
    ELSE origin

CompletedCursor(c, reached) ==
    [c EXCEPT !.complete = TRUE, !.updated = WriteTime, !.lastEvent = Later(@, reached)]

Completed(reached) == [cursor EXCEPT ![Lane] = CompletedCursor(@, reached)]

AcceptedRun(r, rest, reached) ==
    [r EXCEPT !.pending = rest, !.written = WriteTime, !.reached = reached,
              !.status = IF rest = {} THEN "COMPLETED" ELSE @]

RecordAccepted(w, resp) ==
    LET rest == Run.pending \ {w}
        mine == { e \in resp : Normalised(w, resp)[e] = <<w, resp>> }
        reached == Later(Run.reached, Latest(mine))
    IN  /\ ~Oversized(resp)
        /\ Observed(w, resp)
        /\ cooldown' = NoCooldown
        /\ stored' = IF Normalises(w, resp) THEN stored \cup {<<w, resp>>} ELSE stored
        /\ origin' = Normalised(w, resp)
        /\ run' = [run EXCEPT ![Lane] = AcceptedRun(@, rest, reached)]
        /\ IF rest = {}
           THEN /\ cursor' = Completed(reached)
                /\ due' = Advanced(svc.kind) /\ dueUpdated' = AdvancedAt
                /\ BatchEnds
           ELSE /\ svc' = [svc EXCEPT !.left = @ - 1]
                /\ UNCHANGED <<cursor, sweeps, history>>

Answer ==
    /\ svc # Idle /\ svc.left > 0
    /\ LET w == Segment
           resp == Shown(w)
       IN  \/ RecordVariant(w, resp)
           \/ RecordSplit(w, resp)
           \/ RecordTooDense(w, resp)
           \/ RecordAccepted(w, resp)
    /\ UNCHANGED <<world, faults>>

\* The budget is used up: the batch hands over, in a transaction of its own.
Yield ==
    /\ svc # Idle /\ svc.left = 0
    /\ cursor' = Yielded
    /\ BatchEnds
    /\ UNCHANGED <<world, run, evidence, sweeps, cooldown, faults>>

(***************************************************************************)
(* recordIngestError.  A transient error and an aborted scan keep the run, *)
(* any other error ends it; only real errors start a cooldown.             *)
(***************************************************************************)
Error(kind) ==
    /\ svc # Idle /\ faults < MaxFaults
    /\ faults' = faults + 1
    /\ IF kind = "aborted" THEN UNCHANGED cooldown
       ELSE \E after \in RetryAfters \cup {0} :
                cooldown' = Failure(kind = "transient", after)
    /\ run' = IF kind = "permanent" THEN [run EXCEPT ![Lane].status = "FAILED"] ELSE run
    /\ cursor' = Yielded
    /\ BatchEnds
    /\ UNCHANGED <<world, evidence, sweeps>>

\* The process dies; what is committed stays.
Crash ==
    /\ svc # Idle /\ faults < MaxFaults
    /\ faults' = faults + 1
    /\ svc' = Idle
    /\ UNCHANGED <<world, cursor, run, evidence, sweeps, cooldown, history>>

(***************************************************************************)
(* The environment: time, the provider and the settings.                   *)
(***************************************************************************)
\* A prompt event is shown no later than Lag after it occurred.
Tick ==
    /\ real < MaxTime
    /\ \A e \in Prompt \ visible : real + 1 < OccurredAt[e] + Lag
    /\ real' = real + 1
    /\ UNCHANGED <<skew, visible, overlap, cursor, run, evidence, sweeps, cooldown,
                   svc, history, faults>>

ClockAdjusted ==
    /\ faults < MaxFaults
    /\ skew' \in Skews \ {skew}
    /\ faults' = faults + 1
    /\ history' = [history EXCEPT !.steady = FALSE]
    /\ UNCHANGED <<real, visible, overlap, cursor, run, evidence, sweeps, cooldown, svc>>

Appears(e) ==
    /\ e \notin visible /\ OccurredAt[e] =< real
    /\ visible' = visible \cup {e}
    /\ UNCHANGED <<real, skew, overlap, cursor, run, evidence, sweeps, cooldown, svc,
                   history, faults>>

SettingsChanged ==
    /\ overlap' \in Overlaps \ {overlap}
    /\ faults < MaxFaults /\ faults' = faults + 1
    /\ UNCHANGED <<real, skew, visible, cursor, run, evidence, sweeps, cooldown, svc,
                   history>>

Windows == { w \in (0..MaxTime) \X (0..MaxTime) : w[1] < w[2] }

Init ==
    /\ real = Activated /\ skew \in Skews /\ visible = {} /\ overlap \in Overlaps
    /\ cursor = [l \in Lanes |-> NoCursor] /\ run = [l \in Lanes |-> NoRun]
    /\ latest = [w \in Windows |-> NoObservation]
    /\ processed = {} /\ stored = {} /\ origin = [e \in Events |-> NoPage]
    /\ due = <<>> /\ dueUpdated = 0
    /\ cooldown = NoCooldown /\ svc = Idle
    /\ history = [lane |-> "none", refused |-> FALSE, from |-> 0, steady |-> TRUE] /\ faults = 0

Next ==
    \/ Begin
    \/ Answer
    \/ Yield
    \/ \E kind \in {"transient", "permanent", "aborted"} : Error(kind)
    \/ Crash
    \/ Tick
    \/ ClockAdjusted
    \/ \E e \in Events : Appears(e)
    \/ SettingsChanged

Spec == Init /\ [][Next]_vars

(***************************************************************************)
(* The startup check of these tables: countLedgerDomainViolations in       *)
(* src/src/database/database.ts.  One violation and the database is not    *)
(* opened.                                                                 *)
(***************************************************************************)
\* A processed leaf has all its raw events, and there are no others.
PagesAccepted ==
    /\ \A page \in processed : Oversized(page[2]) \/ page \in stored
    /\ stored \subseteq processed
    /\ \A e \in entries : origin[e] \in stored

\* An open run is the one its cursor waits for, and has work left; a completed
\* one has none.
RunsAccepted ==
    \A l \in Lanes :
        /\ run[l].status = "RUNNING" =>
              /\ cursor[l].present /\ ~cursor[l].complete
              /\ cursor[l].start = run[l].start /\ cursor[l].end = run[l].end
              /\ cursor[l].kind = run[l].kind
              /\ run[l].pending # {}
        /\ run[l].status = "COMPLETED" => run[l].pending = {}
        /\ cursor[l].present => LaneOf(cursor[l].kind) = l

\* No sweep is due later than one interval after the row was written.
SweepsAccepted == \A k \in DOMAIN due : due[k] - dueUpdated =< Sweeps[k].interval

CooldownAccepted ==
    cooldown # NoCooldown => /\ cooldown.failures >= 1
                             /\ cooldown.until >= cooldown.updated
                             /\ cooldown.until - cooldown.updated =< MaxDelay

(***************************************************************************)
(* Properties.                                                             *)
(***************************************************************************)
\* Once the normal cursor has completed a window, no event that the provider
\* showed in time and that occurred between the start of the first window and
\* the end of this one is missing from the ledger - across splits, variants,
\* failed and resumed runs, crashes, changed settings and a local clock that
\* falls behind (service.ts:513-631, store.ts:528-699).
NothingMissedBehindCursor ==
    Normal.complete =>
        \A e \in Prompt : OccurredAt[e] >= history.from /\ OccurredAt[e] =< Normal.end
                            => e \in entries

\* A run of either lane that completes has recorded every event of its window
\* that the provider showed when the run was opened (store.ts:2881-2924).
CompletedRunIsComplete ==
    [][\A l \in Lanes : run[l].status = "RUNNING" /\ run'[l].status = "COMPLETED" =>
            \A e \in run[l].shown :
                OccurredAt[e] >= run[l].start /\ OccurredAt[e] =< run[l].end
                    => e \in entries']_vars

\* The window chosen for a batch is always one the store accepts: no history
\* of failures, restarts and settings leaves an account refusing every scan
\* (service.ts:219-243, store.ts:392-448).
StartNeverRefused == ~history.refused

\* What the program left behind, it will open again, whatever the clock, the
\* provider and a crash did: none of the startup queries on these tables selects
\* a row.  The evidence checks of retainSegmentPage and recordSegmentPage rest on
\* the same facts (store.ts:656-661, 2573-2585).
LedgerAcceptedAtStartup ==
    /\ PagesAccepted
    /\ RunsAccepted
    /\ SweepsAccepted
    /\ CooldownAccepted
    /\ \A w \in Windows : latest[w].disposition = "PROCESSED" =>
            <<w, latest[w].response>> \in processed

\* Consecutive normal windows leave no gap, whatever the clock does
\* (service.ts:535-578).
WindowsLeaveNoGap ==
    [][Normal.present /\ Normal' # Normal =>
            Normal'.start =< Normal.end /\ Normal'.start < Normal'.end]_vars

\* An open sweep does not keep the provider to itself: when a normal window is
\* due and the last batch to hand over was the sweep's, the next batch is
\* normal (service.ts:580-594).
NormalGetsItsTurn ==
    [][svc = Idle /\ svc'.kind > 0 /\ CompensationOpen /\ NormalDue =>
            history.lane # "COMPENSATION"]_vars

\* The same, as long as nobody adjusts the local clock.
NormalGetsItsTurnOnSteadyClock ==
    [][/\ svc = Idle /\ svc'.kind > 0 /\ CompensationOpen /\ NormalDue
       /\ history.steady
       => history.lane # "COMPENSATION"]_vars
=============================================================================
