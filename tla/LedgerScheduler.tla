--------------------------- MODULE LedgerScheduler ---------------------------
(***************************************************************************)
(* LedgerIngestScheduler (src/src/ledger/scheduler.ts): one timer and one  *)
(* in-flight promise own every automatic and requested scan of a provider  *)
(* account, and a durable gate (scan-gate.ts) says when the provider may   *)
(* be asked again.                                                         *)
(*                                                                         *)
(* Every time is kept relative to the wall clock's present: 0 is now, a    *)
(* deadline in the future is positive, and the passing of time lowers all  *)
(* of them.  A time more than Horizon in the past, like the code's null    *)
(* and 0, is the one value LongAgo, which no comparison of the code can    *)
(* tell from the exact one.                                                *)
(*                                                                         *)
(* s is the memory of the scheduler object, gate the row of                *)
(* ledger_scan_gate, cadence what LedgerScanCadencePolicy would answer.    *)
(* quiet is a history variable: until when the results of the scans so far *)
(* asked for the provider to be left alone (protected), and until when the *)
(* last result asks for the minimum interval to be kept (spacing).         *)
(***************************************************************************)
EXTENDS Integers, FiniteSets

CONSTANTS
    Intervals,       \* the waits the cadence policy can ask for
    MinInterval,     \* minimumIntervalMilliseconds
    RetryAfters,     \* the Retry-After hints a failed scan can carry
    PermanentDelay,  \* #nonRetryableDelayMilliseconds
    MaxRetry,        \* #maximumRetryDelayMilliseconds
    StorageRetry,    \* the 5 s after which storage is tried again
    Horizon,         \* age beyond which a time no longer matters
    MaxFailures,     \* consecutive failures counted
    ClockSteps,      \* by how much the wall clock can be set forward or back
    MaxFaults        \* clock adjustments and crashes explored

ASSUME IntervalsAssumption == Intervals # {} /\ Intervals \subseteq Nat \ {0}
ASSUME DelaysAssumption ==
    /\ MinInterval \in Nat \ {0}
    /\ RetryAfters \subseteq Nat \ {0}
    /\ PermanentDelay \in Nat \ {0}
    /\ MaxRetry \in Nat \ {0}
    /\ StorageRetry \in Nat \ {0}
    /\ Horizon \in Nat /\ MaxFailures \in Nat \ {0} /\ MaxFaults \in Nat
    /\ ClockSteps \subseteq Int

\* The abstractions are exact: what is cut off could not change a comparison.
ASSUME CutOffAssumption ==
    /\ \A i \in Intervals \cup {MinInterval}, d \in ClockSteps \cup {0} :
            i - MaxFaults * d =< Horizon
    /\ \A i \in Intervals : i * 2^(MaxFailures - 1) >= MaxRetry

VARIABLES s, gate, cadence, quiet, faults

vars == <<s, gate, cadence, quiet, faults>>

Later(a, b) == IF a >= b THEN a ELSE b
Sooner(a, b) == IF a =< b THEN a ELSE b

LongAgo == -Horizon

NoGate == [completed |-> LongAgo, protected |-> LongAgo, continuation |-> FALSE]
NoTimer == [kind |-> "none", left |-> 0, at |-> LongAgo, interval |-> 0]
Nothing == [gate |-> NoGate, at |-> LongAgo, interval |-> 0, kind |-> "none"]
NoHealth == [state |-> "none", error |-> "none"]

\* A scheduler object as its constructor leaves it.
Fresh(i) ==
    [life |-> "started", timer |-> NoTimer, current |-> "none",
     lastGate |-> NoGate, unpersisted |-> Nothing, lastCompleted |-> LongAgo,
     failures |-> 0, pending |-> FALSE, resolved |-> i,
     health |-> [state |-> "idle", error |-> "none"],
     previous |-> "idle", before |-> NoHealth]

Armed(m) == m.timer.kind # "none"
Owing(m) == m.unpersisted.kind # "none"

(***************************************************************************)
(* The private helpers, as functions of the object's memory.               *)
(***************************************************************************)
ScheduleAt(m, at, i, kind) ==
    [m EXCEPT !.timer = [kind |-> kind, left |-> Later(0, at),
                         at |-> at, interval |-> i]]

\* A faulty StorageFailed: the failure is reported but nothing retries.
StorageFailedForGood(m) ==
    [m EXCEPT !.before = IF m.before = NoHealth THEN m.health ELSE m.before,
              !.health = [state |-> "degraded", error |-> "storage"],
              !.pending = FALSE]

StorageFailed(m) ==
    LET told == [m EXCEPT
            !.before = IF m.before = NoHealth THEN m.health ELSE m.before,
            !.health = [state |-> "degraded", error |-> "storage"],
            !.pending = FALSE]
    IN  IF m.life # "started" \/ (m.timer.kind = "storage" /\ m.timer.at > 0)
        THEN told
        ELSE ScheduleAt(told, StorageRetry, m.resolved, "storage")

StorageRecovered(m) ==
    IF m.before = NoHealth THEN m
    ELSE [m EXCEPT
            !.health = [state |-> IF m.life = "started" THEN m.before.state
                                  ELSE m.health.state,
                        error |-> m.before.error],
            !.before = NoHealth]

\* #persistSchedule merges the uncommitted schedule with the saved gate: a
\* completion or a protection recorded by anyone is never taken back.
Merged(p, saved) ==
    LET completed == Later(p.gate.completed, saved.completed)
        protected == Later(p.gate.protected, saved.protected)
        continuation == completed = p.gate.completed /\ p.gate.continuation
    IN  [p EXCEPT
            !.gate = [completed |-> completed, protected |-> protected,
                      continuation |-> continuation],
            !.at = Later(Later(p.at, protected),
                         IF continuation THEN LongAgo ELSE completed + MinInterval)]

Saved(m) == IF gate # NoGate THEN gate ELSE m.lastGate

Persisted(m) ==
    LET p == Merged(m.unpersisted, Saved(m))
    IN  StorageRecovered([m EXCEPT !.lastGate = p.gate, !.unpersisted = Nothing])

\* What #persistSchedule leaves in memory when the read or the write throws.
PersistFailed(m, fault) ==
    IF fault = "read" THEN m
    ELSE [m EXCEPT !.unpersisted = Merged(@, Saved(m))]

PersistedGate(m) == Merged(m.unpersisted, Saved(m)).gate

ArmSchedule(m, p) ==
    IF m.life = "started" THEN ScheduleAt(m, p.at, p.interval, p.kind) ELSE m

\* #persistSchedule followed by #armSchedule.
Recorded(m) == ArmSchedule(Persisted(m), Merged(m.unpersisted, Saved(m)))

(***************************************************************************)
(* trigger().  A call while a scan is in flight joins it, and one while    *)
(* the storage retry is pending is refused: neither changes anything.      *)
(***************************************************************************)
Refused(m) == m.current # "none" \/ (m.timer.kind = "storage" /\ m.timer.at > 0)

TriggerRestores(m) ==
    /\ ~Refused(m) /\ Owing(m)
    /\ \/ /\ gate' = PersistedGate(m)
          /\ s' = [Recorded(m) EXCEPT !.pending = TRUE]
       \/ \E fault \in {"read", "write"} :
              /\ s' = StorageFailed(PersistFailed(m, fault))
              /\ UNCHANGED gate
    /\ UNCHANGED <<cadence, quiet, faults>>

TriggerCannotRead(m) ==
    /\ ~Refused(m) /\ ~Owing(m)
    /\ s' = StorageFailed(m)
    /\ UNCHANGED <<gate, cadence, quiet, faults>>

ProtectedUntil(m) ==
    Later(Saved(m).protected, IF m.timer.kind = "retry" THEN m.timer.at ELSE LongAgo)

Earliest(m) ==
    LET g == Saved(m)
        continuing == IF g = NoGate THEN m.timer.kind = "continuation"
                      ELSE g.continuation
        completed == IF g = NoGate THEN m.lastCompleted ELSE g.completed
    IN  Later(ProtectedUntil(m),
              IF continuing THEN LongAgo ELSE completed + MinInterval)

MustWait(m, reason) ==
    \/ Earliest(m) > 0
    \/ reason # "scheduled" /\ m.timer.kind = "continuation"

TriggerWaits(m, reason) ==
    /\ ~Refused(m) /\ ~Owing(m) /\ MustWait(m, reason)
    /\ \E i \in {cadence, m.resolved} :
        LET read == StorageRecovered([m EXCEPT !.lastGate = Saved(m)])
        IN  s' = [IF m.timer.kind = "continuation" THEN read
                  ELSE ScheduleAt([read EXCEPT !.resolved = i], Earliest(m), i,
                           IF ProtectedUntil(m) > 0 THEN "retry" ELSE "manual")
                  EXCEPT !.pending = TRUE]
    /\ UNCHANGED <<gate, cadence, quiet, faults>>

TriggerScans(m, reason) ==
    /\ ~Refused(m) /\ ~Owing(m) /\ ~MustWait(m, reason)
    /\ LET read == StorageRecovered([m EXCEPT !.lastGate = Saved(m)])
       IN  s' = [read EXCEPT !.timer = NoTimer, !.current = "running",
                             !.previous = read.health.state,
                             !.health.state = "running"]
    /\ UNCHANGED <<gate, cadence, quiet, faults>>

Trigger(m, reason) ==
    \/ TriggerRestores(m)
    \/ TriggerCannotRead(m)
    \/ TriggerWaits(m, reason)
    \/ TriggerScans(m, reason)

\* An operator's or a checkout page's request.
Request == s.life = "started" /\ Trigger(s, "requested")

(***************************************************************************)
(* The timer.  A normal wait looks at the cadence once more before it      *)
(* scans; every other kind goes straight to trigger("scheduled").          *)
(***************************************************************************)
TimerDue == Armed(s) /\ s.timer.left = 0 /\ s.current # "settled"

NormalDueAt(i) == s.lastCompleted + i

TimerPostpones ==
    /\ TimerDue /\ s.timer.kind = "normal"
    /\ \E i \in {cadence, s.resolved} :
        /\ i > s.timer.interval /\ NormalDueAt(i) > 0
        /\ s' = ScheduleAt([s EXCEPT !.resolved = i], NormalDueAt(i), i, "normal")
    /\ UNCHANGED <<gate, cadence, quiet, faults>>

TimerFires ==
    /\ TimerDue
    /\ LET m == [s EXCEPT !.timer = NoTimer]
       IN  IF s.timer.kind = "normal"
           THEN \E i \in {cadence, s.resolved} :
                    /\ ~(i > s.timer.interval /\ NormalDueAt(i) > 0)
                    /\ Trigger([m EXCEPT !.resolved = i], "scheduled")
           ELSE Trigger(m, "scheduled")

(***************************************************************************)
(* refreshSchedule(): order activity changes a normal wait, never a        *)
(* continuation or a retry.                                                *)
(***************************************************************************)
\* A faulty RefreshedAt: a longer wait is counted from now, not from the last scan.
RefreshedFromNow(i) == IF i < s.timer.interval THEN Sooner(s.timer.at, i) ELSE i

RefreshedAt(i) ==
    IF i < s.timer.interval THEN Sooner(s.timer.at, i)
    ELSE Later(0, s.lastCompleted + i)

RefreshSchedule ==
    /\ s.life = "started" /\ s.current = "none" /\ s.timer.kind = "normal"
    /\ \E i \in {cadence, s.resolved} :
        s' = IF i = s.timer.interval THEN [s EXCEPT !.resolved = i]
             ELSE ScheduleAt([s EXCEPT !.resolved = i], RefreshedAt(i), i, "normal")
    /\ UNCHANGED <<gate, cadence, quiet, faults>>

(***************************************************************************)
(* The end of a scan.  A result is a status, for a failure the class that  *)
(* decides the delay, and a Retry-After hint (0: none).                    *)
(***************************************************************************)
Result(status, class, after) == [status |-> status, class |-> class, after |-> after]

Results ==
    { Result(st, "none", 0) : st \in {"COMPLETED", "PARTIAL", "SKIPPED", "THREW"} }
    \cup { Result("FAILED", c, a) : c \in {"cooldown", "permanent", "variant", "transient"},
                                    a \in RetryAfters \cup {0} }
    \cup { Result("ABORTED", "none", a) : a \in RetryAfters \cup {0} }

Noted(m, r) ==
    LET keep == [m EXCEPT !.health.state = m.previous]
        well(st, e) == [m EXCEPT !.health = [state |-> st, error |-> e], !.failures = 0]
    IN  CASE r.status \in {"SKIPPED", "ABORTED"} -> keep
          [] r.status = "COMPLETED" -> well("healthy", "none")
          [] r.status = "PARTIAL" -> well("catching_up", "continuation")
          [] OTHER -> [m EXCEPT !.health = [state |-> "degraded", error |-> "scan"],
                                !.failures = Sooner(MaxFailures, @ + 1)]

Exponential(i, failures) == Sooner(MaxRetry, i * 2^(failures - 1))

RetryDelay(r, i, failures) ==
    Sooner(MaxRetry,
        CASE r.class \in {"cooldown", "variant"} -> Later(1, r.after)
          [] r.class = "permanent" ->
                Later(i, IF r.after = 0 THEN PermanentDelay ELSE r.after)
          [] OTHER -> Later(Later(i, Exponential(i, failures)), r.after))

\* #scheduleNext: the schedule a result asks for, as counted from now.
Schedule(at, i, kind, protected) ==
    [gate |-> [completed |-> 0, protected |-> protected,
               continuation |-> kind = "continuation"],
     at |-> at, interval |-> i, kind |-> kind]

ScheduleAfter(m, r, i) ==
    LET kept == Later(m.lastGate.protected,
                      IF r.after = 0 THEN LongAgo ELSE Sooner(MaxRetry, r.after))
        retry == RetryDelay(r, i, m.failures)
    IN  CASE r.status = "ABORTED" ->
                Schedule(Later(i, kept), i, IF kept > i THEN "retry" ELSE "normal", kept)
          [] r.status = "PARTIAL" -> Schedule(0, i, "continuation", LongAgo)
          [] r.status \in {"FAILED", "THREW"} -> Schedule(retry, i, "retry", retry)
          [] OTHER -> Schedule(i, i, "normal", LongAgo)

\* What the result itself asks of the scheduler, whatever becomes of storage.
Asked(p) ==
    [protected |-> Later(quiet.protected, p.gate.protected),
     spacing |-> IF p.gate.continuation THEN LongAgo ELSE MinInterval]

Ended(r, i) ==
    LET m == Noted(s, r)
    IN  [m EXCEPT !.current = "settled", !.lastCompleted = 0, !.resolved = i,
                  !.unpersisted = ScheduleAfter(m, r, i)]

\* A faulty Settle: the waiter for the next scan is not answered.
SettleSilently(r) ==
    /\ s.current = "running"
    /\ r.status = "ABORTED" => s.life # "started"
    /\ LET m == Ended(r, s.resolved)
       IN  /\ gate' = PersistedGate(m)
           /\ s' = Recorded(m)
           /\ quiet' = Asked(m.unpersisted)
    /\ UNCHANGED <<cadence, faults>>

Settle(r) ==
    /\ s.current = "running"
    /\ r.status = "ABORTED" => s.life # "started"
    /\ \E i \in {cadence, s.resolved} :
        LET m == Ended(r, i)
        IN  /\ \/ /\ gate' = PersistedGate(m)
                  /\ s' = [Recorded(m) EXCEPT !.pending = FALSE]
               \/ \E fault \in {"read", "write"} :
                    /\ s' = StorageFailed(PersistFailed(m, fault))
                    /\ UNCHANGED gate
            /\ quiet' = Asked(m.unpersisted)
    /\ UNCHANGED <<cadence, faults>>

\* The promise's finally(), a microtask after the handler.
Finally ==
    /\ s.current = "settled"
    /\ s' = [s EXCEPT !.current = "none"]
    /\ UNCHANGED <<gate, cadence, quiet, faults>>

(***************************************************************************)
(* stop() in its two halves, around the await of the scan in flight; a     *)
(* repeated stop() only tries to save what could not be saved before.      *)
(***************************************************************************)
Stop ==
    /\ s.life = "started"
    /\ s' = [s EXCEPT !.life = "stopping", !.pending = FALSE, !.timer = NoTimer]
    /\ UNCHANGED <<gate, cadence, quiet, faults>>

SaveOnStop(m) ==
    IF ~Owing(m) THEN s' = m /\ UNCHANGED gate
    ELSE \/ s' = Persisted(m) /\ gate' = PersistedGate(m)
         \/ \E fault \in {"read", "write"} :
                s' = PersistFailed(m, fault) /\ UNCHANGED gate

StopFinishes ==
    /\ s.life = "stopping" /\ s.current = "none"
    /\ SaveOnStop([s EXCEPT !.life = "stopped", !.health.state = "stopped"])
    /\ UNCHANGED <<cadence, quiet, faults>>

StopAgain ==
    /\ s.life # "started" /\ s.current = "none" /\ Owing(s)
    /\ SaveOnStop(s)
    /\ UNCHANGED <<cadence, quiet, faults>>

(***************************************************************************)
(* The controller replaces a stopped scheduler once stop() has succeeded;  *)
(* a crash replaces it at any moment.  start() is a trigger("startup").    *)
(***************************************************************************)
\* A faulty Replace: a scheduler that could not save its schedule is replaced.
ReplaceUnsaved ==
    /\ s.life = "stopped"
    /\ \E i \in Intervals : Trigger(Fresh(i), "startup")

Replace ==
    /\ s.life = "stopped" /\ ~Owing(s)
    /\ \E i \in Intervals : Trigger(Fresh(i), "startup")

\* The quiet a reader of the gate alone can know of.
GateQuiet ==
    [protected |-> gate.protected,
     spacing |-> IF gate.continuation THEN LongAgo ELSE gate.completed + MinInterval]

Crash ==
    /\ faults < MaxFaults
    /\ faults' = faults + 1
    /\ quiet' = IF Owing(s) THEN GateQuiet ELSE quiet
    /\ s' = [Fresh(s.resolved) EXCEPT !.life = "stopped"]
    /\ UNCHANGED <<gate, cadence>>

(***************************************************************************)
(* Time and the environment.                                               *)
(***************************************************************************)
Aged(t, d) == IF t = LongAgo THEN LongAgo ELSE Later(LongAgo, t - d)

AgedGate(g, d) == [g EXCEPT !.completed = Aged(@, d), !.protected = Aged(@, d)]

AgedTimer(t, d, elapsed) ==
    [t EXCEPT !.left = Later(0, @ - elapsed), !.at = Aged(@, d)]

AgedPlan(p, d) == [p EXCEPT !.gate = AgedGate(@, d), !.at = Aged(@, d)]

AgedMemory(m, d, elapsed) ==
    [m EXCEPT
        !.timer = AgedTimer(@, d, elapsed),
        !.lastGate = AgedGate(@, d),
        !.unpersisted = AgedPlan(@, d),
        !.lastCompleted = Aged(@, d)]

\* The wall clock moves by d while the process's timers see `elapsed' pass.
Shift(d, elapsed) ==
    /\ s' = AgedMemory(s, d, elapsed)
    /\ gate' = AgedGate(gate, d)
    /\ quiet' = [protected |-> Aged(quiet.protected, d),
                spacing |-> Aged(quiet.spacing, d)]
    /\ UNCHANGED cadence

Tick == s.current # "settled" /\ Shift(1, 1) /\ UNCHANGED faults

ClockStep ==
    /\ s.current # "settled" /\ faults < MaxFaults
    /\ \E d \in ClockSteps : Shift(d, 0)
    /\ faults' = faults + 1

\* Orders are created, expire and settle without the scheduler being told.
CadenceChanges ==
    /\ cadence' \in Intervals \ {cadence}
    /\ UNCHANGED <<s, gate, quiet, faults>>

Init ==
    /\ \E i \in Intervals :
        /\ cadence = i
        /\ s = [Fresh(i) EXCEPT !.life = "stopped"]
    /\ gate = NoGate /\ quiet = [protected |-> LongAgo, spacing |-> LongAgo] /\ faults = 0

Next ==
    \/ Request
    \/ TimerPostpones
    \/ TimerFires
    \/ RefreshSchedule
    \/ \E r \in Results : Settle(r)
    \/ Finally
    \/ Stop
    \/ StopFinishes
    \/ StopAgain
    \/ Replace
    \/ Crash
    \/ Tick
    \/ ClockStep
    \/ CadenceChanges

Spec == Init /\ [][Next]_vars

\* The scheduling the process gives: timers fire, promises settle, storage
\* does not fail for ever, and the wall clock runs on.
StorageWorks == s'.health.error # "storage"

Fairness ==
    /\ WF_vars(Tick)
    /\ WF_vars(TimerPostpones \/ TimerFires)
    /\ SF_vars(TimerFires /\ StorageWorks)
    /\ WF_vars(\E r \in Results : Settle(r))
    /\ WF_vars(Finally)

LiveSpec == Spec /\ Fairness

(***************************************************************************)
(* Properties.                                                             *)
(***************************************************************************)
\* A running scheduler is never stranded and never has two owners: either a
\* scan is in flight or exactly one timer will start the next step, even after
\* storage failed in the middle of a handler (scheduler.ts:48, 294-311).
OneOwner ==
    s.life = "started" => ((s.current = "running") <=> ~Armed(s))

\* The scan that starts now is allowed: no result of an earlier scan, of this
\* scheduler or of one it replaced, asked the provider to be left alone for
\* longer, whatever became of storage in between (scheduler.ts:145-165,
\* 327-345).  Only a crash may forget what was never committed.
ProviderLeftAlone ==
    [][s.current = "none" /\ s'.current = "running" =>
            quiet.protected =< 0 /\ quiet.spacing =< 0]_vars

\* Whoever waits for the next scan is told its result or that the scheduler was
\* stopped, also when storage fails at the end of the scan (scheduler.ts:166-246).
WaitersAnswered == s.pending ~> ~s.pending

\* A scheduler that is not being stopped keeps scanning: changes of cadence,
\* requests and storage failures only ever delay a scan (scheduler.ts:119-131).
ScansContinue == []<>(s.current = "running" \/ s.life # "started")
=============================================================================
