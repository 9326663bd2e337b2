------------------------ MODULE LedgerSchedulerProofs ------------------------
(***************************************************************************)
(* Theorems about LedgerScheduler: a running scheduler always has exactly  *)
(* one owner of its next step, and no scan starts before everything the    *)
(* results of earlier scans asked for, for any intervals, delays, failures *)
(* and clock adjustments.                                                  *)
(*                                                                         *)
(* The inductive invariant LInv relates the three places a protection may  *)
(* be in.  The memory's copy of the gate is the gate or nothing            *)
(* (CopyOfGate), a schedule is uncommitted only between scans              *)
(* (OwedBetweenScans), and what the results asked for is in the gate as    *)
(* #persistSchedule would merge it (QuietKept).  A completion so old that  *)
(* it was cut off is covered by the budget of clock steps (Spaced).        *)
(***************************************************************************)
EXTENDS LedgerScheduler, TLAPS

Times == {t \in Int : t >= LongAgo}
Kinds == {"none", "normal", "continuation", "retry", "manual", "storage"}
States == {"none", "idle", "running", "healthy", "degraded", "catching_up", "stopped"}
Errors == {"none", "storage", "scan", "continuation"}

Gates == [completed : Times, protected : Times, continuation : BOOLEAN]
Timers == [kind : Kinds, left : Nat, at : Times, interval : Nat]
Plans == [gate : Gates, at : Times, interval : Nat, kind : Kinds]
Healths == [state : States, error : Errors]

Memories ==
    [life : {"started", "stopping", "stopped"}, timer : Timers,
     current : {"none", "running", "settled"},
     lastGate : Gates, unpersisted : Plans, lastCompleted : Times,
     failures : Nat, pending : BOOLEAN, resolved : Intervals,
     health : Healths, previous : States, before : Healths]

(* A timer is armed exactly while a started scheduler has no scan running. *)
Owned(m) ==
    /\ m.life = "started" => ((m.current = "running") <=> ~Armed(m))
    /\ m.life # "started" => ~Armed(m)

CopyOfGate(m, g) == m.lastGate \in {NoGate, g}

OwedBetweenScans(m) == m.current = "running" => ~Owing(m)

(* The minimum interval counts from c, or c was cut off and the clock      *)
(* steps that are left cannot bring the end of that interval back.         *)
Spaced(q, f, c) ==
    \/ q.spacing =< c + MinInterval
    \/ c = LongAgo /\ \A d \in ClockSteps \cup {0} : q.spacing =< (MaxFaults - f) * d

Covered(q, f, g) ==
    /\ q.protected =< g.protected
    /\ g.continuation => q.spacing = LongAgo
    /\ Spaced(q, f, g.completed)

(* The gate as it is, or as it will be once the schedule is committed; the *)
(* continuation is the schedule's own.                                     *)
Effective(m, g) ==
    IF Owing(m)
    THEN [completed |-> Later(m.unpersisted.gate.completed, g.completed),
          protected |-> Later(m.unpersisted.gate.protected, g.protected),
          continuation |-> m.unpersisted.gate.continuation]
    ELSE g

QuietKept(m, g, q, f) == Covered(q, f, Effective(m, g))

Quiets == [protected : Times, spacing : Times]

Consistent(m, g, q, f) ==
    /\ m \in Memories /\ g \in Gates /\ q \in Quiets /\ f \in 0 .. MaxFaults
    /\ Owned(m) /\ CopyOfGate(m, g) /\ OwedBetweenScans(m) /\ QuietKept(m, g, q, f)

LInv == Consistent(s, gate, quiet, faults) /\ cadence \in Intervals

-----------------------------------------------------------------------------
(* Times and delays.                                                       *)

LEMMA TimesAreTimes ==
    /\ LongAgo \in Times /\ LongAgo =< 0 /\ Nat \subseteq Times
    /\ MinInterval \in Nat \ {0} /\ Intervals \subseteq Nat \ {0}
BY DelaysAssumption, IntervalsAssumption DEF Times, LongAgo

LEMMA LaterTime ==
    ASSUME NEW a \in Times, NEW b \in Times
    PROVE  Later(a, b) \in Times /\ Later(a, b) >= a /\ Later(a, b) >= b
BY DelaysAssumption DEF Later, Times, LongAgo

LEMMA LaterMonotonic ==
    ASSUME NEW a \in Int, NEW b \in Int, NEW c \in Int, NEW d \in Int, a =< c, b =< d
    PROVE  Later(a, b) =< Later(c, d)
BY DEF Later

LEMMA NothingTyped ==
    /\ NoGate \in Gates /\ NoTimer \in Timers /\ Nothing \in Plans /\ NoHealth \in Healths
<1>1. NoGate \in Gates
  BY TimesAreTimes DEF NoGate, Gates
<1>2. NoTimer \in Timers
  BY TimesAreTimes DEF NoTimer, Timers, Kinds
<1>3. Nothing \in Plans
  BY <1>1, TimesAreTimes DEF Nothing, Plans, Kinds
<1>4. NoHealth \in Healths
  BY DEF NoHealth, Healths, States, Errors
<1>5. QED
  BY <1>1, <1>2, <1>3, <1>4

LEMMA FreshMemory ==
    ASSUME NEW i \in Intervals
    PROVE  /\ Fresh(i) \in Memories /\ Fresh(i).life = "started"
           /\ Fresh(i).current = "none" /\ Fresh(i).lastGate = NoGate
           /\ ~Armed(Fresh(i)) /\ ~Owing(Fresh(i))
<1>1. [state |-> "idle", error |-> "none"] \in Healths /\ "idle" \in States
  BY DEF Healths, States, Errors
<1>2. Fresh(i) \in Memories
  BY <1>1, NothingTyped, TimesAreTimes DEF Fresh, Memories
<1>3. QED
  BY <1>2 DEF Fresh, Armed, Owing, NoTimer, Nothing

(***************************************************************************)
(* What the helpers of the object leave of its memory.                     *)
(***************************************************************************)
LEMMA ScheduledAt ==
    ASSUME NEW m \in Memories, NEW at \in Times, NEW i \in Nat,
           NEW k \in Kinds \ {"none"}
    PROVE  LET n == ScheduleAt(m, at, i, k)
           IN  /\ n \in Memories /\ Armed(n) /\ n.timer.kind = k
               /\ n.life = m.life /\ n.current = m.current
               /\ n.lastGate = m.lastGate /\ n.unpersisted = m.unpersisted
<1> DEFINE t == [kind |-> k, left |-> Later(0, at), at |-> at, interval |-> i]
<1>1. t \in Timers
  <2>1. Later(0, at) \in Nat
    BY DEF Later, Times
  <2>2. QED
    BY <2>1 DEF Timers
<1>2. ScheduleAt(m, at, i, k) = [m EXCEPT !.timer = t]
  BY DEF ScheduleAt
<1>3. t.kind = k
  OBVIOUS
<1> HIDE DEF t
<1>4. QED
  BY <1>1, <1>2, <1>3 DEF Memories, Armed

LEMMA StorageFails ==
    ASSUME NEW m \in Memories
    PROVE  LET n == StorageFailed(m)
           IN  /\ n \in Memories
               /\ n.life = m.life /\ n.current = m.current
               /\ n.lastGate = m.lastGate /\ n.unpersisted = m.unpersisted
               /\ m.life = "started" => Armed(n)
               /\ m.life # "started" => n.timer = m.timer
<1> DEFINE b == IF m.before = NoHealth THEN m.health ELSE m.before
           told == [m EXCEPT !.before = b,
                             !.health = [state |-> "degraded", error |-> "storage"],
                             !.pending = FALSE]
<1>1. b \in Healths /\ [state |-> "degraded", error |-> "storage"] \in Healths
  BY DEF Memories, Healths, States, Errors
<1>2. StorageFailed(m) = IF m.life # "started" \/ (m.timer.kind = "storage" /\ m.timer.at > 0)
                         THEN told
                         ELSE ScheduleAt(told, StorageRetry, m.resolved, "storage")
  BY DEF StorageFailed
<1> HIDE DEF b
<1>3. /\ told \in Memories /\ told.life = m.life /\ told.current = m.current
      /\ told.timer = m.timer
      /\ told.lastGate = m.lastGate /\ told.unpersisted = m.unpersisted
  BY <1>1 DEF Memories
<1> HIDE DEF told
<1>4. m.resolved \in Nat /\ StorageRetry \in Times /\ "storage" \in Kinds \ {"none"}
  BY TimesAreTimes, DelaysAssumption DEF Memories, Kinds
<1>5. PICK n : n = ScheduleAt(told, StorageRetry, m.resolved, "storage")
  OBVIOUS
<1>6. /\ n \in Memories /\ Armed(n)
      /\ n.life = told.life /\ n.current = told.current
      /\ n.lastGate = told.lastGate /\ n.unpersisted = told.unpersisted
  BY <1>3, <1>4, <1>5, ScheduledAt
<1>7. QED
  BY <1>2, <1>3, <1>5, <1>6 DEF Armed

LEMMA StorageRecovers ==
    ASSUME NEW m \in Memories
    PROVE  LET n == StorageRecovered(m)
           IN  /\ n \in Memories
               /\ n.life = m.life /\ n.current = m.current /\ n.timer = m.timer
               /\ n.lastGate = m.lastGate /\ n.unpersisted = m.unpersisted
<1>1. [state |-> IF m.life = "started" THEN m.before.state ELSE m.health.state,
       error |-> m.before.error] \in Healths
  BY DEF Memories, Healths
<1>2. QED
  BY <1>1, NothingTyped DEF StorageRecovered, Memories

LEMMA MergedPlan ==
    ASSUME NEW p \in Plans, NEW g \in Gates
    PROVE  LET n == Merged(p, g)
           IN  /\ n \in Plans /\ n.gate \in Gates
               /\ n.kind = p.kind /\ n.interval = p.interval
               /\ n.gate.completed = Later(p.gate.completed, g.completed)
               /\ n.gate.protected = Later(p.gate.protected, g.protected)
               /\ n.gate.continuation => p.gate.continuation
<1> DEFINE c == Later(p.gate.completed, g.completed)
           w == Later(p.gate.protected, g.protected)
           k == c = p.gate.completed /\ p.gate.continuation
           h == [completed |-> c, protected |-> w, continuation |-> k]
           a == Later(Later(p.at, w), IF k THEN LongAgo ELSE c + MinInterval)
<1>1. /\ p.gate \in Gates /\ p.at \in Times
      /\ p.gate.completed \in Times /\ p.gate.protected \in Times
      /\ p.gate.continuation \in BOOLEAN
      /\ g.completed \in Times /\ g.protected \in Times
  BY DEF Plans, Gates
<1>2. c \in Times /\ w \in Times
  BY <1>1, LaterTime
<1>3. k \in BOOLEAN /\ (k => p.gate.continuation)
  BY <1>1
<1>4. Merged(p, g) = [p EXCEPT !.gate = h, !.at = a]
  BY DEF Merged
<1> HIDE DEF c, w, k
<1>5. c + MinInterval \in Times
  BY <1>2, TimesAreTimes DEF Times
<1>6. a \in Times
  BY <1>1, <1>2, <1>5, TimesAreTimes, LaterTime
<1>7. h \in Gates /\ h.completed = c /\ h.protected = w /\ h.continuation = k
  BY <1>2, <1>3 DEF Gates
<1> HIDE DEF a, h
<1>8. /\ Merged(p, g) \in Plans /\ Merged(p, g).gate = h
      /\ Merged(p, g).kind = p.kind /\ Merged(p, g).interval = p.interval
  BY <1>4, <1>6, <1>7 DEF Plans
<1>9. QED
  BY <1>3, <1>7, <1>8 DEF c, w

(***************************************************************************)
(* #persistSchedule: the saved gate covers what the schedule covered.      *)
(***************************************************************************)
LEMMA SavedIsGate ==
    ASSUME NEW m, CopyOfGate(m, gate)
    PROVE  Saved(m) = gate
BY DEF CopyOfGate, Saved

LEMMA MergeCovers ==
    ASSUME NEW p \in Plans, NEW g \in Gates, NEW q, NEW f,
           Covered(q, f, [completed |-> Later(p.gate.completed, g.completed),
                          protected |-> Later(p.gate.protected, g.protected),
                          continuation |-> p.gate.continuation])
    PROVE  Covered(q, f, Merged(p, g).gate)
<1>1. PICK n : n = Merged(p, g)
  OBVIOUS
<1>2. /\ n.gate.completed = Later(p.gate.completed, g.completed)
      /\ n.gate.protected = Later(p.gate.protected, g.protected)
      /\ n.gate.continuation => p.gate.continuation
  BY <1>1, MergedPlan
<1>3. PICK h : h = n.gate
  OBVIOUS
<1>4. QED
  BY <1>1, <1>2, <1>3 DEF Covered

LEMMA Commits ==
    ASSUME NEW m \in Memories, gate \in Gates, CopyOfGate(m, gate), Owing(m),
           NEW q, NEW f, QuietKept(m, gate, q, f)
    PROVE  /\ PersistedGate(m) \in Gates
           /\ Covered(q, f, PersistedGate(m))
           /\ LET n == Persisted(m)
              IN  /\ n \in Memories /\ ~Owing(n) /\ n.lastGate = PersistedGate(m)
                  /\ n.life = m.life /\ n.current = m.current /\ n.timer = m.timer
<1>1. m.unpersisted \in Plans
  BY DEF Memories
<1>2. PICK p : p = Merged(m.unpersisted, gate)
  OBVIOUS
<1>3. p.gate \in Gates
  BY <1>1, <1>2, MergedPlan
<1>4. PersistedGate(m) = p.gate
  BY <1>2, SavedIsGate DEF PersistedGate
<1>5. Covered(q, f, p.gate)
  BY <1>1, <1>2, MergeCovers DEF QuietKept, Effective
<1>6. PICK k : k = [m EXCEPT !.lastGate = p.gate, !.unpersisted = Nothing]
  OBVIOUS
<1>7. /\ k \in Memories /\ k.lastGate = p.gate /\ k.unpersisted = Nothing
      /\ k.life = m.life /\ k.current = m.current /\ k.timer = m.timer
  BY <1>3, <1>6, NothingTyped DEF Memories
<1>8. Persisted(m) = StorageRecovered(k)
  BY <1>2, <1>6, SavedIsGate DEF Persisted
<1>9. PICK n : n = StorageRecovered(k)
  OBVIOUS
<1>10. /\ n \in Memories
       /\ n.life = k.life /\ n.current = k.current /\ n.timer = k.timer
       /\ n.lastGate = k.lastGate /\ n.unpersisted = k.unpersisted
  BY <1>7, <1>9, StorageRecovers
<1>11. ~Owing(n)
  BY <1>7, <1>10 DEF Owing, Nothing
<1>12. QED
  BY <1>3, <1>4, <1>5, <1>7, <1>8, <1>9, <1>10, <1>11

LEMMA CommitFails ==
    ASSUME NEW m \in Memories, gate \in Gates, CopyOfGate(m, gate), Owing(m),
           NEW q, NEW f, QuietKept(m, gate, q, f), NEW fault
    PROVE  LET n == PersistFailed(m, fault)
           IN  /\ n \in Memories /\ Owing(n) /\ QuietKept(n, gate, q, f)
               /\ n.life = m.life /\ n.current = m.current /\ n.timer = m.timer
               /\ n.lastGate = m.lastGate
<1>1. CASE fault = "read"
  BY <1>1 DEF PersistFailed
<1>2. CASE fault # "read"
  <2>1. m.unpersisted \in Plans
    BY DEF Memories
  <2>2. PICK p : p = Merged(m.unpersisted, gate)
    OBVIOUS
  <2>3. /\ p \in Plans /\ p.kind = m.unpersisted.kind
        /\ p.gate.completed = Later(m.unpersisted.gate.completed, gate.completed)
        /\ p.gate.protected = Later(m.unpersisted.gate.protected, gate.protected)
        /\ p.gate.continuation => m.unpersisted.gate.continuation
    BY <2>1, <2>2, MergedPlan
  <2>4. PICK n : n = [m EXCEPT !.unpersisted = p]
    OBVIOUS
  <2>5. /\ n \in Memories /\ n.unpersisted = p /\ n.lastGate = m.lastGate
        /\ n.life = m.life /\ n.current = m.current /\ n.timer = m.timer
    BY <2>3, <2>4 DEF Memories
  <2>6. PersistFailed(m, fault) = n
    BY <1>2, <2>2, <2>4, SavedIsGate DEF PersistFailed
  <2>7. Owing(n)
    BY <2>3, <2>5 DEF Owing
  <2>8. /\ Later(p.gate.completed, gate.completed) = p.gate.completed
        /\ Later(p.gate.protected, gate.protected) = p.gate.protected
    <3>1. /\ m.unpersisted.gate.completed \in Int /\ m.unpersisted.gate.protected \in Int
          /\ gate.completed \in Int /\ gate.protected \in Int
      BY <2>1 DEF Plans, Gates, Times
    <3>2. QED
      BY <2>3, <3>1 DEF Later
  <2>9. QuietKept(n, gate, q, f)
    <3>1. PICK e : e = Effective(m, gate)
      OBVIOUS
    <3>2. Covered(q, f, e)
      BY <3>1 DEF QuietKept
    <3>3. /\ e.completed = p.gate.completed /\ e.protected = p.gate.protected
          /\ p.gate.continuation => e.continuation
      BY <2>3, <3>1 DEF Effective
    <3>4. PICK h : h = Effective(n, gate)
      OBVIOUS
    <3>5. /\ h.completed = p.gate.completed /\ h.protected = p.gate.protected
          /\ h.continuation = p.gate.continuation
      BY <2>5, <2>7, <2>8, <3>4 DEF Effective
    <3>6. Covered(q, f, h)
      BY <3>2, <3>3, <3>5 DEF Covered
    <3>7. QED
      BY <3>4, <3>6 DEF QuietKept
  <2>10. QED
    BY <2>5, <2>6, <2>7, <2>9
<1>3. QED
  BY <1>1, <1>2

(* #persistSchedule followed by #armSchedule.                              *)
LEMMA RecordsSchedule ==
    ASSUME NEW m \in Memories, gate \in Gates, CopyOfGate(m, gate), Owing(m),
           NEW q, NEW f, QuietKept(m, gate, q, f)
    PROVE  LET n == Recorded(m)
           IN  /\ n \in Memories /\ ~Owing(n) /\ n.lastGate = PersistedGate(m)
               /\ n.life = m.life /\ n.current = m.current
               /\ m.life = "started" => Armed(n)
               /\ m.life # "started" => n.timer = m.timer
<1>1. PICK k : k = Persisted(m)
  OBVIOUS
<1>2. /\ k \in Memories /\ ~Owing(k) /\ k.lastGate = PersistedGate(m)
      /\ k.life = m.life /\ k.current = m.current /\ k.timer = m.timer
  BY <1>1, Commits
<1>3. PICK p : p = Merged(m.unpersisted, gate)
  OBVIOUS
<1>4. /\ p.at \in Times /\ p.interval \in Nat /\ p.kind \in Kinds \ {"none"}
  <2>1. m.unpersisted \in Plans /\ m.unpersisted.kind # "none"
    BY DEF Memories, Owing
  <2>2. p \in Plans /\ p.kind = m.unpersisted.kind
    BY <1>3, <2>1, MergedPlan
  <2>3. QED
    BY <2>1, <2>2 DEF Plans
<1>5. Recorded(m) = ArmSchedule(k, p)
  BY <1>1, <1>3, SavedIsGate DEF Recorded
<1>6. PICK n : n = ScheduleAt(k, p.at, p.interval, p.kind)
  OBVIOUS
<1>7. /\ n \in Memories /\ Armed(n) /\ n.life = k.life /\ n.current = k.current
      /\ n.lastGate = k.lastGate /\ n.unpersisted = k.unpersisted
  BY <1>2, <1>4, <1>6, ScheduledAt
<1>8. ArmSchedule(k, p) = IF k.life = "started" THEN n ELSE k
  BY <1>6 DEF ArmSchedule
<1>9. QED
  BY <1>2, <1>5, <1>7, <1>8 DEF Owing

(***************************************************************************)
(* trigger(): whoever calls it, the object is left armed or scanning, and  *)
(* a scan starts only once everything asked for is over.                   *)
(***************************************************************************)
LEMMA ScanMayStart ==
    ASSUME NEW g \in Gates, NEW q \in Quiets, NEW f \in 0 .. MaxFaults,
           Covered(q, f, g), g.protected =< 0,
           g = NoGate \/ g.continuation \/ g.completed + MinInterval =< 0
    PROVE  q.protected =< 0 /\ q.spacing =< 0
<1>1. /\ g.protected \in Int /\ g.completed \in Int
      /\ q.protected \in Int /\ q.spacing \in Int /\ LongAgo =< 0
      /\ MinInterval \in Nat /\ Horizon \in Nat /\ MaxFaults \in Nat
  BY TimesAreTimes, DelaysAssumption DEF Gates, Quiets, Times
<1>2. q.protected =< 0
  BY <1>1 DEF Covered
<1>3. CASE g.continuation
  BY <1>1, <1>3, <1>2 DEF Covered
<1>4. CASE ~g.continuation
  <2>1. MinInterval =< Horizon
    <3>1. MinInterval - MaxFaults * 0 =< Horizon
      BY CutOffAssumption
    <3>2. QED
      BY <1>1, <3>1
  <2>2. g.completed + MinInterval =< 0
    BY <1>1, <1>4, <2>1 DEF NoGate, LongAgo
  <2>3. Spaced(q, f, g.completed)
    BY DEF Covered
  <2>4. CASE q.spacing =< g.completed + MinInterval
    BY <1>1, <1>2, <2>2, <2>4
  <2>5. CASE \A d \in ClockSteps \cup {0} : q.spacing =< (MaxFaults - f) * d
    <3>1. q.spacing =< (MaxFaults - f) * 0
      BY <2>5
    <3>2. QED
      BY <1>1, <1>2, <3>1
  <2>6. QED
    BY <2>3, <2>4, <2>5 DEF Spaced
<1>5. QED
  BY <1>3, <1>4

(* What every caller of trigger() has.                                     *)
Callable(m) ==
    /\ m \in Memories /\ gate \in Gates /\ quiet \in Quiets /\ faults \in 0 .. MaxFaults
    /\ CopyOfGate(m, gate) /\ QuietKept(m, gate, quiet, faults)
    /\ m.life = "started" /\ cadence \in Intervals

LEMMA CallableHas ==
    ASSUME NEW m, Callable(m)
    PROVE  /\ m \in Memories /\ gate \in Gates /\ quiet \in Quiets /\ faults \in 0 .. MaxFaults
           /\ CopyOfGate(m, gate) /\ QuietKept(m, gate, quiet, faults)
           /\ m.life = "started" /\ cadence \in Intervals /\ Saved(m) = gate
BY SavedIsGate DEF Callable

LEMMA ReadsGate ==
    ASSUME NEW m \in Memories, gate \in Gates, CopyOfGate(m, gate)
    PROVE  LET n == StorageRecovered([m EXCEPT !.lastGate = Saved(m)])
           IN  /\ n \in Memories /\ n.lastGate = gate /\ n.unpersisted = m.unpersisted
               /\ n.life = m.life /\ n.current = m.current /\ n.timer = m.timer
<1>1. PICK k : k = [m EXCEPT !.lastGate = Saved(m)]
  OBVIOUS
<1>2. /\ k \in Memories /\ k.lastGate = gate /\ k.unpersisted = m.unpersisted
      /\ k.life = m.life /\ k.current = m.current /\ k.timer = m.timer
  BY <1>1, SavedIsGate DEF Memories
<1>3. PICK n : n = StorageRecovered(k)
  OBVIOUS
<1>4. /\ n \in Memories /\ n.lastGate = k.lastGate /\ n.unpersisted = k.unpersisted
      /\ n.life = k.life /\ n.current = k.current /\ n.timer = k.timer
  BY <1>2, <1>3, StorageRecovers
<1>5. QED
  BY <1>1, <1>2, <1>3, <1>4

(* An armed object between scans.                                          *)
LEMMA WaitingIsConsistent ==
    ASSUME NEW m \in Memories, NEW g \in Gates, NEW q \in Quiets, NEW f \in 0 .. MaxFaults,
           m.life = "started" => Armed(m), m.life # "started" => ~Armed(m),
           m.current # "running", CopyOfGate(m, g), QuietKept(m, g, q, f)
    PROVE  Consistent(m, g, q, f)
BY DEF Consistent, Owned, OwedBetweenScans

LEMMA KeepsGate ==
    ASSUME NEW m, NEW n, NEW g, NEW q, NEW f, n.unpersisted = m.unpersisted,
           QuietKept(m, g, q, f)
    PROVE  QuietKept(n, g, q, f)
BY DEF QuietKept, Effective, Owing

LEMMA TriggerFails ==
    ASSUME NEW m \in Memories, NEW g \in Gates, NEW q \in Quiets, NEW f \in 0 .. MaxFaults,
           m.life # "started" => ~Armed(m),
           m.current # "running", CopyOfGate(m, g), QuietKept(m, g, q, f)
    PROVE  Consistent(StorageFailed(m), g, q, f)
<1>1. PICK n : n = StorageFailed(m)
  OBVIOUS
<1>2. /\ n \in Memories /\ n.life = m.life /\ n.current = m.current
      /\ n.lastGate = m.lastGate /\ n.unpersisted = m.unpersisted
      /\ m.life = "started" => Armed(n)
      /\ m.life # "started" => n.timer = m.timer
  BY <1>1, StorageFails
<1>3. QuietKept(n, g, q, f)
  BY <1>2, KeepsGate
<1>4. CopyOfGate(n, g) /\ (n.life # "started" => ~Armed(n))
  BY <1>2 DEF CopyOfGate, Armed
<1>5. Consistent(n, g, q, f)
  BY <1>2, <1>3, <1>4, WaitingIsConsistent
<1>6. QED
  BY <1>1, <1>5

LEMMA RestoreKeeps ==
    ASSUME NEW m, Callable(m), TriggerRestores(m)
    PROVE  LInv' /\ s'.current # "running"
<1>1. /\ m \in Memories /\ gate \in Gates /\ quiet \in Quiets /\ faults \in 0 .. MaxFaults
      /\ CopyOfGate(m, gate) /\ QuietKept(m, gate, quiet, faults)
      /\ m.life = "started" /\ cadence \in Intervals
  BY CallableHas
<1>2. /\ m.current = "none" /\ Owing(m)
      /\ cadence' = cadence /\ quiet' = quiet /\ faults' = faults
  BY DEF TriggerRestores, Refused
<1>3. CASE gate' = PersistedGate(m) /\ s' = [Recorded(m) EXCEPT !.pending = TRUE]
  <2>1. PICK k : k = Recorded(m)
    OBVIOUS
  <2>2. /\ k \in Memories /\ ~Owing(k) /\ k.lastGate = PersistedGate(m)
        /\ k.life = m.life /\ k.current = m.current /\ Armed(k)
    BY <1>1, <1>2, <2>1, RecordsSchedule
  <2>3. PersistedGate(m) \in Gates /\ Covered(quiet, faults, PersistedGate(m))
    BY <1>1, <1>2, Commits
  <2>4. PICK n : n = [k EXCEPT !.pending = TRUE]
    OBVIOUS
  <2>5. /\ n \in Memories /\ n.lastGate = gate' /\ ~Owing(n)
        /\ n.life = "started" /\ n.current = "none" /\ Armed(n)
    BY <1>1, <1>2, <1>3, <2>2, <2>4 DEF Memories, Owing, Armed
  <2>6. QuietKept(n, gate', quiet, faults)
    BY <1>3, <2>3, <2>5 DEF QuietKept, Effective
  <2>7. Consistent(n, gate', quiet, faults)
    BY <1>1, <1>3, <2>3, <2>5, <2>6, WaitingIsConsistent DEF CopyOfGate
  <2>8. s' = n
    BY <1>3, <2>1, <2>4
  <2>9. QED
    BY <1>1, <1>2, <2>5, <2>7, <2>8 DEF LInv
<1>4. CASE \E fault \in {"read", "write"} :
              s' = StorageFailed(PersistFailed(m, fault)) /\ UNCHANGED gate
  <2>1. PICK fault \in {"read", "write"} :
              s' = StorageFailed(PersistFailed(m, fault)) /\ UNCHANGED gate
    BY <1>4
  <2>2. PICK n : n = PersistFailed(m, fault)
    OBVIOUS
  <2>3. /\ n \in Memories /\ QuietKept(n, gate, quiet, faults)
        /\ n.life = m.life /\ n.current = m.current /\ n.lastGate = m.lastGate
    BY <1>1, <1>2, <2>2, CommitFails
  <2>4. CopyOfGate(n, gate)
    BY <1>1, <2>3 DEF CopyOfGate
  <2>5. Consistent(StorageFailed(n), gate, quiet, faults)
    BY <1>1, <1>2, <2>3, <2>4, TriggerFails
  <2>6. s'.current = n.current
    BY <2>1, <2>2, <2>3, StorageFails
  <2>7. QED
    BY <1>1, <1>2, <2>1, <2>2, <2>3, <2>5, <2>6 DEF LInv
<1>5. QED
  BY <1>3, <1>4 DEF TriggerRestores

LEMMA UnreadableKeeps ==
    ASSUME NEW m, Callable(m), TriggerCannotRead(m)
    PROVE  LInv' /\ s'.current # "running"
<1>1. /\ m \in Memories /\ gate \in Gates /\ quiet \in Quiets /\ faults \in 0 .. MaxFaults
      /\ CopyOfGate(m, gate) /\ QuietKept(m, gate, quiet, faults)
      /\ m.life = "started" /\ cadence \in Intervals
  BY CallableHas
<1>2. /\ m.current = "none" /\ s' = StorageFailed(m)
      /\ gate' = gate /\ cadence' = cadence /\ quiet' = quiet /\ faults' = faults
  BY DEF TriggerCannotRead, Refused
<1>3. Consistent(StorageFailed(m), gate, quiet, faults)
  BY <1>1, <1>2, TriggerFails
<1>4. s'.current = m.current
  BY <1>1, <1>2, StorageFails
<1>5. QED
  BY <1>1, <1>2, <1>3, <1>4 DEF LInv

LEMMA EarliestTime ==
    ASSUME NEW m, Callable(m)
    PROVE  /\ Earliest(m) \in Times
           /\ Earliest(m) >= gate.protected
           /\ gate # NoGate /\ ~gate.continuation => Earliest(m) >= gate.completed + MinInterval
<1>1. /\ m \in Memories /\ gate \in Gates /\ Saved(m) = gate
  BY CallableHas
<1>2. /\ gate.protected \in Times /\ gate.completed \in Times /\ m.timer.at \in Times
      /\ m.lastCompleted \in Times /\ LongAgo \in Times
      /\ MinInterval \in Nat /\ Horizon \in Nat
  BY <1>1, TimesAreTimes, DelaysAssumption DEF Memories, Gates, Timers
<1>3. PICK w : w = IF m.timer.kind = "retry" THEN m.timer.at ELSE LongAgo
  OBVIOUS
<1>4. PICK u : u = Later(gate.protected, w)
  OBVIOUS
<1>5. w \in Times /\ u \in Times /\ u >= gate.protected
  BY <1>2, <1>3, <1>4, LaterTime
<1>6. ProtectedUntil(m) = u
  BY <1>1, <1>3, <1>4 DEF ProtectedUntil
<1>7. PICK c : c = IF gate = NoGate THEN m.timer.kind = "continuation" ELSE gate.continuation
  OBVIOUS
<1>8. PICK t : t = IF gate = NoGate THEN m.lastCompleted ELSE gate.completed
  OBVIOUS
<1>9. PICK v : v = IF c THEN LongAgo ELSE t + MinInterval
  OBVIOUS
<1>10. v \in Times
  BY <1>2, <1>8, <1>9 DEF Times
<1>11. Earliest(m) = Later(u, v)
  BY <1>1, <1>6, <1>7, <1>8, <1>9 DEF Earliest
<1>12. Later(u, v) \in Times /\ Later(u, v) >= u /\ Later(u, v) >= v
  BY <1>5, <1>10, LaterTime
<1>13. gate # NoGate /\ ~gate.continuation => v = gate.completed + MinInterval
  BY <1>7, <1>8, <1>9
<1>14. Earliest(m) >= gate.protected
  BY <1>2, <1>5, <1>11, <1>12 DEF Times
<1>15. QED
  BY <1>11, <1>12, <1>13, <1>14

LEMMA WaitKeeps ==
    ASSUME NEW m, Callable(m), NEW reason, TriggerWaits(m, reason)
    PROVE  LInv' /\ s'.current # "running"
<1>1. /\ m \in Memories /\ gate \in Gates /\ quiet \in Quiets /\ faults \in 0 .. MaxFaults
      /\ CopyOfGate(m, gate) /\ QuietKept(m, gate, quiet, faults)
      /\ m.life = "started" /\ cadence \in Intervals
  BY CallableHas
<1>2. /\ m.current = "none"
      /\ gate' = gate /\ cadence' = cadence /\ quiet' = quiet /\ faults' = faults
  BY DEF TriggerWaits, Refused
<1>3. PICK read : read = StorageRecovered([m EXCEPT !.lastGate = Saved(m)])
  OBVIOUS
<1>4. /\ read \in Memories /\ read.lastGate = gate /\ read.unpersisted = m.unpersisted
      /\ read.life = m.life /\ read.current = m.current /\ read.timer = m.timer
  BY <1>1, <1>3, ReadsGate
<1>5. PICK i \in {cadence, m.resolved} :
          s' = [IF m.timer.kind = "continuation" THEN read
                ELSE ScheduleAt([read EXCEPT !.resolved = i], Earliest(m), i,
                         IF ProtectedUntil(m) > 0 THEN "retry" ELSE "manual")
                EXCEPT !.pending = TRUE]
  BY <1>3 DEF TriggerWaits
<1>6. PICK kind : kind = IF ProtectedUntil(m) > 0 THEN "retry" ELSE "manual"
  OBVIOUS
<1>7. PICK k : k = [read EXCEPT !.resolved = i]
  OBVIOUS
<1>8. i \in Intervals
  BY <1>1 DEF Memories
<1>9. /\ k \in Memories /\ k.lastGate = gate /\ k.unpersisted = m.unpersisted
      /\ k.life = m.life /\ k.current = m.current
  BY <1>4, <1>7, <1>8 DEF Memories
<1>10. PICK a : a = ScheduleAt(k, Earliest(m), i, kind)
  OBVIOUS
<1>11. Earliest(m) \in Times /\ i \in Nat /\ kind \in Kinds \ {"none"}
  BY <1>6, <1>8, EarliestTime, TimesAreTimes DEF Kinds
<1>12. /\ a \in Memories /\ Armed(a) /\ a.life = k.life /\ a.current = k.current
       /\ a.lastGate = k.lastGate /\ a.unpersisted = k.unpersisted
  BY <1>9, <1>10, <1>11, ScheduledAt
<1>13. PICK r : r = IF m.timer.kind = "continuation" THEN read ELSE a
  OBVIOUS
<1>14. /\ r \in Memories /\ Armed(r) /\ r.life = m.life /\ r.current = m.current
       /\ r.lastGate = gate /\ r.unpersisted = m.unpersisted
  BY <1>4, <1>9, <1>12, <1>13 DEF Armed
<1>15. PICK n : n = [r EXCEPT !.pending = TRUE]
  OBVIOUS
<1>16. /\ n \in Memories /\ Armed(n) /\ n.life = "started" /\ n.current = "none"
       /\ n.lastGate = gate /\ n.unpersisted = m.unpersisted
  BY <1>1, <1>2, <1>14, <1>15 DEF Memories, Armed
<1>17. s' = n
  BY <1>5, <1>6, <1>7, <1>10, <1>13, <1>15
<1>18. QuietKept(n, gate, quiet, faults)
  BY <1>1, <1>16, KeepsGate
<1>19. Consistent(n, gate, quiet, faults)
  BY <1>1, <1>16, <1>18, WaitingIsConsistent DEF CopyOfGate
<1>20. QED
  BY <1>1, <1>2, <1>16, <1>17, <1>19 DEF LInv

LEMMA ScanKeeps ==
    ASSUME NEW m, Callable(m), NEW reason, TriggerScans(m, reason)
    PROVE  LInv' /\ quiet.protected =< 0 /\ quiet.spacing =< 0
<1>1. /\ m \in Memories /\ gate \in Gates /\ quiet \in Quiets /\ faults \in 0 .. MaxFaults
      /\ CopyOfGate(m, gate) /\ QuietKept(m, gate, quiet, faults)
      /\ m.life = "started" /\ cadence \in Intervals
  BY CallableHas
<1>2. /\ ~Owing(m) /\ ~(Earliest(m) > 0)
      /\ gate' = gate /\ cadence' = cadence /\ quiet' = quiet /\ faults' = faults
  BY DEF TriggerScans, MustWait
<1>3. PICK read : read = StorageRecovered([m EXCEPT !.lastGate = Saved(m)])
  OBVIOUS
<1>4. /\ read \in Memories /\ read.lastGate = gate /\ read.unpersisted = m.unpersisted
      /\ read.life = m.life
  BY <1>1, <1>3, ReadsGate
<1>5. PICK n : n = [read EXCEPT !.timer = NoTimer, !.current = "running",
                                !.previous = read.health.state,
                                !.health.state = "running"]
  OBVIOUS
<1>6. read.health \in Healths /\ read.health.state \in States
  BY <1>4 DEF Memories, Healths
<1>7. [read.health EXCEPT !.state = "running"] \in Healths
  BY <1>6 DEF Healths, States
<1>8. /\ n \in Memories /\ n.lastGate = gate /\ n.unpersisted = m.unpersisted
      /\ n.life = "started" /\ n.timer = NoTimer /\ n.current = "running"
  BY <1>1, <1>4, <1>5, <1>6, <1>7, NothingTyped DEF Memories
<1>9. s' = n
  BY <1>3, <1>5 DEF TriggerScans
<1>10. QuietKept(n, gate, quiet, faults)
  BY <1>1, <1>8, KeepsGate
<1>11. Consistent(n, gate, quiet, faults)
  BY <1>1, <1>2, <1>8, <1>10 DEF Consistent, Owned, Armed, NoTimer, CopyOfGate,
                                 OwedBetweenScans, Owing
<1>12. Covered(quiet, faults, gate)
  BY <1>1, <1>2 DEF QuietKept, Effective
<1>13. /\ gate.protected \in Int /\ gate.completed \in Int /\ MinInterval \in Int
  BY <1>1, DelaysAssumption DEF Gates, Times
<1>14. /\ Earliest(m) \in Int /\ Earliest(m) >= gate.protected
       /\ gate # NoGate /\ ~gate.continuation => Earliest(m) >= gate.completed + MinInterval
  BY EarliestTime DEF Times
<1>15. /\ gate.protected =< 0
       /\ gate = NoGate \/ gate.continuation \/ gate.completed + MinInterval =< 0
  BY <1>2, <1>13, <1>14
<1>16. quiet.protected =< 0 /\ quiet.spacing =< 0
  BY <1>1, <1>12, <1>15, ScanMayStart
<1>17. QED
  BY <1>1, <1>2, <1>9, <1>11, <1>16 DEF LInv

LEMMA TriggerKeeps ==
    ASSUME NEW m, Callable(m), NEW reason, Trigger(m, reason)
    PROVE  LInv' /\ (s'.current = "running" => quiet.protected =< 0 /\ quiet.spacing =< 0)
<1>1. CASE TriggerRestores(m)
  BY <1>1, RestoreKeeps
<1>2. CASE TriggerCannotRead(m)
  BY <1>2, UnreadableKeeps
<1>3. CASE TriggerWaits(m, reason)
  BY <1>3, WaitKeeps
<1>4. CASE TriggerScans(m, reason)
  BY <1>4, ScanKeeps
<1>5. QED
  BY <1>1, <1>2, <1>3, <1>4 DEF Trigger

LEMMA InitL == Init => LInv
<1> SUFFICES ASSUME Init PROVE LInv
  OBVIOUS
<1>1. PICK i \in Intervals : cadence = i /\ s = [Fresh(i) EXCEPT !.life = "stopped"]
  BY DEF Init
<1>2. gate = NoGate /\ quiet = [protected |-> LongAgo, spacing |-> LongAgo] /\ faults = 0
  BY DEF Init
<1>3. PICK m : m = Fresh(i)
  OBVIOUS
<1>4. /\ m \in Memories /\ m.current = "none" /\ m.lastGate = NoGate
      /\ ~Armed(m) /\ ~Owing(m)
  BY <1>3, FreshMemory
<1>5. /\ s \in Memories /\ s.life = "stopped" /\ s.current = "none"
      /\ s.lastGate = NoGate /\ ~Armed(s) /\ ~Owing(s)
  BY <1>1, <1>3, <1>4 DEF Memories, Armed, Owing
<1>6. /\ gate \in Gates /\ quiet \in Quiets /\ faults \in 0 .. MaxFaults
  BY <1>2, NothingTyped, TimesAreTimes, DelaysAssumption DEF Quiets
<1>7. Covered(quiet, faults, gate)
  BY <1>2, TimesAreTimes, DelaysAssumption DEF Covered, Spaced, NoGate, LongAgo
<1>8. QuietKept(s, gate, quiet, faults)
  BY <1>5, <1>7 DEF QuietKept, Effective
<1>9. QED
  BY <1>1, <1>2, <1>5, <1>6, <1>8, WaitingIsConsistent DEF LInv, CopyOfGate

-----------------------------------------------------------------------------
(* Requests and timers.                                                    *)

LEMMA RunningCallable ==
    ASSUME LInv, s.life = "started"
    PROVE  Callable(s)
BY DEF LInv, Consistent, Callable

LEMMA RequestKeeps ==
    ASSUME LInv, Request
    PROVE  LInv' /\ (s'.current = "running" => quiet.protected =< 0 /\ quiet.spacing =< 0)
BY RunningCallable, TriggerKeeps DEF Request

LEMMA TimerDueStarted ==
    ASSUME LInv, TimerDue
    PROVE  s.life = "started" /\ s.current = "none"
BY DEF LInv, Consistent, Owned, TimerDue, Memories

LEMMA RewaitKeeps ==
    ASSUME LInv, s.life = "started", s.current = "none",
           NEW i \in {cadence, s.resolved}, NEW at \in Times,
           s' = ScheduleAt([s EXCEPT !.resolved = i], at, i, "normal"),
           UNCHANGED <<gate, cadence, quiet, faults>>
    PROVE  LInv' /\ s'.current # "running"
<1>1. i \in Intervals /\ i \in Nat /\ "normal" \in Kinds \ {"none"}
  BY TimesAreTimes DEF LInv, Consistent, Memories, Kinds
<1>2. PICK k : k = [s EXCEPT !.resolved = i]
  OBVIOUS
<1>3. /\ k \in Memories /\ k.lastGate = s.lastGate /\ k.unpersisted = s.unpersisted
      /\ k.life = s.life /\ k.current = s.current
  BY <1>1, <1>2 DEF LInv, Consistent, Memories
<1>4. PICK n : n = ScheduleAt(k, at, i, "normal")
  OBVIOUS
<1>5. /\ n \in Memories /\ Armed(n) /\ n.life = k.life /\ n.current = k.current
      /\ n.lastGate = k.lastGate /\ n.unpersisted = k.unpersisted
  BY <1>1, <1>3, <1>4, ScheduledAt
<1>6. QuietKept(n, gate, quiet, faults) /\ CopyOfGate(n, gate)
  BY <1>3, <1>5, KeepsGate DEF LInv, Consistent, CopyOfGate
<1>7. Consistent(n, gate, quiet, faults)
  BY <1>3, <1>5, <1>6, WaitingIsConsistent DEF LInv, Consistent
<1>8. s' = n
  BY <1>2, <1>4
<1>9. QED
  BY <1>3, <1>5, <1>7, <1>8 DEF LInv

LEMMA TimerPostponesKeeps ==
    ASSUME LInv, TimerPostpones
    PROVE  LInv' /\ s'.current # "running"
<1>1. s.life = "started" /\ s.current = "none"
  BY TimerDueStarted DEF TimerPostpones
<1>2. PICK i \in {cadence, s.resolved} :
        /\ i > s.timer.interval /\ NormalDueAt(i) > 0
        /\ s' = ScheduleAt([s EXCEPT !.resolved = i], NormalDueAt(i), i, "normal")
  BY DEF TimerPostpones
<1>3. i \in Nat /\ s.lastCompleted \in Times
  BY TimesAreTimes DEF LInv, Consistent, Memories
<1>4. NormalDueAt(i) \in Times
  BY <1>3, TimesAreTimes DEF NormalDueAt, Times
<1>5. PICK at : at = NormalDueAt(i)
  OBVIOUS
<1>6. QED
  BY <1>1, <1>2, <1>4, <1>5, RewaitKeeps DEF TimerPostpones

LEMMA TimerFiresKeeps ==
    ASSUME LInv, TimerFires
    PROVE  LInv' /\ (s'.current = "running" => quiet.protected =< 0 /\ quiet.spacing =< 0)
<1>1. s.life = "started" /\ s.current = "none"
  BY TimerDueStarted DEF TimerFires
<1>2. PICK m : m = [s EXCEPT !.timer = NoTimer]
  OBVIOUS
<1>3. /\ m \in Memories /\ m.lastGate = s.lastGate /\ m.unpersisted = s.unpersisted
      /\ m.life = s.life
  BY <1>2, NothingTyped DEF LInv, Consistent, Memories
<1>4. Callable(m)
  BY <1>1, <1>3, KeepsGate DEF LInv, Consistent, Callable, CopyOfGate
<1>5. CASE s.timer.kind # "normal"
  BY <1>2, <1>4, <1>5, TriggerKeeps DEF TimerFires
<1>6. CASE s.timer.kind = "normal"
  <2>1. PICK i \in {cadence, s.resolved} : Trigger([m EXCEPT !.resolved = i], "scheduled")
    BY <1>2, <1>6 DEF TimerFires
  <2>2. PICK n : n = [m EXCEPT !.resolved = i]
    OBVIOUS
  <2>3. i \in Intervals
    BY DEF LInv, Consistent, Memories
  <2>4. /\ n \in Memories /\ n.lastGate = m.lastGate /\ n.unpersisted = m.unpersisted
        /\ n.life = m.life
    BY <1>3, <2>2, <2>3 DEF Memories
  <2>5. Callable(n)
    BY <1>4, <2>4, KeepsGate DEF Callable, CopyOfGate
  <2>6. QED
    BY <2>1, <2>2, <2>5, TriggerKeeps
<1>7. QED
  BY <1>5, <1>6

LEMMA RefreshKeeps ==
    ASSUME LInv, RefreshSchedule
    PROVE  LInv' /\ s'.current # "running"
<1>1. /\ s.life = "started" /\ s.current = "none" /\ s \in Memories
      /\ gate' = gate /\ cadence' = cadence /\ quiet' = quiet /\ faults' = faults
  BY DEF RefreshSchedule, LInv, Consistent
<1>2. PICK i \in {cadence, s.resolved} :
        s' = IF i = s.timer.interval THEN [s EXCEPT !.resolved = i]
             ELSE ScheduleAt([s EXCEPT !.resolved = i], RefreshedAt(i), i, "normal")
  BY DEF RefreshSchedule
<1>3. i \in Intervals /\ i \in Nat
  BY TimesAreTimes DEF LInv, Consistent, Memories
<1>4. CASE i = s.timer.interval
  <2>1. PICK n : n = [s EXCEPT !.resolved = i]
    OBVIOUS
  <2>2. /\ n \in Memories /\ n.lastGate = s.lastGate /\ n.unpersisted = s.unpersisted
        /\ n.life = s.life /\ n.current = s.current /\ n.timer = s.timer
    BY <1>1, <1>3, <2>1 DEF Memories
  <2>3. Armed(n)
    BY <1>1, <2>2 DEF LInv, Consistent, Owned, Armed
  <2>4. Consistent(n, gate, quiet, faults)
    BY <1>1, <2>2, <2>3, KeepsGate, WaitingIsConsistent DEF LInv, Consistent, CopyOfGate
  <2>5. s' = n
    BY <1>2, <1>4, <2>1
  <2>6. QED
    BY <1>1, <2>2, <2>4, <2>5 DEF LInv
<1>5. CASE i # s.timer.interval
  <2>1. /\ s.timer.at \in Times /\ s.lastCompleted \in Times
    BY <1>1 DEF Memories, Timers
  <2>2. RefreshedAt(i) \in Times
    BY <1>3, <2>1, TimesAreTimes DEF RefreshedAt, Sooner, Later, Times
  <2>3. PICK at : at = RefreshedAt(i)
    OBVIOUS
  <2>4. QED
    BY <1>1, <1>2, <1>5, <2>2, <2>3, RewaitKeeps
<1>6. QED
  BY <1>4, <1>5

-----------------------------------------------------------------------------
(* Stopping, replacing and crashing.                                       *)

LEMMA FinallyKeeps ==
    ASSUME LInv, Finally
    PROVE  LInv' /\ s'.current # "running"
<1>1. PICK n : n = [s EXCEPT !.current = "none"]
  OBVIOUS
<1>2. /\ s' = n /\ s.current = "settled" /\ s \in Memories
      /\ gate' = gate /\ cadence' = cadence /\ quiet' = quiet /\ faults' = faults
  BY <1>1 DEF Finally, LInv, Consistent
<1>3. /\ n \in Memories /\ n.lastGate = s.lastGate /\ n.unpersisted = s.unpersisted
      /\ n.life = s.life /\ n.timer = s.timer /\ n.current = "none"
  BY <1>1, <1>2 DEF Memories
<1>4. Owned(n)
  BY <1>2, <1>3 DEF LInv, Consistent, Owned, Armed
<1>5. Consistent(n, gate, quiet, faults)
  BY <1>3, <1>4, KeepsGate DEF LInv, Consistent, CopyOfGate, OwedBetweenScans
<1>6. QED
  BY <1>2, <1>3, <1>5 DEF LInv

LEMMA StopKeeps ==
    ASSUME LInv, Stop
    PROVE  LInv'
<1>1. PICK n : n = [s EXCEPT !.life = "stopping", !.pending = FALSE, !.timer = NoTimer]
  OBVIOUS
<1>2. /\ s' = n /\ s \in Memories
      /\ gate' = gate /\ cadence' = cadence /\ quiet' = quiet /\ faults' = faults
  BY <1>1 DEF Stop, LInv, Consistent
<1>3. /\ n \in Memories /\ n.lastGate = s.lastGate /\ n.unpersisted = s.unpersisted
      /\ n.life = "stopping" /\ n.timer = NoTimer /\ n.current = s.current
  BY <1>1, <1>2, NothingTyped DEF Memories
<1>4. Owned(n)
  BY <1>3 DEF Owned, Armed, NoTimer
<1>5. Consistent(n, gate, quiet, faults)
  BY <1>3, <1>4, KeepsGate DEF LInv, Consistent, CopyOfGate, OwedBetweenScans, Owing
<1>6. QED
  BY <1>2, <1>5 DEF LInv

(* A stopped object that is not armed, and what SaveOnStop makes of it.    *)
LEMMA SaveKeeps ==
    ASSUME NEW m \in Memories, NEW q \in Quiets, NEW f \in 0 .. MaxFaults, gate \in Gates,
           m.life # "started", ~Armed(m), m.current # "running",
           CopyOfGate(m, gate), QuietKept(m, gate, q, f), SaveOnStop(m)
    PROVE  Consistent(s', gate', q, f) /\ s'.current # "running"
<1>1. CASE s' = m /\ UNCHANGED gate
  BY <1>1, WaitingIsConsistent
<1>2. CASE Owing(m) /\ s' = Persisted(m) /\ gate' = PersistedGate(m)
  <2>1. PersistedGate(m) \in Gates /\ Covered(q, f, PersistedGate(m))
    BY <1>2, Commits
  <2>2. PICK n : n = Persisted(m)
    OBVIOUS
  <2>3. /\ n \in Memories /\ ~Owing(n) /\ n.lastGate = PersistedGate(m)
        /\ n.life = m.life /\ n.current = m.current /\ n.timer = m.timer
    BY <1>2, <2>2, Commits
  <2>4. QuietKept(n, gate', q, f) /\ CopyOfGate(n, gate') /\ ~Armed(n)
    BY <1>2, <2>1, <2>3 DEF QuietKept, Effective, CopyOfGate, Armed
  <2>5. Consistent(n, gate', q, f)
    BY <1>2, <2>1, <2>3, <2>4, WaitingIsConsistent
  <2>6. QED
    BY <1>2, <2>2, <2>3, <2>5
<1>3. CASE Owing(m) /\ \E fault \in {"read", "write"} :
                           s' = PersistFailed(m, fault) /\ UNCHANGED gate
  <2>1. PICK fault \in {"read", "write"} : s' = PersistFailed(m, fault) /\ UNCHANGED gate
    BY <1>3
  <2>2. /\ s' \in Memories /\ QuietKept(s', gate, q, f)
        /\ s'.life = m.life /\ s'.current = m.current /\ s'.timer = m.timer
        /\ s'.lastGate = m.lastGate
    BY <1>3, <2>1, CommitFails
  <2>3. CopyOfGate(s', gate) /\ ~Armed(s')
    BY <2>2 DEF CopyOfGate, Armed
  <2>4. Consistent(s', gate, q, f)
    BY <2>2, <2>3, WaitingIsConsistent
  <2>5. QED
    BY <2>1, <2>2, <2>4
<1>4. QED
  BY <1>1, <1>2, <1>3 DEF SaveOnStop

LEMMA StopFinishesKeeps ==
    ASSUME LInv, StopFinishes
    PROVE  LInv' /\ s'.current # "running"
<1>1. /\ s.life = "stopping" /\ s.current = "none" /\ s \in Memories /\ ~Armed(s)
      /\ cadence' = cadence /\ quiet' = quiet /\ faults' = faults
      /\ SaveOnStop([s EXCEPT !.life = "stopped", !.health.state = "stopped"])
  BY DEF StopFinishes, LInv, Consistent, Owned
<1>2. PICK n : n = [s EXCEPT !.life = "stopped", !.health.state = "stopped"]
  OBVIOUS
<1>3. [s.health EXCEPT !.state = "stopped"] \in Healths
  BY <1>1 DEF Memories, Healths, States
<1>4. /\ n \in Memories /\ n.lastGate = s.lastGate /\ n.unpersisted = s.unpersisted
      /\ n.life = "stopped" /\ n.timer = s.timer /\ n.current = "none"
  BY <1>1, <1>2, <1>3 DEF Memories
<1>5. ~Armed(n) /\ CopyOfGate(n, gate) /\ QuietKept(n, gate, quiet, faults)
  BY <1>1, <1>4, KeepsGate DEF LInv, Consistent, CopyOfGate, Armed
<1>6. Consistent(s', gate', quiet, faults) /\ s'.current # "running"
  BY <1>1, <1>2, <1>4, <1>5, SaveKeeps DEF LInv, Consistent
<1>7. QED
  BY <1>1, <1>6 DEF LInv

LEMMA StopAgainKeeps ==
    ASSUME LInv, StopAgain
    PROVE  LInv' /\ s'.current # "running"
<1>1. /\ s.life # "started" /\ s.current = "none" /\ s \in Memories /\ ~Armed(s)
      /\ cadence' = cadence /\ quiet' = quiet /\ faults' = faults /\ SaveOnStop(s)
  BY DEF StopAgain, LInv, Consistent, Owned
<1>2. Consistent(s', gate', quiet, faults) /\ s'.current # "running"
  BY <1>1, SaveKeeps DEF LInv, Consistent
<1>3. QED
  BY <1>1, <1>2 DEF LInv

LEMMA ReplaceKeeps ==
    ASSUME LInv, Replace
    PROVE  LInv' /\ (s'.current = "running" => quiet.protected =< 0 /\ quiet.spacing =< 0)
<1>1. PICK i \in Intervals : Trigger(Fresh(i), "startup")
  BY DEF Replace
<1>2. PICK m : m = Fresh(i)
  OBVIOUS
<1>3. /\ m \in Memories /\ m.life = "started" /\ m.lastGate = NoGate /\ ~Owing(m)
  BY <1>2, FreshMemory
<1>4. Covered(quiet, faults, gate)
  BY DEF Replace, LInv, Consistent, QuietKept, Effective
<1>5. QuietKept(m, gate, quiet, faults)
  BY <1>3, <1>4 DEF QuietKept, Effective
<1>6. Callable(m)
  BY <1>3, <1>5 DEF LInv, Consistent, Callable, CopyOfGate
<1>7. QED
  BY <1>1, <1>2, <1>6, TriggerKeeps

-----------------------------------------------------------------------------
(* The end of a scan.                                                      *)

LEMMA ResultsTyped ==
    ASSUME NEW r \in Results
    PROVE  /\ r.status \in {"COMPLETED", "PARTIAL", "SKIPPED", "THREW", "FAILED", "ABORTED"}
           /\ r.after \in Nat
BY DelaysAssumption DEF Results, Result

LEMMA NotedMemory ==
    ASSUME NEW m \in Memories, NEW r \in Results
    PROVE  LET n == Noted(m, r)
           IN  /\ n \in Memories
               /\ n.life = m.life /\ n.current = m.current /\ n.timer = m.timer
               /\ n.lastGate = m.lastGate
<1>1. /\ m.health \in Healths /\ m.previous \in States
      /\ m.failures \in Nat
  BY DEF Memories
<1>2. [m.health EXCEPT !.state = m.previous] \in Healths
  BY <1>1 DEF Healths
<1>3. CASE r.status \in {"SKIPPED", "ABORTED"}
  <2>1. Noted(m, r) = [m EXCEPT !.health.state = m.previous]
    BY <1>3 DEF Noted
  <2>2. QED
    BY <1>2, <2>1 DEF Memories
<1>4. CASE r.status = "COMPLETED"
  <2>1. PICK h, n : h = [state |-> "healthy", error |-> "none"] /\ n = 0
    OBVIOUS
  <2>2. h \in Healths /\ n \in Nat
    BY <2>1 DEF Healths, States, Errors
  <2>3. Noted(m, r) = [m EXCEPT !.health = h, !.failures = n]
    BY <1>4, <2>1 DEF Noted
  <2>4. QED
    BY <2>2, <2>3 DEF Memories
<1>5. CASE r.status = "PARTIAL"
  <2>1. PICK h, n : h = [state |-> "catching_up", error |-> "continuation"] /\ n = 0
    OBVIOUS
  <2>2. h \in Healths /\ n \in Nat
    BY <2>1 DEF Healths, States, Errors
  <2>3. Noted(m, r) = [m EXCEPT !.health = h, !.failures = n]
    BY <1>5, <2>1 DEF Noted
  <2>4. QED
    BY <2>2, <2>3 DEF Memories
<1>6. CASE r.status \in {"FAILED", "THREW"}
  <2>1. PICK h, n : /\ h = [state |-> "degraded", error |-> "scan"]
                     /\ n = Sooner(MaxFailures, m.failures + 1)
    OBVIOUS
  <2>2. h \in Healths
    BY <2>1 DEF Healths, States, Errors
  <2>3. n \in Nat
    BY <1>1, <2>1, DelaysAssumption DEF Sooner
  <2>4. Noted(m, r) = [m EXCEPT !.health = h, !.failures = n]
    BY <1>6, <2>1 DEF Noted
  <2>5. QED
    BY <2>2, <2>3, <2>4 DEF Memories
<1>7. QED
  BY <1>3, <1>4, <1>5, <1>6, ResultsTyped

LEMMA ExponentialInt ==
    ASSUME NEW i \in Nat, NEW n \in Nat
    PROVE  Exponential(i, n) \in Int
<1>1. i * 2^(n - 1) \in Int
  BY SMTT(30)
<1>2. PICK x : x = i * 2^(n - 1)
  OBVIOUS
<1>3. Exponential(i, n) = Sooner(MaxRetry, x)
  BY <1>2 DEF Exponential
<1>4. QED
  BY <1>1, <1>2, <1>3, DelaysAssumption DEF Sooner

LEMMA RetryDelayNat ==
    ASSUME NEW r \in Results, NEW i \in Intervals, NEW n \in Nat
    PROVE  RetryDelay(r, i, n) \in Nat
<1>1. PICK x : x = Exponential(i, n)
  OBVIOUS
<1>2. /\ x \in Int /\ i \in Nat /\ r.after \in Nat /\ PermanentDelay \in Nat
      /\ MaxRetry \in Nat
  BY <1>1, ExponentialInt, TimesAreTimes, ResultsTyped, DelaysAssumption
<1>3. /\ Later(1, r.after) \in Nat
      /\ Later(i, IF r.after = 0 THEN PermanentDelay ELSE r.after) \in Nat
      /\ Later(Later(i, x), r.after) \in Nat
  BY <1>2 DEF Later
<1>4. PICK a, b, c : /\ a = Later(1, r.after)
                     /\ b = Later(i, IF r.after = 0 THEN PermanentDelay ELSE r.after)
                     /\ c = Later(Later(i, x), r.after)
  OBVIOUS
<1>5. RetryDelay(r, i, n) = Sooner(MaxRetry,
          CASE r.class \in {"cooldown", "variant"} -> a
            [] r.class = "permanent" -> b
            [] OTHER -> c)
  BY <1>1, <1>4 DEF RetryDelay
<1>6. PICK y : y = CASE r.class \in {"cooldown", "variant"} -> a
                     [] r.class = "permanent" -> b
                     [] OTHER -> c
  OBVIOUS
<1>7. y \in {a, b, c}
  BY <1>6
<1>8. y \in Nat
  BY <1>3, <1>4, <1>7
<1>9. QED
  BY <1>2, <1>5, <1>6, <1>8 DEF Sooner

LEMMA SchedulePlan ==
    ASSUME NEW at \in Times, NEW i \in Nat, NEW k \in Kinds \ {"none"}, NEW w \in Times
    PROVE  LET p == Schedule(at, i, k, w)
           IN  /\ p \in Plans /\ p.kind # "none"
               /\ p.gate.completed = 0 /\ p.gate.protected = w
<1>1. [completed |-> 0, protected |-> w, continuation |-> k = "continuation"] \in Gates
  BY TimesAreTimes DEF Gates
<1>2. QED
  BY <1>1 DEF Schedule, Plans

LEMMA AfterPlan ==
    ASSUME NEW m \in Memories, NEW r \in Results, NEW i \in Intervals
    PROVE  LET p == ScheduleAfter(m, r, i)
           IN  p \in Plans /\ p.kind # "none" /\ p.gate.completed = 0
<1>1. PICK late : late = IF r.after = 0 THEN LongAgo ELSE Sooner(MaxRetry, r.after)
  OBVIOUS
<1>2. PICK kept : kept = Later(m.lastGate.protected, late)
  OBVIOUS
<1>3. PICK retry : retry = RetryDelay(r, i, m.failures)
  OBVIOUS
<1>4. late \in Times
  BY <1>1, ResultsTyped, TimesAreTimes, DelaysAssumption DEF Sooner, Times
<1>5. m.lastGate.protected \in Times /\ m.failures \in Nat
  BY DEF Memories, Gates
<1>6. kept \in Times
  BY <1>2, <1>4, <1>5, LaterTime
<1>7. /\ i \in Times /\ i \in Nat /\ LongAgo \in Times /\ 0 \in Times
      /\ Later(i, kept) \in Times
  BY <1>6, TimesAreTimes, LaterTime
<1>8. retry \in Times
  BY <1>3, <1>5, RetryDelayNat, TimesAreTimes
<1>9. {"retry", "normal", "continuation"} \subseteq Kinds \ {"none"}
  BY DEF Kinds
<1>10. CASE r.status = "ABORTED"
  <2>1. PICK k : k = IF kept > i THEN "retry" ELSE "normal"
    OBVIOUS
  <2>2. ScheduleAfter(m, r, i) = Schedule(Later(i, kept), i, k, kept)
    BY <1>1, <1>2, <1>10, <2>1 DEF ScheduleAfter
  <2>3. PICK at : at = Later(i, kept)
    OBVIOUS
  <2>4. k \in Kinds \ {"none"} /\ at \in Times
    BY <1>7, <1>9, <2>1, <2>3
  <2>5. PICK p : p = Schedule(at, i, k, kept)
    OBVIOUS
  <2>6. p \in Plans /\ p.kind # "none" /\ p.gate.completed = 0
    BY <1>6, <1>7, <2>4, <2>5, SchedulePlan
  <2>7. ScheduleAfter(m, r, i) = p
    BY <2>2, <2>3, <2>5
  <2>8. QED
    BY <2>6, <2>7
<1>11. CASE r.status = "PARTIAL"
  <2>1. ScheduleAfter(m, r, i) = Schedule(0, i, "continuation", LongAgo)
    BY <1>11 DEF ScheduleAfter
  <2>2. QED
    BY <1>7, <1>9, <2>1, SchedulePlan
<1>12. CASE r.status \in {"FAILED", "THREW"}
  <2>1. ScheduleAfter(m, r, i) = Schedule(retry, i, "retry", retry)
    BY <1>3, <1>12 DEF ScheduleAfter
  <2>2. QED
    BY <1>7, <1>8, <1>9, <2>1, SchedulePlan
<1>13. CASE r.status \in {"COMPLETED", "SKIPPED"}
  <2>1. ScheduleAfter(m, r, i) = Schedule(i, i, "normal", LongAgo)
    BY <1>13 DEF ScheduleAfter
  <2>2. QED
    BY <1>7, <1>9, <2>1, SchedulePlan
<1>14. QED
  BY <1>10, <1>11, <1>12, <1>13, ResultsTyped

LEMMA EndedMemory ==
    ASSUME NEW r \in Results, NEW i \in Intervals, s \in Memories
    PROVE  LET m == Ended(r, i)
           IN  /\ m \in Memories /\ Owing(m) /\ m.current = "settled"
               /\ m.life = s.life /\ m.timer = s.timer /\ m.lastGate = s.lastGate
               /\ m.unpersisted.gate.completed = 0
<1>1. PICK k : k = Noted(s, r)
  OBVIOUS
<1>2. /\ k \in Memories /\ k.life = s.life /\ k.timer = s.timer /\ k.lastGate = s.lastGate
  BY <1>1, NotedMemory
<1>3. PICK p : p = ScheduleAfter(k, r, i)
  OBVIOUS
<1>4. p \in Plans /\ p.kind # "none" /\ p.gate.completed = 0
  BY <1>2, <1>3, AfterPlan
<1>5. PICK m : m = [k EXCEPT !.current = "settled", !.lastCompleted = 0, !.resolved = i,
                             !.unpersisted = p]
  OBVIOUS
<1>6. /\ m \in Memories /\ m.unpersisted = p /\ m.current = "settled"
      /\ m.life = k.life /\ m.timer = k.timer /\ m.lastGate = k.lastGate
  BY <1>2, <1>4, <1>5, TimesAreTimes DEF Memories
<1>7. Ended(r, i) = m
  BY <1>1, <1>3, <1>5 DEF Ended
<1>8. QED
  BY <1>2, <1>4, <1>6, <1>7 DEF Owing

(* What the result asks for is what its schedule covers.                   *)
LEMMA AskedIsCovered ==
    ASSUME NEW p \in Plans, p.gate.completed = 0, quiet \in Quiets, gate \in Gates,
           NEW f, quiet.protected =< gate.protected
    PROVE  /\ Asked(p) \in Quiets
           /\ Covered(Asked(p), f,
                  [completed |-> Later(p.gate.completed, gate.completed),
                   protected |-> Later(p.gate.protected, gate.protected),
                   continuation |-> p.gate.continuation])
<1>1. /\ p.gate.protected \in Times /\ p.gate.continuation \in BOOLEAN
      /\ quiet.protected \in Times /\ gate.protected \in Times /\ gate.completed \in Times
      /\ LongAgo \in Times /\ LongAgo =< 0 /\ MinInterval \in Times /\ MinInterval \in Nat
  BY TimesAreTimes DEF Plans, Gates, Quiets
<1>2. PICK w : w = Later(quiet.protected, p.gate.protected)
  OBVIOUS
<1>3. PICK x : x = IF p.gate.continuation THEN LongAgo ELSE MinInterval
  OBVIOUS
<1>4. Asked(p) = [protected |-> w, spacing |-> x]
  BY <1>2, <1>3 DEF Asked
<1>5. w \in Times /\ x \in Times
  BY <1>1, <1>2, <1>3, LaterTime
<1>6. w =< Later(p.gate.protected, gate.protected)
  BY <1>1, <1>2 DEF Later, Times
<1>7. x =< Later(0, gate.completed) + MinInterval
  BY <1>1, <1>3 DEF Later, Times
<1>8. p.gate.continuation => x = LongAgo
  BY <1>3
<1>9. QED
  BY <1>4, <1>5, <1>6, <1>7, <1>8 DEF Quiets, Covered, Spaced

LEMMA SettleKeeps ==
    ASSUME LInv, NEW r \in Results, Settle(r)
    PROVE  LInv' /\ s'.current # "running"
<1>1. /\ s.current = "running" /\ s \in Memories /\ gate \in Gates /\ quiet \in Quiets
      /\ faults \in 0 .. MaxFaults /\ cadence \in Intervals
      /\ cadence' = cadence /\ faults' = faults
      /\ CopyOfGate(s, gate) /\ ~Owing(s) /\ (s.life # "started" => ~Armed(s))
  BY DEF Settle, LInv, Consistent, OwedBetweenScans, Owned
<1>2. quiet.protected =< gate.protected
  BY <1>1 DEF LInv, Consistent, QuietKept, Covered, Effective
<1>3. PICK i \in {cadence, s.resolved} :
        /\ \/ /\ gate' = PersistedGate(Ended(r, i))
              /\ s' = [Recorded(Ended(r, i)) EXCEPT !.pending = FALSE]
           \/ \E fault \in {"read", "write"} :
                /\ s' = StorageFailed(PersistFailed(Ended(r, i), fault))
                /\ UNCHANGED gate
        /\ quiet' = Asked(Ended(r, i).unpersisted)
  BY DEF Settle
<1>4. i \in Intervals
  BY <1>1 DEF Memories
<1>5. PICK m : m = Ended(r, i)
  OBVIOUS
<1>6. /\ m \in Memories /\ Owing(m) /\ m.current = "settled"
      /\ m.life = s.life /\ m.timer = s.timer /\ m.lastGate = s.lastGate
      /\ m.unpersisted.gate.completed = 0
  BY <1>1, <1>4, <1>5, EndedMemory
<1>7. m.unpersisted \in Plans
  BY <1>6 DEF Memories
<1>8. PICK q : q = quiet'
  OBVIOUS
<1>9. q = Asked(m.unpersisted)
  BY <1>3, <1>5, <1>8
<1>10. q \in Quiets /\ QuietKept(m, gate, q, faults)
  BY <1>1, <1>2, <1>6, <1>7, <1>9, AskedIsCovered DEF QuietKept, Effective
<1>11. CopyOfGate(m, gate) /\ (m.life # "started" => ~Armed(m))
  BY <1>1, <1>6 DEF CopyOfGate, Armed
<1>12. CASE gate' = PersistedGate(m) /\ s' = [Recorded(m) EXCEPT !.pending = FALSE]
  <2>1. PersistedGate(m) \in Gates /\ Covered(q, faults, PersistedGate(m))
    BY <1>1, <1>6, <1>10, <1>11, Commits
  <2>2. PICK k : k = Recorded(m)
    OBVIOUS
  <2>3. /\ k \in Memories /\ ~Owing(k) /\ k.lastGate = PersistedGate(m)
        /\ k.life = m.life /\ k.current = m.current
        /\ m.life = "started" => Armed(k)
        /\ m.life # "started" => k.timer = m.timer
    BY <1>1, <1>6, <1>10, <1>11, <2>2, RecordsSchedule
  <2>4. PICK n : n = [k EXCEPT !.pending = FALSE]
    OBVIOUS
  <2>5. /\ n \in Memories /\ ~Owing(n) /\ n.lastGate = PersistedGate(m)
        /\ n.life = m.life /\ n.current = "settled" /\ n.timer = k.timer
    BY <1>6, <2>3, <2>4 DEF Memories, Owing
  <2>6. /\ n.life = "started" => Armed(n)
        /\ n.life # "started" => ~Armed(n)
    BY <1>11, <2>3, <2>5 DEF Armed
  <2>7. QuietKept(n, gate', q, faults) /\ CopyOfGate(n, gate')
    BY <1>12, <2>1, <2>5 DEF QuietKept, Effective, CopyOfGate
  <2>8. Consistent(n, gate', q, faults)
    BY <1>1, <1>10, <1>12, <2>1, <2>5, <2>6, <2>7, WaitingIsConsistent
  <2>9. s' = n
    BY <1>12, <2>2, <2>4
  <2>10. QED
    BY <1>1, <1>8, <2>5, <2>8, <2>9 DEF LInv
<1>13. CASE \E fault \in {"read", "write"} :
                s' = StorageFailed(PersistFailed(m, fault)) /\ UNCHANGED gate
  <2>1. PICK fault \in {"read", "write"} :
                s' = StorageFailed(PersistFailed(m, fault)) /\ UNCHANGED gate
    BY <1>13
  <2>2. PICK n : n = PersistFailed(m, fault)
    OBVIOUS
  <2>3. /\ n \in Memories /\ QuietKept(n, gate, q, faults)
        /\ n.life = m.life /\ n.current = m.current /\ n.timer = m.timer
        /\ n.lastGate = m.lastGate
    BY <1>1, <1>6, <1>10, <1>11, <2>2, CommitFails
  <2>4. CopyOfGate(n, gate) /\ (n.life # "started" => ~Armed(n))
    BY <1>11, <2>3 DEF CopyOfGate, Armed
  <2>5. n.current # "running"
    BY <1>6, <2>3
  <2>6. Consistent(StorageFailed(n), gate, q, faults)
    BY <1>1, <1>10, <2>3, <2>4, <2>5, TriggerFails
  <2>7. s'.current = n.current
    BY <2>1, <2>2, <2>3, StorageFails
  <2>8. QED
    BY <1>1, <1>8, <2>1, <2>2, <2>5, <2>6, <2>7 DEF LInv
<1>14. QED
  BY <1>3, <1>5, <1>12, <1>13

-----------------------------------------------------------------------------
(* Time.  Ageing keeps the order of times, and the budget of clock steps   *)
(* keeps an interval over once it was cut off.                             *)

LEMMA ProductMonotonic ==
    ASSUME NEW k \in Nat, NEW a \in Int, NEW b \in Int, a =< b
    PROVE  k * a =< k * b
<1>1. k * (b - a) >= 0
  BY SMTT(30)
<1>2. k * (b - a) = k * b - k * a
  BY SMTT(30)
<1>3. k * a \in Int /\ k * b \in Int
  OBVIOUS
<1>4. QED
  BY <1>1, <1>2, <1>3

(* After one of the steps that are left, the rest of them.                 *)
LEMMA BudgetSpent ==
    ASSUME NEW k \in Nat, k > 0, NEW x \in Int, NEW d \in Int, NEW e \in Int,
           x =< k * d, x =< k * e
    PROVE  x - d =< (k - 1) * e
<1>1. /\ k - 1 \in Nat /\ k * d \in Int /\ k * e \in Int
      /\ (k - 1) * d \in Int /\ (k - 1) * e \in Int
  OBVIOUS
<1>2. k * d = (k - 1) * d + d /\ k * e = (k - 1) * e + e
  BY SMTT(30)
<1>3. CASE d =< e
  <2>1. (k - 1) * d =< (k - 1) * e
    BY <1>1, <1>3, ProductMonotonic
  <2>2. QED
    BY <1>1, <1>2, <2>1
<1>4. CASE e =< d
  BY <1>1, <1>2, <1>4
<1>5. QED
  BY <1>3, <1>4

(* An interval that was cut off is over after any clock steps.             *)
LEMMA BudgetSuffices ==
    ASSUME NEW k \in 0 .. MaxFaults, NEW d \in ClockSteps \cup {0}
    PROVE  MinInterval + LongAgo =< k * d
<1>1. /\ d \in Int /\ k \in Nat /\ MaxFaults \in Nat /\ Horizon \in Nat
      /\ MinInterval \in Nat /\ MaxFaults - k \in Nat
  BY DelaysAssumption
<1>2. /\ k * d \in Int /\ MaxFaults * d \in Int /\ (MaxFaults - k) * d \in Int
      /\ MaxFaults * 0 = 0 /\ k * 0 = 0 /\ (MaxFaults - k) * 0 = 0
  BY <1>1
<1>3. /\ MinInterval - MaxFaults * d =< Horizon
      /\ MinInterval - MaxFaults * 0 =< Horizon
  BY CutOffAssumption
<1>4. MaxFaults * d = k * d + (MaxFaults - k) * d
  BY <1>1, SMTT(30)
<1>5. CASE d =< 0
  <2>1. (MaxFaults - k) * d =< (MaxFaults - k) * 0
    BY <1>1, <1>5, ProductMonotonic
  <2>2. QED
    BY <1>1, <1>2, <1>3, <1>4, <2>1 DEF LongAgo
<1>6. CASE d >= 0
  <2>1. k * 0 =< k * d
    BY <1>1, <1>6, ProductMonotonic
  <2>2. QED
    BY <1>1, <1>2, <1>3, <2>1 DEF LongAgo
<1>7. QED
  BY <1>1, <1>5, <1>6

LEMMA AgedTime ==
    ASSUME NEW t \in Times, NEW d \in Int
    PROVE  /\ Aged(t, d) \in Times /\ Aged(LongAgo, d) = LongAgo
           /\ t # LongAgo => Aged(t, d) >= t - d
           /\ Aged(t, d) = LongAgo \/ Aged(t, d) = t - d
           /\ Aged(t, 0) = t
BY TimesAreTimes DEF Aged, Later, Times

LEMMA AgedMonotonic ==
    ASSUME NEW t \in Times, NEW u \in Times, NEW d \in Int, t =< u
    PROVE  Aged(t, d) =< Aged(u, d)
BY TimesAreTimes DEF Aged, Later, Times

LEMMA AgedLater ==
    ASSUME NEW t \in Times, NEW u \in Times, NEW d \in Int
    PROVE  Later(Aged(t, d), Aged(u, d)) = Aged(Later(t, u), d)
BY TimesAreTimes DEF Aged, Later, Times

LEMMA AgedGateIsGate ==
    ASSUME NEW g \in Gates, NEW d \in Int
    PROVE  /\ AgedGate(g, d) \in Gates
           /\ AgedGate(g, d).completed = Aged(g.completed, d)
           /\ AgedGate(g, d).protected = Aged(g.protected, d)
           /\ AgedGate(g, d).continuation = g.continuation
           /\ AgedGate(g, 0) = g
           /\ AgedGate(NoGate, d) = NoGate
<1>1. g.completed \in Times /\ g.protected \in Times
  BY DEF Gates
<1>2. /\ Aged(g.completed, d) \in Times /\ Aged(g.protected, d) \in Times
      /\ Aged(g.completed, 0) = g.completed /\ Aged(g.protected, 0) = g.protected
      /\ Aged(LongAgo, d) = LongAgo
  BY <1>1, AgedTime
<1>3. /\ AgedGate(g, d) \in Gates
      /\ AgedGate(g, d).completed = Aged(g.completed, d)
      /\ AgedGate(g, d).protected = Aged(g.protected, d)
      /\ AgedGate(g, d).continuation = g.continuation
  BY <1>2 DEF AgedGate, Gates
<1>4. AgedGate(g, 0) = g
  BY <1>2 DEF AgedGate, Gates
<1>5. AgedGate(NoGate, d) = NoGate
  <2>1. NoGate \in Gates /\ NoGate.completed = LongAgo /\ NoGate.protected = LongAgo
    BY NothingTyped DEF NoGate
  <2>2. QED
    BY <1>2, <2>1 DEF AgedGate, Gates
<1>6. QED
  BY <1>3, <1>4, <1>5

(* Either the timers see the time pass, or a step of the budget is spent.  *)
Passes(d, f, h) ==
    \/ d \in Nat /\ h = f
    \/ d \in ClockSteps \cup {0} /\ f < MaxFaults /\ h = f + 1

LEMMA SpacedAges ==
    ASSUME NEW q \in Quiets, NEW f \in 0 .. MaxFaults, NEW c \in Times, NEW d \in Int,
           NEW r \in Quiets, r.spacing = Aged(q.spacing, d),
           NEW h \in 0 .. MaxFaults, Passes(d, f, h), Spaced(q, f, c)
    PROVE  Spaced(r, h, Aged(c, d))
<1>1. PICK x : x = q.spacing
  OBVIOUS
<1>2. PICK y : y = r.spacing
  OBVIOUS
<1>3. /\ x \in Times /\ x \in Int /\ c \in Int /\ y \in Int /\ y = Aged(x, d)
      /\ LongAgo \in Int /\ MinInterval \in Nat /\ MaxFaults \in Nat
      /\ y = LongAgo \/ y = x - d
  BY <1>1, <1>2, TimesAreTimes, AgedTime, DelaysAssumption DEF Quiets, Times
<1>4. CASE c # LongAgo
  <2>1. x =< c + MinInterval
    BY <1>1, <1>4 DEF Spaced
  <2>2. Aged(c, d) \in Int /\ Aged(c, d) >= LongAgo /\ Aged(c, d) >= c - d
    BY <1>4, AgedTime DEF Times
  <2>3. y =< Aged(c, d) + MinInterval
    BY <1>3, <2>1, <2>2
  <2>4. QED
    BY <1>2, <2>3 DEF Spaced
<1>5. CASE c = LongAgo
  <2>1. ASSUME NEW e \in ClockSteps \cup {0}
        PROVE  x =< (MaxFaults - f) * e
    <3>1. e \in Int /\ MaxFaults - f \in 0 .. MaxFaults
      BY DelaysAssumption
    <3>2. PICK k : k = MaxFaults - f
      OBVIOUS
    <3>3. MinInterval + LongAgo =< k * e /\ k * e \in Int
      BY <3>1, <3>2, BudgetSuffices
    <3>4. x =< LongAgo + MinInterval \/ x =< k * e
      BY <1>1, <1>5, <3>2 DEF Spaced
    <3>5. QED
      BY <1>3, <3>2, <3>3, <3>4
  <2>2. ASSUME NEW e \in ClockSteps \cup {0}
        PROVE  y =< (MaxFaults - h) * e
    <3>1. PICK k : k = MaxFaults - h
      OBVIOUS
    <3>2. /\ e \in Int /\ k \in 0 .. MaxFaults /\ k \in Nat /\ k * e \in Int
      BY <3>1, DelaysAssumption
    <3>3. CASE y = LongAgo
      <4>1. MinInterval + LongAgo =< k * e
        BY <3>2, BudgetSuffices
      <4>2. QED
        BY <1>3, <3>1, <3>2, <3>3, <4>1
    <3>4. CASE y = x - d /\ d \in Nat /\ h = f
      <4>1. x =< k * e
        BY <2>1, <3>1, <3>4
      <4>2. QED
        BY <1>3, <3>1, <3>2, <3>4, <4>1
    <3>5. CASE y = x - d /\ d \in ClockSteps \cup {0} /\ f < MaxFaults /\ h = f + 1
      <4>1. PICK j : j = MaxFaults - f
        OBVIOUS
      <4>2. j \in Nat /\ j > 0 /\ k = j - 1
        BY <1>3, <3>1, <3>5, <4>1
      <4>3. x =< j * d /\ x =< j * e
        BY <2>1, <3>5, <4>1
      <4>4. x - d =< (j - 1) * e
        BY <1>3, <3>2, <4>2, <4>3, BudgetSpent
      <4>5. QED
        BY <3>1, <3>5, <4>2, <4>4
    <3>6. QED
      BY <1>3, <3>3, <3>4, <3>5 DEF Passes
  <2>3. Aged(c, d) = LongAgo
    BY <1>5, AgedTime
  <2>4. QED
    BY <1>2, <2>2, <2>3 DEF Spaced
<1>6. QED
  BY <1>4, <1>5

LEMMA CoveredAges ==
    ASSUME NEW q \in Quiets, NEW f \in 0 .. MaxFaults, NEW g \in Gates, NEW d \in Int,
           NEW r, r = [protected |-> Aged(q.protected, d), spacing |-> Aged(q.spacing, d)],
           NEW h \in 0 .. MaxFaults, Passes(d, f, h), Covered(q, f, g)
    PROVE  r \in Quiets /\ Covered(r, h, AgedGate(g, d))
<1>1. /\ q.protected \in Times /\ q.spacing \in Times
      /\ g.protected \in Times /\ g.completed \in Times
  BY DEF Quiets, Gates
<1>2. r \in Quiets
  BY <1>1, AgedTime DEF Quiets
<1>3. r.protected =< Aged(g.protected, d)
  BY <1>1, AgedMonotonic DEF Covered
<1>4. g.continuation => r.spacing = LongAgo
  <2>1. g.continuation => q.spacing = LongAgo
    BY DEF Covered
  <2>2. Aged(LongAgo, d) = LongAgo
    BY <1>1, AgedTime
  <2>3. QED
    BY <2>1, <2>2
<1>5. Spaced(r, h, Aged(g.completed, d))
  <2>1. r.spacing = Aged(q.spacing, d) /\ Spaced(q, f, g.completed)
    BY DEF Covered
  <2>2. QED
    BY <1>1, <1>2, <2>1, SpacedAges
<1>6. PICK a : a = AgedGate(g, d)
  OBVIOUS
<1>7. /\ a.completed = Aged(g.completed, d) /\ a.protected = Aged(g.protected, d)
      /\ a.continuation = g.continuation
  BY <1>6, AgedGateIsGate
<1>8. QED
  BY <1>2, <1>3, <1>4, <1>5, <1>6, <1>7 DEF Covered

LEMMA AgedMemoryIsMemory ==
    ASSUME NEW m \in Memories, NEW d \in Int, NEW t \in Nat
    PROVE  LET n == AgedMemory(m, d, t)
           IN  /\ n \in Memories /\ n.life = m.life /\ n.current = m.current
               /\ n.timer.kind = m.timer.kind
               /\ n.lastGate = AgedGate(m.lastGate, d)
               /\ n.unpersisted.gate = AgedGate(m.unpersisted.gate, d)
               /\ n.unpersisted.kind = m.unpersisted.kind
<1>1. /\ m.timer \in Timers /\ m.lastGate \in Gates /\ m.unpersisted \in Plans
      /\ m.lastCompleted \in Times
  BY DEF Memories
<1>2. /\ m.timer.left \in Nat /\ m.timer.at \in Times /\ m.unpersisted.gate \in Gates
      /\ m.unpersisted.at \in Times
  BY <1>1 DEF Timers, Plans
<1>3. PICK w : w = AgedTimer(m.timer, d, t)
  OBVIOUS
<1>4. w \in Timers /\ w.kind = m.timer.kind
  <2>1. Later(0, m.timer.left - t) \in Nat /\ Aged(m.timer.at, d) \in Times
    BY <1>2, AgedTime DEF Later
  <2>2. QED
    BY <1>1, <1>3, <2>1 DEF Timers, AgedTimer
<1>5. PICK g : g = AgedGate(m.lastGate, d)
  OBVIOUS
<1>6. PICK p : p = AgedPlan(m.unpersisted, d)
  OBVIOUS
<1>7. g \in Gates
  BY <1>1, <1>5, AgedGateIsGate
<1>8. /\ p \in Plans /\ p.kind = m.unpersisted.kind
      /\ p.gate = AgedGate(m.unpersisted.gate, d)
  <2>1. AgedGate(m.unpersisted.gate, d) \in Gates /\ Aged(m.unpersisted.at, d) \in Times
    BY <1>2, AgedGateIsGate, AgedTime
  <2>2. QED
    BY <1>1, <1>6, <2>1 DEF Plans, AgedPlan
<1>9. Aged(m.lastCompleted, d) \in Times
  BY <1>1, AgedTime
<1>10. PICK n : n = [m EXCEPT !.timer = w, !.lastGate = g, !.unpersisted = p,
                              !.lastCompleted = Aged(m.lastCompleted, d)]
  OBVIOUS
<1>11. /\ n \in Memories /\ n.life = m.life /\ n.current = m.current
       /\ n.timer = w /\ n.lastGate = g /\ n.unpersisted = p
  BY <1>4, <1>7, <1>8, <1>9, <1>10 DEF Memories
<1>12. AgedMemory(m, d, t) = n
  BY <1>3, <1>5, <1>6, <1>10 DEF AgedMemory
<1>13. QED
  BY <1>4, <1>5, <1>8, <1>11, <1>12

LEMMA EffectiveAges ==
    ASSUME NEW m \in Memories, NEW g \in Gates, NEW d \in Int, NEW t \in Nat
    PROVE  /\ Effective(m, g) \in Gates
           /\ Effective(AgedMemory(m, d, t), AgedGate(g, d)) = AgedGate(Effective(m, g), d)
<1>1. PICK n : n = AgedMemory(m, d, t)
  OBVIOUS
<1>2. /\ n.unpersisted.gate = AgedGate(m.unpersisted.gate, d)
      /\ n.unpersisted.kind = m.unpersisted.kind
  BY <1>1, AgedMemoryIsMemory
<1>3. CASE ~Owing(m)
  BY <1>1, <1>2, <1>3 DEF Effective, Owing
<1>4. CASE Owing(m)
  <2>1. PICK u : u = m.unpersisted.gate
    OBVIOUS
  <2>2. u \in Gates
    BY <2>1 DEF Memories, Plans
  <2>3. /\ u.completed \in Times /\ u.protected \in Times /\ u.continuation \in BOOLEAN
        /\ g.completed \in Times /\ g.protected \in Times
    BY <2>2 DEF Gates
  <2>4. PICK c, w : c = Later(u.completed, g.completed) /\ w = Later(u.protected, g.protected)
    OBVIOUS
  <2>5. c \in Times /\ w \in Times
    BY <2>3, <2>4, LaterTime
  <2>6. PICK e : e = [completed |-> c, protected |-> w, continuation |-> u.continuation]
    OBVIOUS
  <2>7. Effective(m, g) = e /\ e \in Gates
    BY <1>4, <2>1, <2>3, <2>4, <2>5, <2>6 DEF Effective, Gates
  <2>8. /\ AgedGate(e, d) \in Gates
        /\ AgedGate(e, d).completed = Aged(c, d) /\ AgedGate(e, d).protected = Aged(w, d)
        /\ AgedGate(e, d).continuation = u.continuation
    BY <2>6, <2>7, AgedGateIsGate
  <2>9. /\ Later(Aged(u.completed, d), Aged(g.completed, d)) = Aged(c, d)
        /\ Later(Aged(u.protected, d), Aged(g.protected, d)) = Aged(w, d)
    BY <2>3, <2>4, AgedLater
  <2>10. PICK a, b : a = AgedGate(u, d) /\ b = AgedGate(g, d)
    OBVIOUS
  <2>11. /\ a.completed = Aged(u.completed, d) /\ a.protected = Aged(u.protected, d)
         /\ a.continuation = u.continuation
         /\ b.completed = Aged(g.completed, d) /\ b.protected = Aged(g.protected, d)
    BY <2>2, <2>10, AgedGateIsGate
  <2>12. Owing(n) /\ n.unpersisted.gate = a
    BY <1>2, <1>4, <2>1, <2>10 DEF Owing
  <2>13. Effective(n, b) = [completed |-> Later(a.completed, b.completed),
                            protected |-> Later(a.protected, b.protected),
                            continuation |-> a.continuation]
    BY <2>12 DEF Effective
  <2>14. Effective(n, b) = [completed |-> Aged(c, d), protected |-> Aged(w, d),
                            continuation |-> u.continuation]
    BY <2>9, <2>11, <2>13
  <2>15. Effective(n, b) = AgedGate(e, d)
    BY <2>8, <2>14 DEF Gates
  <2>16. QED
    BY <1>1, <2>7, <2>10, <2>15
<1>5. QED
  BY <1>3, <1>4

LEMMA ShiftKeeps ==
    ASSUME LInv, NEW d \in Int, NEW t \in Nat, Shift(d, t),
           faults' \in 0 .. MaxFaults, Passes(d, faults, faults')
    PROVE  LInv' /\ s'.current = s.current
<1>1. /\ s \in Memories /\ gate \in Gates /\ quiet \in Quiets /\ faults \in 0 .. MaxFaults
      /\ Owned(s) /\ CopyOfGate(s, gate) /\ OwedBetweenScans(s)
      /\ Covered(quiet, faults, Effective(s, gate)) /\ cadence \in Intervals
  BY DEF LInv, Consistent, QuietKept
<1>2. PICK n : n = AgedMemory(s, d, t)
  OBVIOUS
<1>3. PICK g : g = AgedGate(gate, d)
  OBVIOUS
<1>4. PICK r : r = [protected |-> Aged(quiet.protected, d), spacing |-> Aged(quiet.spacing, d)]
  OBVIOUS
<1>5. s' = n /\ gate' = g /\ quiet' = r /\ cadence' = cadence
  BY <1>2, <1>3, <1>4 DEF Shift
<1>6. /\ n \in Memories /\ n.life = s.life /\ n.current = s.current
      /\ n.timer.kind = s.timer.kind /\ n.lastGate = AgedGate(s.lastGate, d)
      /\ n.unpersisted.kind = s.unpersisted.kind
  BY <1>1, <1>2, AgedMemoryIsMemory
<1>7. g \in Gates /\ AgedGate(NoGate, d) = NoGate
  BY <1>1, <1>3, AgedGateIsGate
<1>8. CopyOfGate(n, g)
  BY <1>1, <1>3, <1>6, <1>7 DEF CopyOfGate
<1>9. Owned(n) /\ OwedBetweenScans(n)
  BY <1>1, <1>6 DEF Owned, OwedBetweenScans, Armed, Owing
<1>10. PICK h : h = faults'
  OBVIOUS
<1>11. PICK e : e = Effective(s, gate)
  OBVIOUS
<1>12. e \in Gates /\ Effective(n, g) = AgedGate(e, d)
  BY <1>1, <1>2, <1>3, <1>11, EffectiveAges
<1>13. r \in Quiets /\ Covered(r, h, AgedGate(e, d))
  BY <1>1, <1>4, <1>10, <1>11, <1>12, CoveredAges
<1>14. Consistent(n, g, r, h)
  BY <1>6, <1>7, <1>8, <1>9, <1>10, <1>12, <1>13 DEF Consistent, QuietKept
<1>15. QED
  BY <1>1, <1>5, <1>6, <1>10, <1>14 DEF LInv

LEMMA TimePasses ==
    ASSUME LInv, Tick \/ ClockStep
    PROVE  LInv' /\ s'.current = s.current
<1>1. CASE Tick
  <2>1. faults' = faults /\ Passes(1, faults, faults')
    BY <1>1 DEF Tick, Passes
  <2>2. QED
    BY <1>1, <2>1, ShiftKeeps DEF Tick, LInv, Consistent
<1>2. CASE ClockStep
  <2>1. faults < MaxFaults /\ faults' = faults + 1 /\ faults' \in 0 .. MaxFaults
    BY <1>2, DelaysAssumption DEF ClockStep, LInv, Consistent
  <2>2. PICK d \in ClockSteps : Shift(d, 0)
    BY <1>2 DEF ClockStep
  <2>3. d \in Int /\ Passes(d, faults, faults')
    BY <2>1, DelaysAssumption DEF Passes
  <2>4. QED
    BY <2>1, <2>2, <2>3, ShiftKeeps
<1>3. QED
  BY <1>1, <1>2

LEMMA CrashKeeps ==
    ASSUME LInv, Crash
    PROVE  LInv' /\ s'.current # "running"
<1>1. /\ s \in Memories /\ gate \in Gates /\ quiet \in Quiets /\ faults \in 0 .. MaxFaults
      /\ QuietKept(s, gate, quiet, faults) /\ cadence \in Intervals
  BY DEF LInv, Consistent
<1>2. /\ faults < MaxFaults /\ faults' = faults + 1 /\ faults' \in 0 .. MaxFaults
      /\ gate' = gate /\ cadence' = cadence
  BY <1>1, DelaysAssumption DEF Crash
<1>3. PICK m : m = Fresh(s.resolved)
  OBVIOUS
<1>4. PICK n : n = [m EXCEPT !.life = "stopped"]
  OBVIOUS
<1>5. s.resolved \in Intervals
  BY <1>1 DEF Memories
<1>6. /\ m \in Memories /\ m.current = "none" /\ m.lastGate = NoGate
      /\ ~Armed(m) /\ ~Owing(m)
  BY <1>3, <1>5, FreshMemory
<1>7. /\ n \in Memories /\ n.life = "stopped" /\ n.current = "none"
      /\ n.lastGate = NoGate /\ ~Armed(n) /\ ~Owing(n)
  BY <1>4, <1>6 DEF Memories, Armed, Owing
<1>8. PICK q, h : q = quiet' /\ h = faults'
  OBVIOUS
<1>9. q \in Quiets /\ Covered(q, h, gate)
  <2>1. CASE Owing(s)
    <3>1. /\ gate.completed \in Times /\ gate.protected \in Times
          /\ gate.continuation \in BOOLEAN /\ LongAgo \in Times /\ LongAgo \in Int
          /\ MinInterval \in Nat
      BY <1>1, TimesAreTimes DEF Gates, Times
    <3>2. PICK x : x = IF gate.continuation THEN LongAgo ELSE gate.completed + MinInterval
      OBVIOUS
    <3>3. q = [protected |-> gate.protected, spacing |-> x]
      BY <1>8, <2>1, <3>2 DEF Crash, GateQuiet
    <3>4. x \in Times /\ x =< gate.completed + MinInterval
      BY <3>1, <3>2 DEF Times
    <3>5. gate.protected =< gate.protected
      BY <3>1 DEF Times
    <3>6. QED
      BY <3>1, <3>2, <3>3, <3>4, <3>5 DEF Quiets, Covered, Spaced
  <2>2. CASE ~Owing(s)
    <3>1. q = quiet /\ Covered(quiet, faults, gate)
      BY <1>1, <1>8, <2>2 DEF Crash, QuietKept, Effective
    <3>2. q = [protected |-> Aged(quiet.protected, 0), spacing |-> Aged(quiet.spacing, 0)]
      BY <1>1, <3>1, AgedTime DEF Quiets
    <3>3. AgedGate(gate, 0) = gate
      BY <1>1, AgedGateIsGate
    <3>4. h \in 0 .. MaxFaults /\ Passes(0, faults, h)
      BY <1>2, <1>8 DEF Passes
    <3>5. Covered(q, h, AgedGate(gate, 0))
      BY <1>1, <3>1, <3>2, <3>4, CoveredAges
    <3>6. QED
      BY <1>1, <3>1, <3>3, <3>5
  <2>3. QED
    BY <2>1, <2>2
<1>10. QuietKept(n, gate, q, h) /\ CopyOfGate(n, gate)
  BY <1>7, <1>9 DEF QuietKept, Effective, CopyOfGate
<1>11. Consistent(n, gate, q, h)
  BY <1>1, <1>2, <1>7, <1>8, <1>9, <1>10, WaitingIsConsistent
<1>12. s' = n
  BY <1>3, <1>4 DEF Crash
<1>13. QED
  BY <1>1, <1>2, <1>7, <1>8, <1>11, <1>12 DEF LInv

LEMMA OthersKeep ==
    ASSUME LInv, CadenceChanges \/ UNCHANGED vars
    PROVE  LInv' /\ s'.current = s.current
<1>1. UNCHANGED <<s, gate, quiet, faults>> /\ cadence' \in Intervals
  BY DEF CadenceChanges, vars, LInv
<1>2. QED
  BY <1>1 DEF LInv, Consistent, QuietKept, CopyOfGate, Covered, Spaced, Effective,
              Owned, OwedBetweenScans, Armed, Owing

-----------------------------------------------------------------------------
(* The theorems.                                                           *)

(* A scan that starts in this step may start.                              *)
StartsInTime ==
    s.current = "none" /\ s'.current = "running" =>
        quiet.protected =< 0 /\ quiet.spacing =< 0

LEMMA StepL ==
    ASSUME LInv, [Next]_vars
    PROVE  LInv' /\ StartsInTime
<1>1. CASE Request
  BY <1>1, RequestKeeps DEF StartsInTime
<1>2. CASE TimerPostpones
  BY <1>2, TimerPostponesKeeps DEF StartsInTime
<1>3. CASE TimerFires
  BY <1>3, TimerFiresKeeps DEF StartsInTime
<1>4. CASE RefreshSchedule
  BY <1>4, RefreshKeeps DEF StartsInTime
<1>5. CASE \E r \in Results : Settle(r)
  BY <1>5, SettleKeeps DEF StartsInTime
<1>6. CASE Finally
  BY <1>6, FinallyKeeps DEF StartsInTime
<1>7. CASE Stop
  <2>1. s'.current = s.current
    BY <1>7 DEF Stop, LInv, Consistent, Memories
  <2>2. QED
    BY <1>7, <2>1, StopKeeps DEF StartsInTime
<1>8. CASE StopFinishes
  BY <1>8, StopFinishesKeeps DEF StartsInTime
<1>9. CASE StopAgain
  BY <1>9, StopAgainKeeps DEF StartsInTime
<1>10. CASE Replace
  BY <1>10, ReplaceKeeps DEF StartsInTime
<1>11. CASE Crash
  BY <1>11, CrashKeeps DEF StartsInTime
<1>12. CASE Tick \/ ClockStep
  BY <1>12, TimePasses DEF StartsInTime
<1>13. CASE CadenceChanges \/ UNCHANGED vars
  BY <1>13, OthersKeep DEF StartsInTime
<1>14. QED
  BY <1>1, <1>2, <1>3, <1>4, <1>5, <1>6, <1>7, <1>8, <1>9, <1>10, <1>11, <1>12, <1>13
  DEF Next

(* The invariant of the scheduler: its memory, its timer, its copy of the  *)
(* gate, and what the gate covers (scheduler.ts:294-345).                  *)
THEOREM SchedulerInvariant == Spec => []LInv
<1>1. LInv /\ [Next]_vars => LInv'
  BY StepL
<1>2. QED
  BY InitL, <1>1, PTL DEF Spec

(* A started scheduler either has a scan in flight or exactly one timer    *)
(* armed, whatever failed in the middle of a handler (scheduler.ts:48,     *)
(* 294-311).                                                               *)
THEOREM AlwaysOneOwner == Spec => []OneOwner
<1>1. LInv => OneOwner
  BY DEF LInv, Consistent, Owned, OneOwner
<1>2. QED
  BY SchedulerInvariant, <1>1, PTL

(* No scan starts before the protection and the minimum interval that the  *)
(* earlier results asked for are over, across storage failures, stops,     *)
(* replacements and a clock set back (scheduler.ts:145-165, 327-345).      *)
THEOREM ProviderIsLeftAlone == Spec => ProviderLeftAlone
<1>1. LInv /\ [Next]_vars =>
        [s.current = "none" /\ s'.current = "running" =>
            quiet.protected =< 0 /\ quiet.spacing =< 0]_vars
  BY StepL DEF StartsInTime
<1>2. QED
  BY SchedulerInvariant, <1>1, PTL DEF Spec, ProviderLeftAlone
=============================================================================
