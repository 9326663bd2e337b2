---------------------- MODULE ReconciliationScheduler ----------------------
(***************************************************************************)
(* The process-wide reconciliation scheduler                               *)
(* (src/src/reconciliation/scheduler.ts): one run in flight at a time,     *)
(* requests that arrive meanwhile coalesced into the next run, order       *)
(* retries with a bounded number of attempts, a keyset sweep over the      *)
(* pending ledger entries that survives run budgets and failed page reads, *)
(* verifyOrder, health and stop.                                           *)
(*                                                                         *)
(* JavaScript runs to completion, so a step is the code between two        *)
(* awaits.  `phase' says where the run in flight is:                       *)
(*   idle        no run in flight (#inFlight === null)                     *)
(*   starting    run promised by a caller, its first microtask queued      *)
(*   restarting  the same, queued by the previous run's finally()          *)
(*   paging      inside the synchronous segment, about to read a page      *)
(*   yielded     waiting for setImmediate between two pages                *)
(*   ending      the run has returned; finally() is queued                 *)
(* A timer fires between event-loop turns: only in idle or yielded.  Other *)
(* promise continuations may run wherever the segment is not executing.    *)
(*                                                                         *)
(* A promise made by finally() settles two microtasks after its callback,  *)
(* so when finally() restarts the scheduler the next run handles its       *)
(* orders BEFORE the callers that awaited the previous run are resumed.    *)
(*                                                                         *)
(* Ledger entries are the positions 1..Positions of the sweep's order      *)
(* (occurred_at, ledger_entry_id); what reconciling does to the books is   *)
(* in the module Reconciliation.                                           *)
(***************************************************************************)
EXTENDS Integers, FiniteSets, FiniteSetsExt

CONSTANTS Orders,        \* order identifiers
          Positions,     \* ledger entries, in sweep order
          BatchSize,     \* #batchSize
          MaxPerRun,     \* #maximumEntriesPerRun
          MaxRetries,    \* #maximumOrderRetryAttempts
          MaxFaults      \* bound: reads and reconciliations that throw

ASSUME SchedulerAssumption ==
    /\ Positions \in Nat /\ MaxRetries \in Nat /\ MaxFaults \in Nat
    /\ BatchSize \in Nat \ {0}
    /\ MaxPerRun \in Nat /\ MaxPerRun >= BatchSize

VARIABLES
    unsettled,       \* entries whose state is UNALLOCATED or CANDIDATE
    stale,           \* history: entries not reconciled since they last changed
    pending,         \* #pendingOrders: order -> failures so far, NotQueued if absent
    scheduled,       \* #scheduledOrderRetries: order -> retry number, NotQueued if absent
    created,         \* orders whose creation has been announced (once per order)
    interval,        \* the setInterval timer is armed
    sweepRequested,  \* #sweepRequested
    retryTimer,      \* #sweepRetryTimer is armed
    cursor,          \* #cursor, 0 for null
    phase,           \* where the run in flight is
    processed,       \* processedEntries of the run in flight
    failed,          \* failures > 0 in the run in flight
    result,          \* result.failures > 0 of the run that ended last
    state,           \* #state
    stopped,         \* #stopped
    waiter,          \* verifyOrder, one unfinished call per order
    outcome,         \* history: what happened to the order since verifyOrder was called
    faults           \* how often the store has thrown

queues == <<pending, scheduled, created>>
sweep == <<sweepRequested, retryTimer, cursor>>
run == <<phase, processed, failed, result, state>>
calls == <<waiter, outcome>>
vars == <<unsettled, stale, queues, sweep, run, calls, interval, stopped, faults>>

NotQueued == -1
Entries == 1 .. Positions

Pending == {o \in Orders : pending[o] # NotQueued}
Scheduled == {o \in Orders : scheduled[o] # NotQueued}
Resuming == {o \in Orders : waiter[o] = "resuming"}

-----------------------------------------------------------------------------
(* What may run when.                                                      *)

\* Some promise continuation other than the scheduler's own.
Interruptible == phase # "paging"

\* A timer callback: the microtask queue is empty.
BetweenTurns == phase \in {"idle", "yielded"} /\ Resuming = {}

\* #ensureRun: join the run in flight or queue a new one.
EnsureRun == phase' = IF phase = "idle" THEN "starting" ELSE phase

-----------------------------------------------------------------------------
(* Requests.                                                               *)

\* start: arm the interval and request the startup sweep.
Start ==
    /\ ~interval /\ ~stopped /\ Interruptible
    /\ interval' = TRUE
    /\ sweepRequested' = TRUE
    /\ EnsureRun
    /\ UNCHANGED <<unsettled, stale, queues, retryTimer, cursor, processed, failed,
                   result, state, calls, stopped, faults>>

\* triggerSweep, by a ledger scan, an administrator or the interval.
RequestSweep ==
    /\ ~stopped
    /\ sweepRequested' = TRUE
    /\ EnsureRun
    /\ UNCHANGED <<unsettled, stale, queues, retryTimer, cursor, processed, failed,
                   result, state, calls, interval, stopped, faults>>

TriggerSweep == Interruptible /\ RequestSweep
IntervalFires == interval /\ BetweenTurns /\ RequestSweep

\* The failure count an order is queued with: the one it has, or that of the
\* retry whose timer triggerOrder cancels.
WithOrderQueued(o) ==
    [pending EXCEPT ![o] = CASE @ # NotQueued -> @
                             [] @ = NotQueued /\ scheduled[o] # NotQueued -> scheduled[o]
                             [] OTHER -> 0]

WithRetryCancelled(o) == [scheduled EXCEPT ![o] = NotQueued]

\* triggerOrder
QueueOrder(o) ==
    /\ ~stopped /\ Interruptible
    /\ scheduled' = WithRetryCancelled(o)
    /\ pending' = WithOrderQueued(o)
    /\ EnsureRun

\* The order-created callback of the runtime: once per order.
TriggerOrder(o) ==
    /\ o \notin created
    /\ created' = created \union {o}
    /\ QueueOrder(o)
    /\ UNCHANGED <<unsettled, stale, sweep, processed, failed, result, state, calls,
                   interval, stopped, faults>>

\* verifyOrder up to its first await.  The runtime's CheckoutVerifier has one
\* unfinished call per order and keeps its result for seconds, so the next call
\* comes in a later turn of the event loop.
Verify(o) ==
    /\ \/ waiter[o] = "none"
       \/ waiter[o] \in {"verified", "rejected"} /\ BetweenTurns
    /\ QueueOrder(o)
    /\ waiter' = [waiter EXCEPT ![o] = "waiting"]
    /\ outcome' = [outcome EXCEPT ![o] = "none"]
    /\ UNCHANGED <<unsettled, stale, created, sweep, processed, failed, result, state,
                   interval, stopped, faults>>

\* The sweep retry timer.
SweepRetryFires ==
    /\ retryTimer /\ BetweenTurns
    /\ retryTimer' = FALSE
    /\ EnsureRun
    /\ UNCHANGED <<unsettled, stale, queues, sweepRequested, cursor, processed, failed,
                   result, state, calls, interval, stopped, faults>>

\* The retry timer of one order.
OrderRetryFires(o) ==
    /\ o \in Scheduled /\ BetweenTurns
    /\ scheduled' = [scheduled EXCEPT ![o] = NotQueued]
    /\ pending' = [pending EXCEPT ![o] = scheduled[o]]
    /\ EnsureRun
    /\ UNCHANGED <<unsettled, stale, created, sweep, processed, failed, result, state, calls,
                   interval, stopped, faults>>

-----------------------------------------------------------------------------
(* The run.                                                                *)

\* The health a run leaves behind.
HealthAfter(failures, timer) == IF failures \/ timer THEN "degraded" ELSE "healthy"

\* scheduleOrderRetry keeps an order for another attempt, or drops it for good.
RetryNumber(o) == pending[o] + 1
RetryAllowed(o) == ~stopped /\ RetryNumber(o) <= MaxRetries

\* The orders loop of #run, then either the first page or the end of the run.
\* `failing' are the orders whose reconciliation throws; the others may settle
\* some of the unsettled entries.
RunOrders ==
    /\ phase \in {"starting", "restarting"}
    /\ \E failing \in SUBSET Pending :
         LET done == Pending \ failing
         IN  /\ faults + Cardinality(failing) <= MaxFaults
             /\ faults' = faults + Cardinality(failing)
             /\ pending' = [o \in Orders |-> NotQueued]
             /\ scheduled' = [o \in Orders |->
                                IF o \in failing /\ RetryAllowed(o) THEN RetryNumber(o)
                                ELSE scheduled[o]]
             /\ outcome' = [o \in Orders |->
                              IF waiter[o] \notin {"waiting", "resuming"} \/ o \notin Pending
                              THEN outcome[o]
                              ELSE IF o \in done THEN "done"
                              ELSE IF RetryAllowed(o) THEN "retrying" ELSE "abandoned"]
             /\ \E settled \in IF done = {} THEN {{}} ELSE SUBSET unsettled :
                  /\ unsettled' = unsettled \ settled
                  /\ stale' = stale \ settled
             /\ failed' = (failing # {})
             /\ processed' = 0
             /\ IF sweepRequested /\ ~retryTimer
                THEN /\ sweepRequested' = FALSE
                     /\ phase' = "paging"
                     /\ state' = "running"
                ELSE /\ phase' = "ending"
                     /\ state' = HealthAfter(failing # {}, retryTimer)
                     /\ UNCHANGED sweepRequested
    /\ UNCHANGED <<created, retryTimer, cursor, result, waiter, interval, stopped>>

\* pendingLedgerPage: the first unsettled entries after the cursor, and whether
\* there are more.
After(c) == {e \in unsettled : e > c}
PageLimit == Min({BatchSize, MaxPerRun - processed})
Page == {e \in After(cursor) : Cardinality({d \in After(cursor) : d <= e}) <= PageLimit}
HasMore == Page # After(cursor)

CursorKeptAtEnd == IF Page = {} THEN cursor ELSE Max(Page)
NextCursor == IF HasMore THEN Max(Page) ELSE 0

RetryTimerEvenStopped == TRUE
RetryTimerAfterFault == retryTimer \/ ~stopped

\* Leaving the page loop ends the run: its health is set in the same segment.
LeaveLoop(failures, timer) ==
    /\ phase' = "ending"
    /\ state' = HealthAfter(failures, timer)

\* A page cannot be read: ask for another sweep when the retry timer fires.
PageFails ==
    /\ phase \in {"paging", "yielded"}
    /\ faults < MaxFaults
    /\ faults' = faults + 1
    /\ failed' = TRUE
    /\ sweepRequested' = TRUE
    /\ retryTimer' = RetryTimerAfterFault
    /\ LeaveLoop(TRUE, retryTimer')
    /\ UNCHANGED <<unsettled, stale, queues, cursor, processed, result, calls, interval, stopped>>

\* A page is reconciled: each entry is settled, stays unsettled, or throws.
RunPage ==
    /\ phase \in {"paging", "yielded"}
    /\ \E settled \in SUBSET Page : \E failing \in SUBSET (Page \ settled) :
         /\ faults + Cardinality(failing) <= MaxFaults
         /\ faults' = faults + Cardinality(failing)
         /\ failed' = (failed \/ failing # {})
         /\ unsettled' = unsettled \ settled
         /\ stale' = stale \ (Page \ failing)
    /\ processed' = processed + Cardinality(Page)
    /\ cursor' = NextCursor
    /\ \/ /\ ~HasMore
          /\ LeaveLoop(failed', retryTimer)
          /\ UNCHANGED sweepRequested
       \/ /\ HasMore /\ processed' >= MaxPerRun
          /\ sweepRequested' = TRUE
          /\ LeaveLoop(failed', retryTimer)
       \/ /\ HasMore /\ processed' < MaxPerRun
          /\ phase' = "yielded"
          /\ UNCHANGED <<state, sweepRequested>>
    /\ UNCHANGED <<queues, retryTimer, result, calls, interval, stopped>>

-----------------------------------------------------------------------------
(* The end of a run.                                                       *)

NeedsSweepRun == ~stopped /\ sweepRequested /\ ~retryTimer
NeedsRun == ~stopped /\ ((sweepRequested /\ ~retryTimer) \/ Pending # {})

\* Callers of verifyOrder are resumed by the run they awaited, not by the last
\* of a chain of runs.
CallsWokenWhenIdle ==
    [o \in Orders |-> IF waiter[o] = "waiting" /\ ~NeedsRun THEN "resuming" ELSE waiter[o]]
CallsWoken ==
    [o \in Orders |-> IF waiter[o] = "waiting" THEN "resuming" ELSE waiter[o]]

\* The finally() callback of #ensureRun, the restart it queues, and the rest of
\* stop(), which waits for this promise.
Finally ==
    /\ phase = "ending" /\ Resuming = {}
    /\ phase' = IF NeedsRun THEN "restarting" ELSE "idle"
    /\ waiter' = CallsWoken
    /\ result' = failed
    /\ IF stopped
       THEN /\ sweepRequested' = FALSE
            /\ cursor' = 0
            /\ state' = "stopped"
       ELSE UNCHANGED <<sweepRequested, cursor, state>>
    /\ UNCHANGED <<unsettled, stale, queues, retryTimer, processed, failed, outcome,
                   interval, stopped, faults>>

RejectedWithoutRetryCheck(o) == stopped \/ result
Rejected(o) == stopped \/ result \/ o \in Scheduled

\* verifyOrder after an await: `result' is that of the run it awaited, while the
\* queues are those the restarted run may already have changed.
Resume(o) ==
    /\ waiter[o] = "resuming"
    /\ phase \notin {"restarting", "paging"}
    /\ IF ~stopped /\ o \in Pending
       THEN /\ waiter' = [waiter EXCEPT ![o] = "waiting"]
            /\ EnsureRun
       ELSE /\ waiter' = [waiter EXCEPT ![o] = IF Rejected(o) THEN "rejected" ELSE "verified"]
            /\ UNCHANGED phase
    /\ UNCHANGED <<unsettled, stale, queues, sweep, processed, failed, result, state, outcome,
                   interval, stopped, faults>>

\* stop: nothing is armed or queued any more; a run in flight is awaited.
Stop ==
    /\ ~stopped /\ Interruptible
    /\ stopped' = TRUE
    /\ interval' = FALSE
    /\ retryTimer' = FALSE
    /\ scheduled' = [o \in Orders |-> NotQueued]
    /\ pending' = [o \in Orders |-> NotQueued]
    /\ sweepRequested' = FALSE
    /\ IF phase = "idle"
       THEN cursor' = 0 /\ state' = "stopped"
       ELSE UNCHANGED <<cursor, state>>
    /\ UNCHANGED <<unsettled, stale, created, phase, processed, failed, result, calls, faults>>

-----------------------------------------------------------------------------
(* The ledger around the scheduler.                                        *)

\* An entry is recorded, at any position of the sweep's order, or the orders it
\* could belong to change while it is unsettled.
EntryChanges(e) ==
    /\ Interruptible
    /\ e \notin stale
    /\ unsettled' = unsettled \union {e}
    /\ stale' = stale \union {e}
    /\ UNCHANGED <<queues, sweep, run, calls, interval, stopped, faults>>

Init ==
    /\ unsettled = {} /\ stale = {}
    /\ pending = [o \in Orders |-> NotQueued]
    /\ scheduled = [o \in Orders |-> NotQueued]
    /\ created = {} /\ interval = FALSE
    /\ sweepRequested = FALSE /\ retryTimer = FALSE /\ cursor = 0
    /\ phase = "idle" /\ processed = 0 /\ failed = FALSE /\ result = FALSE
    /\ state = "idle" /\ stopped = FALSE
    /\ waiter = [o \in Orders |-> "none"]
    /\ outcome = [o \in Orders |-> "none"]
    /\ faults = 0

RunSteps == RunOrders \/ RunPage \/ PageFails \/ Finally \/ \E o \in Orders : Resume(o)
Timers == IntervalFires \/ SweepRetryFires \/ \E o \in Orders : OrderRetryFires(o)
Requests == Start \/ TriggerSweep \/ Stop \/ \E o \in Orders : TriggerOrder(o) \/ Verify(o)

Next == RunSteps \/ Timers \/ Requests \/ \E e \in Entries : EntryChanges(e)

\* The event loop runs queued microtasks and setImmediate callbacks (weak
\* fairness) and a due timer on one of its next turns, even if it is busy at
\* each instant in between (strong fairness).  No request is ever certain.
Fairness ==
    /\ WF_vars(RunOrders) /\ WF_vars(RunPage \/ PageFails) /\ WF_vars(Finally)
    /\ \A o \in Orders : WF_vars(Resume(o))
    /\ SF_vars(IntervalFires) /\ SF_vars(SweepRetryFires)
    /\ \A o \in Orders : SF_vars(OrderRetryFires(o))

Spec == Init /\ [][Next]_vars /\ Fairness

-----------------------------------------------------------------------------
(* Properties.                                                             *)

\* Requested work is never stranded: with no run in flight no order is queued,
\* and a requested sweep has its retry timer armed; an order never waits in the
\* queue and for its own retry timer at once, so no attempt is made twice.
NoStrandedWork ==
    /\ phase = "idle" => Pending = {} /\ (sweepRequested => retryTimer)
    /\ Pending \intersect Scheduled = {}

\* After stop() has returned nothing is in flight, queued or armed, and the
\* cursor is dropped, even if the awaited run failed to read a page.
StopIsFinal ==
    stopped /\ phase = "idle" =>
        /\ state = "stopped" /\ cursor = 0
        /\ Pending = {} /\ Scheduled = {}
        /\ ~interval /\ ~retryTimer /\ ~sweepRequested

\* verifyOrder does not report success before the order has been tried since the
\* call, "including when it was queued after an existing sweep began", nor while
\* a retry of it is outstanding.
VerifyWaits ==
    \A o \in Orders : waiter[o] = "verified" => outcome[o] \in {"done", "abandoned"}

\* What verifyOrder is documented to do ("Wait for this order"; it throws "order
\* reconciliation did not complete" otherwise): success means that the order's
\* reconciliation completed since the call.
VerifySound ==
    \A o \in Orders : waiter[o] = "verified" => outcome[o] = "done"

\* Every call of verifyOrder is answered, whatever else keeps the scheduler busy.
VerifyAnswered ==
    \A o \in Orders : waiter[o] = "waiting" ~> waiter[o] \in {"verified", "rejected"}

\* Once started, every entry that changes is reconciled again, across run
\* budgets, failed pages, resumed cursors and entries recorded behind the cursor,
\* unless the scheduler is stopped.
EveryEntryVisited ==
    \A e \in Entries : (interval /\ e \in stale) ~> (e \notin stale \/ stopped)
=============================================================================
