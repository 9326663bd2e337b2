# PerPay: a TLA+ verification project

PerPay is a self-hosted payment collector. A merchant's website creates an order; PerPay asks the
customer to pay a slightly different amount than every other open order of the same Alipay account;
it reads the account's statement and recognises the payment **by its amount and its time alone**.
Everything the program promises rests on that recognition, on the books it keeps about it, and on
the notifications it sends because of it. This project models that core from the source, checks it
with TLC and proves the central facts with TLAPS.

Paths below are relative to `src/src/` unless they begin with `src/`.

## 1. Inventory

One Node.js process owns one SQLite database through a synchronous connection. Every store method is
one `BEGIN IMMEDIATE` transaction that runs to completion inside one JavaScript turn; a method that
throws rolls back. Concurrency therefore exists *between* transactions (requests, timers, promise
continuations, crashes), not inside them.

| Component | State | Operations | Hard part |
| --- | --- | --- | --- |
| Order store (`database/order-store.ts`) | orders, amount slots, events, token keys, logical clock | create (idempotent), read, list, close, expire, public checkout | reuse of amounts against late expiry; a wall clock set back; replay of requests; links that must not come back |
| Ledger scan scheduler (`ledger/scheduler.ts`, `scan-gate.ts`, `cadence.ts`) | timer, scan in flight, waiter, uncommitted schedule, health; the durable gate | start, trigger, refresh, stop | storage that fails inside a handler, a stop during a scan, replacement, a clock that is adjusted |
| Ledger ingestion (`ledger/service.ts`, `ledger/store.ts`, `ledger/model.ts`) | cursors, runs, segments, raw pages and events, entries, conflicts, cooldown, sweep deadlines | choose a window, start or resume a run, record a page, split, complete, fail, yield; resolve a conflict | a statement that changes while it is read, crashes between segments, settings changed in a window, two lanes that share the provider |
| Reconciliation store (`reconciliation/store.ts`) | candidates, operations, matches, journal, issues, outbox | reconcile entry/order, settle manually, reverse | automatic against manual settlement, stale candidates, double payments, reversal amounts |
| Reconciliation scheduler (`reconciliation/scheduler.ts`) | queues, timers, cursor, health | start, sweep, order, verify, stop | coalescing of runs, promise order, retries, failing reads |
| Notification delivery (`notifications/*`) | deliveries, leases, attempts | materialise, claim, send, complete, recover, replay | crash with a request in the air, lost answers, revoked confirmations, fairness between websites |
| Websites, accounts, settings (`sites`, `alipay-accounts`, `settings`, `epay`) | configurations with revisions, secrets | create, update, rotate, delete | revision conflicts, rotation against use |
| Runtime controller (`runtime/*`) | the running schedulers, verification cache | reload, verify checkout, manual scan | replacing a scheduler while it runs |
| Identity and API signatures (`identity`, `security`, `database/identity-store.ts`) | administrator, sessions, nonces, limits | setup, login, recovery, authenticated request | nonce replay, concurrent login limits |
| Database owner (`database/database.ts`) | one lease row, the connection | open with the startup queries, write, renew, close | a lease that expires under a suspended process; a maintenance lock that appears between two steps; a startup query the program's own writes violate |
| Maintenance and backup (`database/maintenance.ts`, `maintenance-lock.ts`, `backup/*`) | maintenance, publication and backup locks; backup files; the state file | back up, retain, delete, restore, restore before a migration, clear locks, report health | two volumes changed step by step, death between any two, retention against the recorded backup |
| Audit (`audit/*`, `database/audit-chain.ts`) | spool, hash chain | append, drain | crash between spool and chain |
| HTTP application (`http/*`), front ends (`src/web`) | rate limits | routing, rendering | (mostly none) |

How they interact: HTTP handlers call the order service and store; `main.ts` announces each created
order to the reconciliation scheduler; ledger scans insert entries and trigger a sweep; a settlement
or reversal writes an outbox row in the same transaction; the notification scheduler turns outbox
rows into deliveries. The database tables are the shared state, the schedulers' fields are lost in a
crash.

What makes each part correct is stated as properties in section 4 where it is modelled; every hazard
with its source line is listed in `PROJECT.json` under `hazards`, including the ones no property covers
yet.

## 2. Plan

Modelled first is what decides where money is attributed.

1. `OrderStore`: orders, amounts, clock. *Done, proved.*
2. `Reconciliation` (extends `OrderStore`) and the abstract `PaymentLifecycle` it implements. *Done, proved.*
3. `ReconciliationScheduler` and `WebhookDelivery`. *Done; safety proved.*
4. `LedgerScheduler` (timer, gate, cadence) and `LedgerIngest` (windows, runs, segments, variants,
   sweeps). *Done; safety proved.*
5. `StartupCheck` (the startup queries as predicates over `Reconciliation`; those on ingestion and
   delivery in `LedgerIngest` and `WebhookDelivery`), `LiveDatabase` (lease, maintenance lock, writes) and
   `BackupOperations` (cycles, restores, locks, health), which extends it. *Done; safety proved.* Left of the life cycle:
   the controller's reload and the cache of checkout verifications.
6. Access: administrator sessions, login limits, API nonces and key rotation, settings revisions,
   website and account life cycle, audit spool and chain, checkout rate limit.
7. Compositions: outbox of `Reconciliation` feeding `WebhookDelivery` (a revocation is the reversal that
   caused it), `LedgerScheduler` over `LedgerIngest` (the results of scans are then computed, not chosen),
   scans feeding the sweep, checkout verification over both schedulers.
8. Proofs of every safety property of the modules under 1 to 5 that holds. *Done* (section 5).

## 3. Modules and the code

### OrderStore

State: `orders` is `payment_orders` joined with `amount_slots` and `checkout_sessions`; `events` is
`order_events`; `tokenKeys` the activation times of `checkout_token_keys`; `clock` is
`order_clock.last_now_ms`, `physical` the wall clock; `gone` records links that were answered "not found".

| Action | Code |
| --- | --- |
| `CreateOrder` (`ReplayOrder`, `RefuseOrder`, `ExhaustOrder`, `InsertOrder`) | `createOrder`: sweep, idempotent replay, admission, merchant number, allocation, token key, insert |
| `ReadOrder`, `AdminOrderPage` | reads that expire what they touch |
| `CloseOrder` | `closeOrder`, expiry first |
| `PublicCheckout` | `publicCheckoutByTokenDigest` |
| `Tick`, `SetBack` | the environment's clock, external |

Every operation first advances the logical clock to `max(last_now_ms, wall clock)` and fails when the
former is too far ahead (`ClockIsUsable`). The bounded sweep (`EXPIRY_SWEEP_LIMIT`) expires the due orders
that expired first. Abstractions: a request's content beyond key, merchant number and amount is one
value `detail` (the fingerprints only compare it); random identifiers are elements of `Orders`; the
account list a website may use is a nondeterministic set with a last element tried.

### Reconciliation

`Reconciliation` EXTENDS `OrderStore`: an `OrderStep` leaves the money tables alone, a reconciliation step
uses the same orders and the same clock. `ReconcileEntry` is `reconcileEntry` with its four ends (ignored,
`LeaveUnmatched`, `LeaveAmbiguous`, `AutoSettle`); `SettleManually` and `ReverseSettlement` are the
administrator's decisions with their idempotent replay (`IsReplay`); `RecordEntry`, `FindConflict` and
`ResolveConflict` are the ledger's effects. A settlement writes operation, match, journal, entry state,
order, event, outbox and issue resolution in one action, as one transaction does.

`Precision` is the provider's timestamp precision: a payment reported at *t* happened in
`[t, t + Precision)`. The code demands that this interval lies in the order's window
(`readCandidateFacts`). The cooldown is at least 60 s and the precision at most 1 s, so two candidate
orders exist only in legacy data; the `ambiguity` run sets `Precision` above the cooldown to reach that
code.

Two facts the model brought out. Issues are resolved only by settlement, so the branch of
`ensureException` that opens a further round after a resolved one is not reached by any caller in this
commit (`IssuesTrackEntries` fixes `round = 0`). And a reversed entry is put in state CONFLICT, so only an
administrator can use it again.

`SafetyLag` is how old a movement must be before a scan shows it (`RecordEntry`); `matchEvents` is the
history of each match, and an issue's `by` the operation that resolved it: both are there because the
startup queries compare them with the operations.

`PaymentLifecycle` is what a merchant may rely on: an order appears unpaid, is confirmed at most once,
by an entry no other confirmed order uses, and may be disputed afterwards. `Reconciliation` is shown to
implement it through `Lifecycle == INSTANCE PaymentLifecycle WITH ...` (status and paying entry read from
orders and matches).

### StartupCheck

Before an application may use its database, `AppDatabase.open` runs integrity queries over it, and one row
found refuses the start, a backup and a restore. `StartupCheck` EXTENDS `Reconciliation` and states
`countOrderDomainViolations` and `countReconciliationDomainViolations` turned around: `SlotsAccepted`,
`OrderEventsAccepted`, `CandidateDecided`, `CandidateInWindow`, `MatchAccepted`, `MatchEventsAccepted`,
`NoHistoricalOverlap`, `EffectiveStatesAgree`, `PostingAccepted`, `OperationAccepted`,
`PaymentEventsAccepted`, `ExceptionAccepted`, `OutboxAccepted`; `StartupAccepts` is their conjunction. The
queries are written without regard to the code that writes the rows, so this is a second, independent
statement of what that code must keep. Columns the model holds in one place agree by construction and
are left out, and refunds have no operation in this version. The part of the candidate query that
compares a movement's time with the release of the slot (`CandidateBeforeRelease`) is kept apart as
`CandidatesStayAcceptable`, because a clock that is set back breaks it: see finding 3. The queries on ingestion and delivery are
`LedgerAcceptedAtStartup` in `LedgerIngest` and `DeliveriesAcceptedAtStartup` in `WebhookDelivery`.

### ReconciliationScheduler

A step is the code between two awaits. `phase` tells where the run in flight is; `pending` and `scheduled`
are `#pendingOrders` and `#scheduledOrderRetries` with their retry numbers; `unsettled` is the page query's
result set. Timers fire only between event-loop turns, promise continuations wherever the
synchronous segment is not executing. The one subtle point is the promise order at the end of a run:
the callback given to `finally()` queues a restart, and the promise that `finally()` returns settles two
microtasks later, so the restarted run handles its orders *before* the callers of the earlier run
resume. `triggerOrder` happens once per order (`main.ts`), and the checkout verifier keeps one unfinished
verification per order (`runtime/checkout-verification.ts`).

### WebhookDelivery

`deliveries[e]` is the sequence of generations of one outbox event's delivery, each with its attempts;
`job` is the attempt in hand, with the attempt limit as it was read before the claim; `network` the
requests that left and were not received. `ProcessOne` is everything up to the first await: choice of the
website, `materialize`, `recoverExpiredLeases`, `deadLetterExhaustedDeliveries`, `claimNext`, and the first look at
whether the confirmation is still in force (`MaySend`). The attempt then goes through its `stage`s: the address is
looked up, `Connect` is the second and last look (`beforeSend()`, `notifications/transport.ts:256`) with the start of
the connection, and `Send` is the moment the request leaves, after TCP and TLS; it looks at nothing any more. The
attempt may end before each of them (`PossibleOutcomes`). `Complete`, `Stop`, `Crash`, `Start` and `Replay` follow. Which due delivery is claimed first is left open.
Time is reduced to `due` and `expired`. Signing keys are left out: notifications can only be enabled with
a key and keys are never deleted. A `stop()` in the yield between two deliveries lets one more delivery be
claimed; its request is aborted before it leaves and one attempt is recorded as OUTCOME_UNKNOWN. The model
has this behaviour and no property forbids it. Nor can a reversal call back a request that is already
connecting: `exposed` is history and holds the requests for which a reversal came between `Connect` and `Send`, and
`OnlyTheConnectingStillLeave` names them as the one exception to what `docs/epay-integration.md` says of revoked
confirmations ("their pending notifications end").

### LedgerScheduler

`s` is the memory of one `LedgerIngestScheduler` object, `gate` the account's row of `ledger_scan_gate`,
`cadence` what the cadence policy would answer now. `quiet` is a history variable with what the results
of all scans so far asked for, whatever became of storage. Every time is relative to the present: a tick
lowers all of them, and a `ClockStep` lowers or raises the wall-clock times while the timer's remaining
delay stays. Times further back than `Horizon` are one value; `CutOffAssumption` states, and TLC evaluates,
that no comparison of the code can tell.

| Action | Code |
| --- | --- |
| `Request`, and `Trigger` with its four ends | `trigger`, `#trigger`: restore an uncommitted schedule, storage unreadable, wait, scan |
| `TimerPostpones`, `TimerFires` | the callback of `#scheduleAt` |
| `RefreshSchedule` | `refreshSchedule` |
| `Settle`, `Finally` | the promise chain of a scan: health, `#scheduleNext`, `#persistSchedule`, `#armSchedule`; then `finally()` |
| `Stop`, `StopFinishes`, `StopAgain` | `stop`, before and after its await, and repeated |
| `Replace`, `Crash` | the controller's replacement of a stopped scheduler (`#applyMultiAccountSnapshot`), a restart |

Each persistence step has three outcomes: success, a failing read, a failing write (which has already
merged the saved gate into memory). Each reading of the cadence may fail, and then returns the last value.
An aborted scan happens only after `stop()`. The scheduler is configured with a positive minimum interval
and with a gate, as the controller always does. Only a crash may lose a schedule that was never
committed; `Crash` resets `quiet` to what the gate knows in that case.

### LedgerIngest

One account's statement becomes ledger entries. `cursor` and `run` are the rows of the two lanes (normal
scans and compensation sweeps) with the pending segments; `latest`, `processed` and `stored` are the
observations and raw events by request and response; `origin` gives each event the page it was first
normalised from; `due` and `cooldown` are the sweep deadlines and the ingestion cooldown; `svc` is the
batch in flight. `Begin` is `#run` up to the first request with `chooseWindow` and `startIngestRun`; `Answer`
is what `recordSegmentPage` makes of a response: `RecordVariant`, `RecordSplit`, `RecordTooDense` or
`RecordAccepted`, the last with `completeSegmentRun` and `advanceCompensationState`; `Yield`, `Error` and
`Crash` end a batch otherwise. A response is the set of events the provider shows for the window at
that moment, so a request repeated later may get another response.

Assumptions on the environment, all in the model's text: events in `Prompt` are shown within the safety
lag, others at any time; the local clock may lag behind the provider's and be adjusted, but is never
ahead of it; a time is a whole second, the resolution of a provider window.

What the model made precise. The first normal window covers only the last `Window` (24 hours) before the
safe tail, so events between activation and that moment are left to the compensation sweeps when the
first scan comes late (`history.from` in `NothingMissedBehindCursor`). After a density failure, and after
a crash between the last page of a batch and its yield, the cursor's time is not advanced, so a sweep may
go twice before the normal lane gets its turn; `NormalGetsItsTurn` speaks of batches that handed over. It
fails when the clock is set back (finding 2); `NormalGetsItsTurnOnSteadyClock` is the promise that is kept.
Within the bounds below the maximum in `AdvancedAt` (`advanceCompensationState`) is never needed.
Details that cannot be normalised, and events that contradict a recorded entry, are left to
`Reconciliation`'s conflicts.

### LiveDatabase

A database is an inode; `target` is the inode under the database's name, `wal` the inode whose `-wal` file lies
beside that name, `mlock` the maintenance lock, and `app` the application processes, each holding the inode it
opened. Of the contents only the writes and the instance identity are kept. `acked` and `kept` are history:
the writes that were committed, and those a restore has set aside.

| Action | Code |
| --- | --- |
| `Starts`, `Connects`, `ChecksAgain`, `TakesLease`, `Opens` | `AppDatabase.open`: the maintenance lock is looked for before and after connecting and once more under the lease |
| `Begins`, `Commits` | `AppDatabase.write`: lock and lease are looked at under SQLite's write lock |
| `Renews`, `Closes` | `#renewLease` that finds the lease taken, `close` |
| `Dies`, `Damage` | external: a process killed, a file damaged while nobody has it open |

Lease times are abstracted: a process may be suspended at any step, so whoever looks at the lease of an
application may find it expired or not (`LeaseExpired`); the lease maintenance takes lasts a day and does not
expire here.

### BackupOperations

`BackupOperations` EXTENDS `LiveDatabase` with the backup volume and the processes that work on both: the
backup service and an operator's commands. `files` are the published backups by name (a time stamp and a
number), `state` is `perpay-local-backup-state.json`, `block` and `plock` the backup and the publication lock;
`linked`, `temps` and `twoLinks` the second names and temporary files an interrupted step leaves. `of` of a
backup is history: whether it was made of the database that is in use (`live`), of one before
`restore-migration-backup` (`rolled back`) or of one replaced otherwise (`replaced`).

| Action | Code |
| --- | --- |
| `AcquireBackupLock`, `Prepare`, `Recover`, `ReleaseBackupLock` | `withBackupLock`, `executeTrackedCycle`, `recoverInterruptedBackupFiles` |
| `AcquirePublicationLock` ... `ReleasePublicationLock` | `createOperationalBackup`: source, snapshot, barrier, link, unlink |
| `RecordRecoveryPoint`, `PruneOne`, `PruneDone`, `DeleteBackupFile` | the new backup on record, then `pruneLocalBackups`; `delete-backup-file` |
| `SelectBackup`, `SelectMigrationBackup` | the restore commands up to the replacement |
| `AcquireMaintenanceLock` ... `ReleaseMaintenanceLock`, `FinishRestore` | `restoreOperationalBackup`, `restoreMigrationBackup`: probe, claim, quiesce, quarantine, replace, or move aside and link |
| `BackupFails`, `RestoreFails`, `RefusesBackup`, `RetentionFails`, `RefusesCommand`, `RecordFailure` | an error at any step, with what the `catch` and `finally` blocks undo and what they leave |
| `ProcDies` | external: death at any step, the locks it holds stay |
| `ClearBackupLock`, `ClearPublicationLock`, `ClearMaintenanceLock`, `ClearUnreadableMaintenanceLock`, `FinalizeFreshRestore` | the operator's clear commands, each with the confirmation that nothing else runs |

Assumed of the operator, as `docs/maintenance.md` asks: a clear command runs only when no backup or
maintenance process does, the isolation of an unreadable database only when all applications are stopped.
`restore-migration-backup` is the one command that replaces the database (`database/maintenance.ts:914`) and leaves
the backup state as it is (`RollBack`): a healthy report after it is about a backup of the database before it, until a
backup begun later is on record, and so is the report of a cycle that had made its copy already.
`docs/maintenance.md` does not mention the command. `HealthyBackupIsNotOfReplaced` names this exception. The health
verdict (`HealthOk`) is modelled without its age limit, which makes the property about it stronger.

What reading the code for the model showed besides: a leftover staging file of an earlier crashed
restore makes `--finalize-interrupted-fresh-restore` refuse as ambiguous; an unreadable maintenance lock
beside a damaged database cannot be cleared by command, because the lease cannot be read.

## 4. Runs

| Run | Question | Distinct states |
| --- | --- | --- |
| `orders` | Conflicting requests for at most two orders on two accounts, a clock set back: are the windows of equal amounts a cooldown apart (`PaymentWindowsSeparated`), do end times agree (`EndTimesConsistent`), does lateness never lengthen a cooldown (`CooldownNeverRestarts`), is the retry hint exact (`RetryHintExact`), is there one order per key and merchant number (`OneOrderPerRequest`), do links stay gone (`LinkNotRevived`), do the triggers accept every update (`UpdatesAccepted`)? | 170 k |
| `settlement` | Automatic and manual settlement and reversal: do matches, entries, orders agree (`SettlementsAgree`), do the books balance (`BooksBalance`), does the outbox tell the truth (`OutboxFollowsOrders`), can one payment time fit two orders of the same amount (`WindowsTellOrdersApart`), is `PaymentLifecycle` implemented (`ImplementsLifecycle`)? | 208 k |
| `ambiguity` | Overlapping windows: is automatic settlement unambiguous at the moment it happens (`AutoSettlementUnambiguous`), do issues track entries (`IssuesTrackEntries`), and would the program open what it has written, finding 3 apart (`StartupAccepts`)? | 482 k |
| `startup_clock` | Do the startup queries on candidates still hold when the wall clock may be set back (`CandidatesStayAcceptable`)? **No**, see below. | |
| `scheduler` | Is requested work ever stranded (`NoStrandedWork`), does verification wait (`VerifyWaits`) and get an answer (`VerifyAnswered`), is every changed entry visited (`EveryEntryVisited`), is stop final (`StopIsFinal`)? | 137 k |
| `scheduler_verify` | Does successful verification mean completed reconciliation (`VerifySound`)? **No**, see below. | |
| `webhook_safety` | Do leases (`HeldLeaseStands`) and acknowledgements (`AcknowledgedWasReceived`) stay truthful, does nothing leave after a reversal but what was already connecting (`OnlyTheConnectingStillLeave`), and do the startup queries accept deliveries and attempts after every crash (`DeliveriesAcceptedAtStartup`)? | 979 k |
| `webhook_liveness` | Is every event concluded, whatever receivers do (`EveryEventConcluded`)? | 326 k |
| `ledger` | Is there always one owner of the next step (`OneOwner`), is the provider left alone as long as asked (`ProviderLeftAlone`), do scans continue (`ScansContinue`) and waiters get an answer (`WaitersAnswered`)? | 91 k |
| `ingest` | Is nothing missed behind the cursor (`NothingMissedBehindCursor`, `CompletedRunIsComplete`), do windows leave no gap (`WindowsLeaveNoGap`), is no start refused (`StartNeverRefused`), do the startup queries accept pages, runs, sweeps and cooldown (`LedgerAcceptedAtStartup`), and does a due normal window get its turn on a steady clock (`NormalGetsItsTurnOnSteadyClock`)? | 143 k |
| `ingest_clock` | Does it get its turn when the clock may be set back (`NormalGetsItsTurn`)? **No**, see below. | |
| `operations` | Backups, retention, restores, deaths and a damaged file beside a running application: is no acknowledged write lost (`NothingLost`), is no database opened beside a foreign `-wal` file (`OwnWalOnly`), does the recorded backup stay (`RecoveryPointKept`), and is a healthy report never about a database a restore has replaced, `restore-migration-backup` apart (`HealthyBackupIsNotOfReplaced`)? | 1.33 M |

Every property has a mutant in `PROJECT.json`: a changed definition of the model, as a plausible slip in
the code would change it, under which TLC finds that property violated.

**Finding 1.** `verifyOrder` (`reconciliation/scheduler.ts:187`) can resolve although the order's
reconciliation failed for the last time. It is called while a run is in flight and takes over a
scheduled retry that already has the last allowed number. The restarted run handles the order, which
fails, exceeds the retry limit and is dropped; only then does the caller resume, sees the order neither
pending nor scheduled, and holds the earlier run's result without failures. The customer's checkout
verification reports completion; the interval sweep still finds the payment later.

**Finding 2.** `chooseWindow` (`ledger/service.ts:586`) lets a due normal window go before an open sweep only
if `normalCursor.updatedAt <= compensationCursor.updatedAt`. The two times are each monotonic but not on
one clock. When the wall clock is set back behind the last normal completion, the sweep's yields are
stamped earlier than it, and the sweep is resumed batch after batch although a normal window is due,
until the clock has caught up or the sweep ends. The comment above the comparison gives the normal tail
"first priority". New payments are then recognised late, not lost.

**Finding 3.** The startup query at `database/database.ts:1957` refuses a database in which a candidate's entry
occurred at or after the release of its slot. The trigger on `match_candidates` (`database/migrations.ts:3863`)
demands that only at insertion, and `closeOrder` (`database/order-store.ts:806`) releases an open order's slot at
the logical time, whatever was paid. The logical clock is advanced by order and reconciliation
transactions, not by scans. When a movement is scanned and the wall clock is then set back by more than
the safety lag (10 s) but within the five minutes the order clock tolerates, the movement settles its
order and a close before the clock has caught up releases the slot at or before the payment. From then on
the program refuses its own database at every start, backup and restore.

### Bounds, and why they are enough

*Orders.* The four requests repeat a key with other contents and reuse a merchant order number, so at most
two orders are made; `MaxOffset = 1` leaves each request one amount per account, which is refused while it is
taken and reused after its cooldown. Two accounts let the allocation move on to another one; four ticks
cover a lifetime, two cooldown lengths and a clock that is set back. More orders and more amounts (the hint as a
minimum over several slots, third and later generations) are left to the theorems, which hold for any number;
a third order takes the run beyond two million states. *Settlement.* Two orders and two entries allow a double
payment, a wrong amount and a crossed manual settlement; two decisions allow settle-then-reverse and a
replay; two lifetimes make one order end inside the window of the other. *Scheduler.* A page of one and a
budget of two make every loop exit happen; one order with one retry is enough for a verification to meet
a run in flight, a scheduled retry and a restart; faults are capped by `MaxFaults`, as an endless series of
faults is degradation by design.
*Delivery.* Two attempts, one replay and three disturbances (crash, stop, settings change) reach every
pair of them around each stage of one request; liveness uses two websites, so that a failing one can compete.
*Scan scheduler.* Two cadences, a Retry-After as long as the slower one, a storage retry and the longer delay of a
permanent failure interact; a disturbance is a crash or a clock set back by one unit.
*Ingestion.* A page of one event and windows of up to three seconds make every split and the smallest
window happen; three events, two of them in adjacent seconds (the case in which halving cannot help) and one
that is shown at any time, give every response variant and density failures; five seconds hold consecutive normal windows
and complete both sweeps; one fault is a crash, a change of settings or an adjusted clock.
*Operations.* One application with one write, which a restore may or may not contain, and two
processes, so that a command meets another one; six inodes are the database, its replacement, the one an
application still holds, one that was created anew and two more than any state uses, as `BackupAssumption`
asks; two commands, one death and one movement of the
clock reach every pair of an interruption and what follows it. Larger instances (three commands on a clock
that stands still, 1.85 million states; two deaths, 2.3 million) passed as well and are not among the runs for
their length. The branch of `PruneDone` that meets files it cannot verify takes three commands and a clock
set back, and is not reached.
`CHECK_DEADLOCK FALSE` is set where the model's clock or the supply of orders or commands ends, or where a
stopped scheduler takes no further step. Symmetry is used for orders, accounts, entries, decisions, keys and
backup processes in safety runs only, never with liveness.

### Fairness

`OrderStore`, `Reconciliation`, `LiveDatabase` and `BackupOperations` have none; they state safety only. In `ReconciliationScheduler` the steps
of a run are microtasks or `setImmediate` callbacks that Node always executes (weak fairness); a timer
that is due fires in one of the next turns even if runs keep restarting (strong fairness, as the model
enables timers only between turns). In `WebhookDelivery` the interval starts a run, a run goes on, a
request ends by its timeout at the latest, and backoffs and leases run out (weak fairness). In
`LedgerScheduler` a due timer fires, a scan ends (its requests have timeouts), `finally()` follows, time
passes (weak fairness); and storage does not fail every time the timer tries it (strong fairness of a
timer step that reaches storage), without which no scheduler could go on. `LedgerIngest` states safety
only. Nothing is
assumed of receivers, administrators, crashes or restarts: `EveryEventConcluded` is conditional on the
process staying up and the website staying enabled from some time on.

## 5. Proofs

Every theorem holds for all values of the constants that satisfy the named assumptions of the modules, not
only for the instances of section 4. Each one rests on an inductive invariant, because hardly any of the
properties is inductive: the invariants below say what else has to hold for the next step to keep it. Each
was checked with TLC on the instance of its run before it was proved. Lemmas come first: one for each helper
of the model (what it returns, what it leaves alone), one for each action, then `Init => Inv`,
`Inv /\ [Next]_vars => Inv'`, and the temporal step.

| Module | Inductive invariant | Theorems |
| --- | --- | --- |
| `OrderStoreProofs` | `IInv` | `TypeCorrect`, `WindowsSeparated`, `EndTimesHold`, `UpdatesAreAccepted`, `CooldownsNeverRestart`, `RequestsGetOneOrder`, `LinksAreNotRevived`, `RetryHintsAreExact` |
| `ReconciliationProofs` | `RInv`, `SInv`, `CInv`, `XInv`, `OInv`, `BInv` | `AttributionUnambiguous`, `SettlementsAlwaysAgree`, `StoreImplementsLifecycle`, `AutoSettlementsAreUnambiguous`, `IssuesAlwaysTrackEntries`, `BooksAlwaysBalance` |
| `StartupProofs` | `VInv`, `GInv`, `HInv`, `PInv` | `OutboxAlwaysFollows`, `StartupAlwaysAccepts` |
| `WebhookProofs` | `WInv`, `ExposedHeld` | `LeasesStand`, `DeliveriesAlwaysAccepted`, `AcknowledgementsAreReal`, `OnlyExposedLeave` |
| `ReconciliationSchedulerProofs` | `QInv` | `WorkIsNeverStranded`, `StoppingIsFinal`, `VerifyingWaits` |
| `LedgerSchedulerProofs` | `LInv` | `AlwaysOneOwner`, `ProviderIsLeftAlone` |
| `LedgerIngestProofs` | `GInv` | `NothingMissed`, `StartsAreAccepted`, `LedgerAlwaysAccepted`, `RunsCompleteInFull`, `WindowsMeetWithoutGap`, `NormalGetsItsTurnWhileSteady` |
| `BackupProofs` | `DInv`, `MInv` | `NothingIsEverLost`, `WalIsItsOwn`, `RecoveryPointStays`, `HealthyIsNotReplaced` |

*Orders.* `PaymentWindowsSeparated` compares any two orders of an amount, but allocation looks only at the slot
of the highest generation. `IInv` adds that there is a latest slot, that generations order the slots of one
amount in time, that no row is younger than the clock, and that an ended order's end never moves. Every step
is reduced to what it does to rows: it ends open checkouts (`UpdateStep`) or also inserts one order
(`InsertStep`); the action properties follow from the same reduction. `RetryHintsAreExact` needs that the
hint is a minimum over a finite set of release times and that nothing is released between now and it.

*Money.* `RInv` carries `IInv` through the payment operations, which touch nothing an amount slot is made of.
`AttributionUnambiguous` has one hypothesis, that every cooldown is at least `Precision`; the code's limits (60 s
against 1 s) guarantee it, and the `ambiguity` run shows what happens without it. `SInv` relates matches to orders
and entries; the refinement is proved from it, each step of `RNext` being a step of `PaymentLifecycle` or a
stutter. `CInv` says that a candidate which is still eligible leads to an unpaid order and an unspent entry.
`BInv` ties operations, matches and journal row by row. The balance is a sum over a table of any size, a
recursive function over finite sets; `TotalWithout` (a sum is one element and the rest, whichever element is
taken) is proved from the library's well-founded order of finite sets, by taking a smallest set for which
it fails, and a step then moves a sum by the one posting it adds. `HInv` says what the startup queries ask of
rows they do not read together: how many generations an amount has had, what became of each match, and which
operation resolved an issue. `CandidatesStayAcceptable`, the rest of
the query on candidates, does not hold in general (finding 3). `StartupAlwaysAccepts` therefore has two parts:
`StartupAccepts` always holds, and `CandidatesStayAcceptable` as long as the wall clock is never set back
(`WallClockNeverSetBack`). For the second part `PInv` adds that every recorded movement lies before the wall clock
now; a slot is released at the logical time, which is not before the wall clock, and a new candidate is in its
window when it is recorded.

*Delivery.* The attempt in hand lives in memory, its row in the database, and between the two a crash, a
recovery of expired leases, a resend or a revocation may come. `WInv` says that the row in hand is the latest
generation, LEASED, with the attempt as its last (`JobHeld`), and of each row what the startup check demands.
`ExposedHeld` says of an attempt that is connecting: its confirmation is in force, or the reversal found it
connecting; `OnlyExposedLeave` follows, because no later attempt gets past `Connect`.

*Schedulers.* `QInv` accounts for each unfinished `verifyOrder` call: its order is queued, waits for a retry, or
has had its last attempt. In `LInv` a protection the provider asked for may be in three places: in the saved
gate, in memory as an uncommitted schedule, or already merged (`Effective`). A completion may be so old that it
was cut off; it is then covered by the clock steps that are left (`Spaced`), which is where `CutOffAssumption`
is used. The proof needs no more of results than that their delays are natural numbers.

*Ingestion.* `NothingMissedBehindCursor` speaks of the cursor's end, but events get there through runs, segments
and pages. `GInv` follows them: an event shown when the run was opened is recorded or in a segment that is
still to be asked for (`ShownAccounted`); a page that was processed before has its events in the ledger
(`EvidenceKept`); the provider shows prompt events within the lag (`PromptSeen`), so that an event behind the end of a
window was shown when its run began (`BehindCursor`). `ChosenWell` is the lemma about `chooseWindow`: the window is
a resumed one, with its own limits, or one that goes on from the last. `WrittenInOrder` holds as long as the clock
is steady, and `NormalGetsItsTurnWhileSteady` rests on it; without that premise the property fails (finding 2).

*Backup.* Any number of commands and applications work on one database and one backup directory, and each may die
between two steps with its locks left behind. `DInv` says where a command may be (`Staged`), that it holds the
backup lock from its first step to its last (`HoldsBackup`), that the backup on record is in the directory and, as
long as none is required, not of a replaced database (`OnRecord`), and what a command read and still relies on
(`Knows`): `RecoveryPointKept` follows, because retention works from a state read under the lock. `MInv` is about
the two volumes. `Maintains` lists what the holder of the maintenance lock has made sure of before each step, from
the probe over the claim of the lease to the moved database: whatever it takes away is by then without an
application that could still commit to it, and what was committed is in the database or set aside. `AppHeld` says
how far an application got that is open or opening while the lock is taken, and `WalHeld` that a `-wal` file is
without its database only under that lock with all applications down. `NothingLost` is inductive only together with
these three.

Some places of the model were rewritten for these proofs without changing what they say: updates of nested
records are operators of their own (`AgedTimer`, `AgedPlan`, `SplitRun`, `CompletedCursor`, `AcceptedRun`), tables are
overwritten by `Over`, the history of a match is taken by `MatchEventsOf`, and what TLC instances satisfied anyway
is a named assumption (`SweepsAssumption`, the activation lies within the modelled time). `BackupAssumption`
asks for more inodes than applications, processes and file names together can hold, so that a new database
always finds an unused one, as on a file system.

*Only model-checked.*

* Liveness (`VerifyAnswered`, `EveryEntryVisited`, `EveryEventConcluded`, `ScansContinue`, `WaitersAnswered`):
  fairness and ENABLED are outside the prover.
* `VerifySound`, `NormalGetsItsTurn` and `CandidatesStayAcceptable` do not hold; TLC shows how. The last one is
  proved for a wall clock that is never set back.

## 6. What is not modelled

`PROJECT.json` lists every component with its status and the reason.

* *No state of its own, or only input and output:* cryptography, signature checks, formatting, HTML and HTTP
  routing, DNS and TLS, the update checker, the ledger views, the front ends and the API types generated for
  them. Together with the text of migrations and of SQL statements these are most of the repository's lines,
  which is why the map covers a small share of them although it covers the core's control.
* *Planned (section 2):* identity and sessions, API nonces, website and account life cycle, settings revisions,
  the audit spool, the controller's reload, the compositions of the components that are modelled one by one.
* *Time stamps of deliveries:* abstracted to `due` and `expired`, so that a clock set back between claim and
  completion is not covered.
* *Backup:* the service's timers, the age limit and the digest cache of the health report, the listings, the
  rebuilding of a damaged state file, the temporary name of a state file whose writer died. Removing a lock
  file compares it with what was read before it is unlinked; a third process that replaces it between the
  two is not modelled, nor is a migration that runs inside `open`.
