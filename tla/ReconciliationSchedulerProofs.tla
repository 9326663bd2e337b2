-------------------- MODULE ReconciliationSchedulerProofs --------------------
(***************************************************************************)
(* Theorems about ReconciliationScheduler: no requested work is stranded,  *)
(* stop() is final, and verifyOrder waits for an attempt at its order, for *)
(* any number of orders, entries, retries and faults.                      *)
(*                                                                         *)
(* The inductive invariant QInv adds to the properties where an order may  *)
(* be: one whose verifyOrder call is unfinished is queued, waits for its   *)
(* retry, or has had its last attempt (CallsAccounted); and what holds of  *)
(* the queues and timers between stop() and the end of the run in flight   *)
(* (StoppedIsQuiet).                                                       *)
(***************************************************************************)
EXTENDS ReconciliationScheduler, TLAPS

Counts == Nat \cup {NotQueued}

QueuesTyped ==
    /\ pending \in [Orders -> Counts] /\ scheduled \in [Orders -> Counts]
    /\ waiter \in [Orders -> {"none", "waiting", "resuming", "verified", "rejected"}]
    /\ outcome \in [Orders -> {"none", "done", "retrying", "abandoned"}]
    /\ retryTimer \in BOOLEAN /\ sweepRequested \in BOOLEAN /\ stopped \in BOOLEAN

(* After stop() nothing is queued or armed any more, and once the run in   *)
(* flight is over nothing is left of it.                                   *)
StoppedIsQuiet ==
    stopped =>
        /\ Pending = {} /\ Scheduled = {} /\ ~interval /\ ~retryTimer
        /\ phase = "idle" => state = "stopped" /\ cursor = 0 /\ ~sweepRequested

Tried(o) == outcome[o] \in {"done", "abandoned"}

(* Where the order of an unfinished or successful verifyOrder call is.     *)
CallsAccounted ==
    \A o \in Orders :
        /\ waiter[o] \in {"waiting", "resuming"} /\ ~stopped =>
               o \in Pending \/ o \in Scheduled \/ Tried(o)
        /\ waiter[o] = "verified" => Tried(o)

QInv == QueuesTyped /\ NoStrandedWork /\ StoppedIsQuiet /\ CallsAccounted

(* The queues, the calls and the timers stay as they are.                  *)
queued == <<pending, scheduled, waiter, outcome, stopped, retryTimer, interval>>

LEMMA QueuesUnchanged ==
    ASSUME QInv, UNCHANGED queued, sweepRequested' \in BOOLEAN,
           phase' = "idle" => /\ Pending = {} /\ (sweepRequested' => retryTimer)
                              /\ stopped => state' = "stopped" /\ cursor' = 0 /\ ~sweepRequested'
    PROVE  QInv'
<1>1. Pending' = Pending /\ Scheduled' = Scheduled
  BY DEF queued, Pending, Scheduled
<1>2. QueuesTyped'
  BY DEF QInv, QueuesTyped, queued
<1>3. NoStrandedWork'
  BY <1>1 DEF QInv, NoStrandedWork, queued
<1>4. StoppedIsQuiet'
  BY <1>1 DEF QInv, StoppedIsQuiet, queued
<1>5. CallsAccounted'
  BY <1>1 DEF QInv, CallsAccounted, Tried, queued
<1>6. QED
  BY <1>2, <1>3, <1>4, <1>5 DEF QInv

LEMMA EnsuredRun ==
    ASSUME EnsureRun
    PROVE  phase' # "idle"
BY DEF EnsureRun

LEMMA InitQ == Init => QInv
<1> SUFFICES ASSUME Init PROVE QInv
  OBVIOUS
<1>1. QueuesTyped
  BY DEF Init, QueuesTyped, Counts
<1>2. Pending = {} /\ Scheduled = {}
  BY DEF Init, Pending, Scheduled
<1>3. NoStrandedWork /\ StoppedIsQuiet /\ CallsAccounted
  BY <1>2 DEF Init, NoStrandedWork, StoppedIsQuiet, CallsAccounted
<1>4. QED
  BY <1>1, <1>3 DEF QInv

-----------------------------------------------------------------------------
(* Requests and timers.                                                    *)

LEMMA SweepRequestsKeep ==
    ASSUME QInv, Start \/ TriggerSweep \/ IntervalFires
    PROVE  QInv'
<1>1. ~stopped /\ UNCHANGED <<pending, scheduled, waiter, outcome, stopped, retryTimer>>
  BY DEF Start, TriggerSweep, IntervalFires, RequestSweep, queues, calls
<1>2. sweepRequested' = TRUE /\ phase' # "idle"
  BY EnsuredRun DEF Start, TriggerSweep, IntervalFires, RequestSweep
<1>3. Pending' = Pending /\ Scheduled' = Scheduled
  BY <1>1 DEF Pending, Scheduled
<1>4. QueuesTyped'
  BY <1>1, <1>2 DEF QInv, QueuesTyped
<1>5. NoStrandedWork'
  BY <1>2, <1>3 DEF QInv, NoStrandedWork
<1>6. StoppedIsQuiet'
  BY <1>1 DEF StoppedIsQuiet
<1>7. CallsAccounted'
  BY <1>1, <1>3 DEF QInv, CallsAccounted, Tried
<1>8. QED
  BY <1>4, <1>5, <1>6, <1>7 DEF QInv

(* An order is queued, taken over from the retry timer it may have had.    *)
LEMMA Queued ==
    ASSUME QInv, NEW o \in Orders, QueueOrder(o), UNCHANGED stopped
    PROVE  /\ ~stopped' /\ phase' # "idle"
           /\ pending' \in [Orders -> Counts] /\ scheduled' \in [Orders -> Counts]
           /\ Pending' = Pending \cup {o} /\ Scheduled' = Scheduled \ {o}
<1>1. /\ ~stopped /\ phase' # "idle"
      /\ scheduled' = [scheduled EXCEPT ![o] = NotQueued]
      /\ pending' = WithOrderQueued(o)
  BY EnsuredRun DEF QueueOrder, WithRetryCancelled
<1>2. pending \in [Orders -> Counts] /\ scheduled \in [Orders -> Counts]
  BY DEF QInv, QueuesTyped
<1>3. PICK n : n = CASE pending[o] # NotQueued -> pending[o]
                     [] pending[o] = NotQueued /\ scheduled[o] # NotQueued -> scheduled[o]
                     [] OTHER -> 0
  OBVIOUS
<1>4. n \in Nat
  BY <1>2, <1>3 DEF Counts, NotQueued
<1>5. pending' = [pending EXCEPT ![o] = n]
  BY <1>1, <1>2, <1>3 DEF WithOrderQueued
<1>6. pending' \in [Orders -> Counts] /\ scheduled' \in [Orders -> Counts]
  BY <1>1, <1>2, <1>4, <1>5 DEF Counts
<1>7. Pending' = Pending \cup {o}
  BY <1>2, <1>4, <1>5 DEF Pending, NotQueued
<1>8. Scheduled' = Scheduled \ {o}
  BY <1>1, <1>2 DEF Scheduled
<1>9. QED
  BY <1>1, <1>6, <1>7, <1>8

LEMMA TriggerOrderKeeps ==
    ASSUME QInv, NEW o \in Orders, TriggerOrder(o)
    PROVE  QInv'
<1>1. QueueOrder(o) /\ UNCHANGED <<stopped, waiter, outcome, sweepRequested, retryTimer>>
  BY DEF TriggerOrder, calls, sweep
<1>2. /\ ~stopped' /\ phase' # "idle"
      /\ pending' \in [Orders -> Counts] /\ scheduled' \in [Orders -> Counts]
      /\ Pending' = Pending \cup {o} /\ Scheduled' = Scheduled \ {o}
  BY <1>1, Queued
<1>3. QueuesTyped'
  BY <1>1, <1>2 DEF QInv, QueuesTyped
<1>4. NoStrandedWork'
  BY <1>2 DEF QInv, NoStrandedWork
<1>5. StoppedIsQuiet'
  BY <1>2 DEF StoppedIsQuiet
<1>6. CallsAccounted'
  BY <1>1, <1>2 DEF QInv, CallsAccounted, Tried
<1>7. QED
  BY <1>3, <1>4, <1>5, <1>6 DEF QInv

(* verifyOrder queues its order, whatever its last call said.              *)
LEMMA VerifyKeeps ==
    ASSUME QInv, NEW o \in Orders, Verify(o)
    PROVE  QInv'
<1>1. /\ QueueOrder(o) /\ UNCHANGED <<stopped, sweepRequested, retryTimer>>
      /\ waiter' = [waiter EXCEPT ![o] = "waiting"]
      /\ outcome' = [outcome EXCEPT ![o] = "none"]
  BY DEF Verify, sweep
<1>2. /\ ~stopped' /\ phase' # "idle"
      /\ pending' \in [Orders -> Counts] /\ scheduled' \in [Orders -> Counts]
      /\ Pending' = Pending \cup {o} /\ Scheduled' = Scheduled \ {o}
  BY <1>1, Queued
<1>3. QueuesTyped'
  BY <1>1, <1>2 DEF QInv, QueuesTyped
<1>4. NoStrandedWork'
  BY <1>2 DEF QInv, NoStrandedWork
<1>5. StoppedIsQuiet'
  BY <1>2 DEF StoppedIsQuiet
<1>6. CallsAccounted'
  <2> SUFFICES ASSUME NEW p \in Orders
               PROVE  /\ waiter'[p] \in {"waiting", "resuming"} /\ ~stopped' =>
                             p \in Pending' \/ p \in Scheduled' \/ Tried(p)'
                      /\ waiter'[p] = "verified" => Tried(p)'
    BY DEF CallsAccounted
  <2>1. CASE p = o
    BY <1>1, <1>2, <2>1 DEF QInv, QueuesTyped
  <2>2. CASE p # o
    BY <1>1, <1>2, <2>2 DEF QInv, QueuesTyped, CallsAccounted, Tried
  <2>3. QED
    BY <2>1, <2>2
<1>7. QED
  BY <1>3, <1>4, <1>5, <1>6 DEF QInv

LEMMA SweepRetryKeeps ==
    ASSUME QInv, SweepRetryFires
    PROVE  QInv'
<1>1. /\ retryTimer /\ retryTimer' = FALSE /\ phase' # "idle"
      /\ UNCHANGED <<pending, scheduled, waiter, outcome, stopped, sweepRequested>>
  BY EnsuredRun DEF SweepRetryFires, queues, calls
<1>2. ~stopped
  BY <1>1 DEF QInv, StoppedIsQuiet
<1>3. Pending' = Pending /\ Scheduled' = Scheduled
  BY <1>1 DEF Pending, Scheduled
<1>4. QueuesTyped'
  BY <1>1 DEF QInv, QueuesTyped
<1>5. NoStrandedWork' /\ StoppedIsQuiet' /\ CallsAccounted'
  BY <1>1, <1>2, <1>3 DEF QInv, NoStrandedWork, StoppedIsQuiet, CallsAccounted, Tried
<1>6. QED
  BY <1>4, <1>5 DEF QInv

LEMMA OrderRetryKeeps ==
    ASSUME QInv, NEW o \in Orders, OrderRetryFires(o)
    PROVE  QInv'
<1>1. /\ scheduled[o] # NotQueued /\ phase' # "idle"
      /\ scheduled' = [scheduled EXCEPT ![o] = NotQueued]
      /\ pending' = [pending EXCEPT ![o] = scheduled[o]]
      /\ UNCHANGED <<waiter, outcome, stopped, sweepRequested, retryTimer>>
  BY EnsuredRun DEF OrderRetryFires, Scheduled, calls, sweep
<1>2. ~stopped
  BY <1>1 DEF QInv, StoppedIsQuiet, Scheduled
<1>3. Pending' = Pending \cup {o} /\ Scheduled' = Scheduled \ {o}
  BY <1>1 DEF QInv, QueuesTyped, Pending, Scheduled
<1>4. QueuesTyped'
  BY <1>1 DEF QInv, QueuesTyped, Counts
<1>5. NoStrandedWork'
  BY <1>1, <1>3 DEF QInv, NoStrandedWork
<1>6. StoppedIsQuiet'
  BY <1>1, <1>2 DEF StoppedIsQuiet
<1>7. CallsAccounted'
  BY <1>1, <1>3 DEF QInv, CallsAccounted, Tried
<1>8. QED
  BY <1>4, <1>5, <1>6, <1>7 DEF QInv

LEMMA StopKeeps ==
    ASSUME QInv, Stop
    PROVE  QInv'
<1>1. /\ stopped' = TRUE /\ interval' = FALSE /\ retryTimer' = FALSE /\ sweepRequested' = FALSE
      /\ scheduled' = [o \in Orders |-> NotQueued] /\ pending' = [o \in Orders |-> NotQueued]
      /\ UNCHANGED <<phase, waiter, outcome>>
      /\ phase = "idle" => cursor' = 0 /\ state' = "stopped"
  BY DEF Stop, calls
<1>2. Pending' = {} /\ Scheduled' = {}
  BY <1>1 DEF Pending, Scheduled
<1>3. QueuesTyped'
  BY <1>1 DEF QInv, QueuesTyped, Counts
<1>4. NoStrandedWork'
  BY <1>1, <1>2 DEF NoStrandedWork
<1>5. StoppedIsQuiet'
  BY <1>1, <1>2 DEF StoppedIsQuiet
<1>6. CallsAccounted'
  BY <1>1 DEF QInv, CallsAccounted, Tried
<1>7. QED
  BY <1>3, <1>4, <1>5, <1>6 DEF QInv

-----------------------------------------------------------------------------
(* The run.                                                                *)

LEMMA RunOrdersKeeps ==
    ASSUME QInv, RunOrders
    PROVE  QInv'
<1>1. PICK failing \in SUBSET Pending :
         /\ pending' = [o \in Orders |-> NotQueued]
         /\ scheduled' = [o \in Orders |->
                            IF o \in failing /\ RetryAllowed(o) THEN RetryNumber(o)
                            ELSE scheduled[o]]
         /\ outcome' = [o \in Orders |->
                          IF waiter[o] \notin {"waiting", "resuming"} \/ o \notin Pending
                          THEN outcome[o]
                          ELSE IF o \in Pending \ failing THEN "done"
                          ELSE IF RetryAllowed(o) THEN "retrying" ELSE "abandoned"]
         /\ phase' \in {"paging", "ending"} /\ sweepRequested' \in {sweepRequested, FALSE}
  BY DEF RunOrders
<1>2. UNCHANGED <<retryTimer, waiter, interval, stopped>>
  BY DEF RunOrders
<1>3. Pending' = {}
  BY <1>1 DEF Pending
<1>4. ASSUME NEW o \in failing
      PROVE  /\ o \in Orders /\ o \notin Scheduled
             /\ RetryNumber(o) \in Nat /\ RetryNumber(o) # NotQueued
  <2>1. o \in Orders /\ pending[o] \in Nat
    BY <1>1 DEF QInv, QueuesTyped, Pending, Counts
  <2>2. QED
    BY <1>1, <2>1 DEF RetryNumber, NotQueued, QInv, NoStrandedWork
<1>5. QueuesTyped'
  <2>1. pending' \in [Orders -> Counts]
    BY <1>1 DEF Counts
  <2>2. scheduled' \in [Orders -> Counts]
    BY <1>1, <1>4 DEF QInv, QueuesTyped, Counts
  <2>3. outcome' \in [Orders -> {"none", "done", "retrying", "abandoned"}]
    <3>1. ASSUME NEW o \in Orders
          PROVE  outcome'[o] \in {"none", "done", "retrying", "abandoned"}
      <4>1. outcome[o] \in {"none", "done", "retrying", "abandoned"}
        BY DEF QInv, QueuesTyped
      <4>2. QED
        BY <1>1, <4>1
    <3>2. QED
      BY <1>1, <3>1
  <2>4. QED
    BY <1>1, <1>2, <2>1, <2>2, <2>3 DEF QInv, QueuesTyped
<1>6. NoStrandedWork'
  BY <1>1, <1>3 DEF NoStrandedWork
<1>7. StoppedIsQuiet'
  <2>1. stopped => Scheduled' = {}
    BY <1>1 DEF QInv, StoppedIsQuiet, Scheduled, RetryAllowed
  <2>2. QED
    BY <1>1, <1>2, <1>3, <2>1 DEF QInv, StoppedIsQuiet
<1>8. CallsAccounted'
  <2> SUFFICES ASSUME NEW o \in Orders
               PROVE  /\ waiter[o] \in {"waiting", "resuming"} /\ ~stopped =>
                             o \in Scheduled' \/ Tried(o)'
                      /\ waiter[o] = "verified" => Tried(o)'
    BY <1>2 DEF CallsAccounted
  <2>1. CASE waiter[o] \notin {"waiting", "resuming"}
    <3>1. outcome'[o] = outcome[o]
      BY <1>1, <2>1
    <3>2. QED
      BY <2>1, <3>1 DEF QInv, CallsAccounted, Tried
  <2>2. CASE waiter[o] \in {"waiting", "resuming"} /\ o \in failing /\ RetryAllowed(o)
    BY <1>1, <1>4, <2>2 DEF Scheduled
  <2>3. CASE waiter[o] \in {"waiting", "resuming"} /\ o \in failing /\ ~RetryAllowed(o)
    BY <1>1, <2>3 DEF Tried
  <2>4. CASE waiter[o] \in {"waiting", "resuming"} /\ o \in Pending \ failing
    BY <1>1, <2>4 DEF Tried
  <2>5. CASE waiter[o] \in {"waiting", "resuming"} /\ o \notin Pending
    <3>1. outcome'[o] = outcome[o] /\ scheduled'[o] = scheduled[o]
      BY <1>1, <2>5
    <3>2. QED
      BY <2>5, <3>1 DEF QInv, CallsAccounted, Tried, Scheduled
  <2>6. QED
    BY <2>1, <2>2, <2>3, <2>4, <2>5
<1>9. QED
  BY <1>5, <1>6, <1>7, <1>8 DEF QInv

LEMMA RunPageKeeps ==
    ASSUME QInv, RunPage
    PROVE  QInv'
<1>1. UNCHANGED queued /\ phase' # "idle"
  BY DEF RunPage, LeaveLoop, queued, queues, calls
<1>2. sweepRequested' \in BOOLEAN
  BY DEF RunPage, QInv, QueuesTyped
<1>3. QED
  BY <1>1, <1>2, QueuesUnchanged

LEMMA PageFailsKeeps ==
    ASSUME QInv, PageFails
    PROVE  QInv'
<1>1. /\ UNCHANGED <<pending, scheduled, waiter, outcome, stopped, interval>>
      /\ sweepRequested' = TRUE /\ retryTimer' = (retryTimer \/ ~stopped) /\ phase' = "ending"
  BY DEF PageFails, RetryTimerAfterFault, LeaveLoop, queues, calls
<1>2. Pending' = Pending /\ Scheduled' = Scheduled
  BY <1>1 DEF Pending, Scheduled
<1>3. QueuesTyped'
  BY <1>1 DEF QInv, QueuesTyped
<1>4. NoStrandedWork' /\ StoppedIsQuiet' /\ CallsAccounted'
  BY <1>1, <1>2 DEF QInv, NoStrandedWork, StoppedIsQuiet, CallsAccounted, Tried
<1>5. QED
  BY <1>3, <1>4 DEF QInv

(* The end of a run wakes the callers that waited for it; the scheduler    *)
(* becomes idle only when nothing is queued or requested.                  *)
LEMMA FinallyKeeps ==
    ASSUME QInv, Finally
    PROVE  QInv'
<1>1. /\ phase' = (IF NeedsRun THEN "restarting" ELSE "idle") /\ waiter' = CallsWoken
      /\ UNCHANGED <<pending, scheduled, retryTimer, outcome, interval, stopped>>
      /\ stopped => sweepRequested' = FALSE /\ cursor' = 0 /\ state' = "stopped"
      /\ ~stopped => UNCHANGED sweepRequested
  BY DEF Finally, queues
<1>2. Pending' = Pending /\ Scheduled' = Scheduled
  BY <1>1 DEF Pending, Scheduled
<1>3. ASSUME NEW o \in Orders
      PROVE  /\ waiter'[o] \in {"none", "waiting", "resuming", "verified", "rejected"}
             /\ waiter'[o] \in {"waiting", "resuming"} => waiter[o] \in {"waiting", "resuming"}
             /\ waiter'[o] = "verified" => waiter[o] = "verified"
  BY <1>1 DEF CallsWoken, QInv, QueuesTyped
<1>4. QueuesTyped'
  <2>1. waiter' \in [Orders -> {"none", "waiting", "resuming", "verified", "rejected"}]
    BY <1>1, <1>3 DEF CallsWoken
  <2>2. QED
    BY <1>1, <2>1 DEF QInv, QueuesTyped
<1>5. NoStrandedWork'
  BY <1>1, <1>2 DEF QInv, NoStrandedWork, StoppedIsQuiet, NeedsRun
<1>6. StoppedIsQuiet'
  BY <1>1, <1>2 DEF QInv, StoppedIsQuiet
<1>7. CallsAccounted'
  BY <1>1, <1>2, <1>3 DEF QInv, CallsAccounted, Tried
<1>8. QED
  BY <1>4, <1>5, <1>6, <1>7 DEF QInv

(* A call succeeds only when its order is nowhere left to wait for.        *)
LEMMA ResumeKeeps ==
    ASSUME QInv, NEW o \in Orders, Resume(o)
    PROVE  QInv'
<1>1. PICK new : /\ waiter' = [waiter EXCEPT ![o] = new]
                 /\ new \in {"waiting", "verified", "rejected"}
                 /\ new = "waiting" => ~stopped /\ o \in Pending /\ phase' # "idle"
                 /\ new # "waiting" => phase' = phase /\ ~(~stopped /\ o \in Pending)
                 /\ new = "verified" => ~stopped /\ o \notin Scheduled
  BY EnsuredRun DEF Resume, Rejected
<1>2. /\ waiter[o] = "resuming"
      /\ UNCHANGED <<pending, scheduled, outcome, sweepRequested, retryTimer, cursor, state,
                     interval, stopped>>
  BY DEF Resume, queues, sweep
<1>3. Pending' = Pending /\ Scheduled' = Scheduled
  BY <1>2 DEF Pending, Scheduled
<1>4. QueuesTyped'
  BY <1>1, <1>2 DEF QInv, QueuesTyped
<1>5. NoStrandedWork' /\ StoppedIsQuiet'
  BY <1>1, <1>2, <1>3 DEF QInv, NoStrandedWork, StoppedIsQuiet
<1>6. CallsAccounted'
  <2> SUFFICES ASSUME NEW p \in Orders
               PROVE  /\ waiter'[p] \in {"waiting", "resuming"} /\ ~stopped =>
                             p \in Pending \/ p \in Scheduled \/ Tried(p)
                      /\ waiter'[p] = "verified" => Tried(p)
    BY <1>2, <1>3 DEF CallsAccounted, Tried
  <2>1. CASE p = o
    BY <1>1, <1>2, <2>1 DEF QInv, QueuesTyped, CallsAccounted
  <2>2. CASE p # o
    BY <1>1, <2>2 DEF QInv, QueuesTyped, CallsAccounted
  <2>3. QED
    BY <2>1, <2>2
<1>7. QED
  BY <1>4, <1>5, <1>6 DEF QInv

LEMMA NextKeepsQ ==
    ASSUME QInv, [Next]_vars
    PROVE  QInv'
<1>1. CASE RunOrders
  BY <1>1, RunOrdersKeeps
<1>2. CASE RunPage
  BY <1>2, RunPageKeeps
<1>3. CASE PageFails
  BY <1>3, PageFailsKeeps
<1>4. CASE Finally
  BY <1>4, FinallyKeeps
<1>5. CASE Start \/ TriggerSweep \/ IntervalFires
  BY <1>5, SweepRequestsKeep
<1>6. CASE SweepRetryFires
  BY <1>6, SweepRetryKeeps
<1>7. CASE Stop
  BY <1>7, StopKeeps
<1>8. ASSUME NEW o \in Orders, Resume(o) \/ OrderRetryFires(o) \/ TriggerOrder(o) \/ Verify(o)
      PROVE  QInv'
  BY <1>8, ResumeKeeps, OrderRetryKeeps, TriggerOrderKeeps, VerifyKeeps
<1>9. CASE (\E e \in Entries : EntryChanges(e)) \/ UNCHANGED vars
  <2>1. UNCHANGED <<queued, sweepRequested, phase, cursor, state>>
    BY <1>9 DEF EntryChanges, vars, queued, queues, sweep, run, calls
  <2>2. QED
    BY <2>1, QueuesUnchanged DEF QInv, QueuesTyped, NoStrandedWork, StoppedIsQuiet
<1>10. QED
  BY <1>1, <1>2, <1>3, <1>4, <1>5, <1>6, <1>7, <1>8, <1>9 DEF Next, RunSteps, Timers, Requests

-----------------------------------------------------------------------------
(* Results.                                                                *)

THEOREM QueuesInvariant == Spec => []QInv
BY InitQ, NextKeepsQ, PTL DEF Spec

(* With no run in flight no order is queued and a requested sweep has its  *)
(* retry timer armed; no order is queued and waits for a retry at once     *)
(* (#ensureRun, triggerOrder).                                             *)
THEOREM WorkIsNeverStranded == Spec => []NoStrandedWork
BY QueuesInvariant, PTL DEF QInv

(* After stop() has returned nothing is in flight, queued or armed, even   *)
(* if the run it awaited failed to read a page.                            *)
THEOREM StoppingIsFinal == Spec => []StopIsFinal
<1>1. QInv => StopIsFinal
  BY DEF QInv, StoppedIsQuiet, StopIsFinal
<1>2. QED
  BY <1>1, QueuesInvariant, PTL

(* verifyOrder does not succeed before its order was tried since the call. *)
THEOREM VerifyingWaits == Spec => []VerifyWaits
<1>1. QInv => VerifyWaits
  BY DEF QInv, CallsAccounted, Tried, VerifyWaits
<1>2. QED
  BY <1>1, QueuesInvariant, PTL

=============================================================================
