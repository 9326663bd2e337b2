-------------------------- MODULE WebhookDelivery --------------------------
(***************************************************************************)
(* Delivery of outbox events to the websites' notification addresses:      *)
(* src/src/notifications/store.ts (deliveries, leases, attempts, replay),  *)
(* service.ts (one attempt), site-processor.ts (which website is next) and *)
(* scheduler.ts (the serial runs).                                         *)
(*                                                                         *)
(* A step is a synchronous section of the Node process; SQLite writes in   *)
(* it are durable, the rest of the process state is lost in a crash.  The  *)
(* receiving website and the network are external: a request may be lost,  *)
(* answered late, or answered after the sender has given up.  Looking up   *)
(* the address, connecting with the TLS handshake, and the answer each     *)
(* take time, and anything may happen meanwhile.                           *)
(*                                                                         *)
(* Time is abstracted to what it enables: a waiting delivery becomes due   *)
(* (next_attempt_at), a lease runs out (lease_expires_at).                 *)
(***************************************************************************)
EXTENDS Integers, Sequences, SequencesExt, FiniteSets, FiniteSetsExt

CONSTANTS Events,          \* outbox events; each order has one webhook target
          SiteCount,       \* websites are 1..SiteCount, in client_id order
          SiteOf,          \* event -> website of its order
          FormatOf,        \* event -> "NATIVE" or "EPAY"
          TypeOf,          \* event -> "CONFIRMED" or "REVERSED"
          Limits,          \* values of policy.maximum_attempts
          BatchLimit,      \* materialize limit (64)
          RunBudget,       \* #maximumDeliveriesPerRun
          Replays,         \* redelivery IDs an administrator may use
          MaxDisturbances  \* bound: crashes, stops and settings changes

Sites == 1 .. SiteCount

ASSUME WebhookAssumption ==
    /\ SiteCount \in Nat /\ MaxDisturbances \in Nat
    /\ BatchLimit \in Nat \ {0} /\ RunBudget \in Nat \ {0}
    /\ Limits \subseteq Nat \ {0} /\ Limits # {}
    /\ SiteOf \in [Events -> Sites]
    /\ FormatOf \in [Events -> {"NATIVE", "EPAY"}]
    /\ TypeOf \in [Events -> {"CONFIRMED", "REVERSED"}]
    /\ Events \intersect Replays = {}

VARIABLES
    posted,        \* outbox_events
    revoked,       \* confirmations whose match has been reversed
    deliveries,    \* event -> its deliveries, by generation
    enabled,       \* websites with notifications_enabled
    limit,         \* website -> maximum_attempts
    process,       \* "up", "stopping" (stop() is waiting), "down"
    phase,         \* of the run: "idle", "next" (about to process one), "busy"
    left,          \* deliveries the run may still process
    lastSite,      \* #lastClientId, 0 for null
    job,           \* the claimed attempt of the run
    network,       \* requests that have been sent and not yet received
    acked,         \* history: deliveries a receiver has acknowledged
    exposed,       \* history: requests past their last check, but still connecting,
                   \* when their confirmation was revoked
    disturbances

tables == <<posted, revoked, deliveries>>
settings == <<enabled, limit>>
scheduler == <<process, phase, left, lastSite, job>>
outside == <<network, acked, exposed>>
vars == <<tables, settings, scheduler, outside, disturbances>>

Active == {"PENDING", "LEASED", "RETRY_WAIT"}
Terminal == {"ACKNOWLEDGED", "DEAD_LETTER"}
Results == {"ACKNOWLEDGED", "RETRYABLE_FAILURE", "PERMANENT_FAILURE", "OUTCOME_UNKNOWN"}
Outcomes == Results \union {"STARTED"}
Replies == {"none", "ack", "retry", "refuse"}

\* due: next_attempt_at has passed; expired: lease_expires_at has passed;
\* attempts: the outcomes of its webhook_attempts, attempt_count is their number.
Delivery == [key : Events \union Replays, status : Active \union Terminal,
             due : BOOLEAN, expired : BOOLEAN, attempts : Seq(Outcomes)]

\* How far the attempt in hand is: given up at the first check, looking up the
\* address, connecting (TCP and TLS), or the request has left.
Stages == {"refused", "resolving", "connecting", "sent"}

\* The attempt in hand: maximum_attempts as it was read before the claim.
Job == [event : Events, generation : Nat, number : Nat, maximum : Limits,
        stage : Stages, reply : Replies]
NoJob == [stage |-> "none"]

NewDelivery(key) ==
    [key |-> key, status |-> "PENDING", due |-> TRUE, expired |-> FALSE, attempts |-> <<>>]

Request(j) == <<j.event, j.generation, j.number>>

-----------------------------------------------------------------------------
(* The tables.                                                             *)

\* EasyPay targets are told of confirmations only.
Deliverable(e) == FormatOf[e] = "NATIVE" \/ TypeOf[e] = "CONFIRMED"

Unmaterialized(s) ==
    {e \in posted : SiteOf[e] = s /\ Deliverable(e) /\ deliveries[e] = <<>>}

\* materialize: the first BatchLimit events of the website without a delivery.
Batches(s) ==
    {b \in SUBSET Unmaterialized(s) :
        Cardinality(b) = Min({BatchLimit, Cardinality(Unmaterialized(s))})}

WithMaterialized(b, ds) ==
    [e \in Events |-> IF e \in b THEN <<NewDelivery(e)>> ELSE ds[e]]

\* Every delivery of a table, changed by F.
EachDelivery(ds, F(_, _)) ==
    [e \in Events |-> [g \in DOMAIN ds[e] |-> F(e, ds[e][g])]]

LastAttemptIs(d, outcome) == [d.attempts EXCEPT ![Len(d.attempts)] = outcome]

RecoveredSilently(d) ==
    IF d.status = "LEASED" /\ d.expired
    THEN [d EXCEPT !.status = "RETRY_WAIT", !.due = TRUE, !.expired = FALSE]
    ELSE d

\* recoverExpiredLeases: what became of the request is not known.
Recovered(d) ==
    IF d.status = "LEASED" /\ d.expired
    THEN [d EXCEPT !.status = "RETRY_WAIT", !.due = TRUE, !.expired = FALSE,
                   !.attempts = LastAttemptIs(d, "OUTCOME_UNKNOWN")]
    ELSE d
WithLeasesRecovered(ds) == EachDelivery(ds, LAMBDA e, d : Recovered(d))

\* deadLetterExhaustedDeliveries of one website.
Exhausted(d, s) ==
    /\ d.status \in {"PENDING", "RETRY_WAIT"}
    /\ Len(d.attempts) >= limit[s] /\ Len(d.attempts) >= 1
WithoutDeadLetters(ds, s) == ds
WithExhaustedDead(ds, s) ==
    EachDelivery(ds, LAMBDA e, d :
        IF SiteOf[e] = s /\ Exhausted(d, s) THEN [d EXCEPT !.status = "DEAD_LETTER"] ELSE d)

\* The deliveries claimNext may pick, as <<event, generation>>.
Claimable(ds, s) ==
    UNION {{<<e, g>> : g \in {h \in DOMAIN ds[e] :
                /\ ds[e][h].status \in {"PENDING", "RETRY_WAIT"} /\ ds[e][h].due
                /\ Len(ds[e][h].attempts) < limit[s]}} : e \in {f \in Events : SiteOf[f] = s}}

WithClaimed(ds, e, g) ==
    [ds EXCEPT ![e][g].status = "LEASED", ![e][g].due = FALSE, ![e][g].expired = FALSE,
               ![e][g].attempts = Append(@, "STARTED")]

\* completeAttempt: the delivery after an attempt with this outcome.
AfterAttemptIgnoringUnknown(d, outcome, maximum) ==
    LET retry == outcome = "RETRYABLE_FAILURE" /\ Len(d.attempts) < maximum
    IN  [d EXCEPT !.attempts = LastAttemptIs(d, outcome),
                  !.expired = FALSE,
                  !.status = CASE outcome \in {"ACKNOWLEDGED", "OUTCOME_UNKNOWN"} -> "ACKNOWLEDGED"
                               [] retry -> "RETRY_WAIT"
                               [] OTHER -> "DEAD_LETTER"]
AfterAttempt(d, outcome, maximum) ==
    LET retry == /\ outcome \in {"RETRYABLE_FAILURE", "OUTCOME_UNKNOWN"}
                 /\ Len(d.attempts) < maximum
    IN  [d EXCEPT !.attempts = LastAttemptIs(d, outcome),
                  !.expired = FALSE,
                  !.status = CASE outcome = "ACKNOWLEDGED" -> "ACKNOWLEDGED"
                               [] retry -> "RETRY_WAIT"
                               [] OTHER -> "DEAD_LETTER"]

-----------------------------------------------------------------------------
(* The runs.                                                               *)

\* start(), trigger() and the interval: one run at a time.
RunStarts ==
    /\ process = "up" /\ phase = "idle"
    /\ phase' = "next"
    /\ left' = RunBudget
    /\ UNCHANGED <<tables, settings, process, lastSite, job, outside, disturbances>>

HasWork(s) ==
    \/ Unmaterialized(s) # {}
    \/ \E e \in Events : \E g \in DOMAIN deliveries[e] :
         /\ SiteOf[e] = s
         /\ LET d == deliveries[e][g]
            IN  \/ d.status \in {"PENDING", "RETRY_WAIT"} /\ d.due
                \/ d.status = "LEASED" /\ d.expired

\* nextNotificationSite: round robin over the enabled websites with work.
SiteAfter(after, ready) ==
    IF \E s \in ready : s > after THEN Min({s \in ready : s > after}) ELSE Min(ready)

\* After one delivery: stop at an abort or at the run's budget, else go on.
Continue ==
    /\ left' = left - 1
    /\ phase' = IF process = "stopping" \/ left = 1 THEN "idle" ELSE "next"

\* processOne with nothing to do ends the run.
ProcessNothing ==
    /\ phase = "next"
    /\ ~\E s \in enabled : HasWork(s)
    /\ phase' = "idle"
    /\ UNCHANGED <<tables, settings, process, left, lastSite, job, outside, disturbances>>

\* canDeliver: the confirmation an EasyPay request tells of is still in force.
MaySend(e) == FormatOf[e] = "EPAY" => e \notin revoked

\* processOne up to its first await: materialize and claimNext for one website,
\* and the first of the two checks of #send.
ProcessOne ==
    /\ phase = "next"
    /\ \E s0 \in enabled : HasWork(s0)
    /\ LET s == SiteAfter(lastSite, {x \in enabled : HasWork(x)})
       IN  /\ lastSite' = s
           /\ \E b \in Batches(s) :
                LET ds == WithExhaustedDead(WithLeasesRecovered(WithMaterialized(b, deliveries)), s)
                IN  \/ /\ Claimable(ds, s) = {}
                       /\ deliveries' = ds
                       /\ phase' = "idle"
                       /\ UNCHANGED job
                    \/ \E c \in Claimable(ds, s) :
                         /\ deliveries' = WithClaimed(ds, c[1], c[2])
                         /\ job' = [event |-> c[1], generation |-> c[2],
                                    number |-> Len(ds[c[1]][c[2]].attempts) + 1,
                                    maximum |-> limit[s], reply |-> "none",
                                    stage |-> IF MaySend(c[1]) THEN "resolving" ELSE "refused"]
                         /\ phase' = "busy"
    /\ UNCHANGED <<posted, revoked, settings, process, left, outside, disturbances>>

\* The address is known, and neither a timeout nor an abort came first.
AddressResolved ==
    /\ phase = "busy" /\ job.stage = "resolving"
    /\ process # "stopping"
    /\ job' = [job EXCEPT !.stage = "connecting"]
    /\ UNCHANGED <<tables, settings, process, phase, left, lastSite, outside, disturbances>>

\* beforeSend(), the second and last check, and the connection begins.
Connect == AddressResolved /\ MaySend(job.event)

\* The connection stands and the request leaves; nothing is looked at any more.
\* An abort would have destroyed it.
Send ==
    /\ phase = "busy" /\ job.stage = "connecting"
    /\ process # "stopping"
    /\ job' = [job EXCEPT !.stage = "sent"]
    /\ network' = network \union {Request(job)}
    /\ UNCHANGED <<tables, settings, process, phase, left, lastSite, acked, exposed, disturbances>>

\* What #deliver may conclude.  A confirmation revoked at the claim is given up.
\* Until the request has left: a bad address or a confirmation revoked by the
\* second check (permanent), a failed lookup or certificate (retryable), a lost
\* connection, a timeout or an abort (unknown).  After it: what the receiver
\* answered, or nothing.
PossibleOutcomes(j) ==
    CASE j.stage = "refused" -> {"PERMANENT_FAILURE"}
      [] j.stage \in {"resolving", "connecting"} ->
            {"PERMANENT_FAILURE", "RETRYABLE_FAILURE", "OUTCOME_UNKNOWN"}
      [] j.stage = "sent" ->
            {"OUTCOME_UNKNOWN"} \union
            CASE j.reply = "ack" -> {"ACKNOWLEDGED"}
              [] j.reply = "retry" -> {"RETRYABLE_FAILURE"}
              [] j.reply = "refuse" -> {"PERMANENT_FAILURE"}
              [] j.reply = "none" -> {}

\* completeAttempt, and the run goes on.
Complete ==
    /\ phase = "busy"
    /\ \E outcome \in PossibleOutcomes(job) :
         deliveries' = [deliveries EXCEPT ![job.event][job.generation] =
                          AfterAttempt(@, outcome, job.maximum)]
    /\ job' = NoJob
    /\ Continue
    /\ UNCHANGED <<posted, revoked, settings, process, lastSite, outside, disturbances>>

\* stop(): abort the request in hand; the process exits once no run is in flight.
Stop ==
    /\ process = "up" /\ disturbances < MaxDisturbances
    /\ process' = "stopping"
    /\ disturbances' = disturbances + 1
    /\ UNCHANGED <<tables, settings, phase, left, lastSite, job, outside>>

Stopped ==
    /\ process = "stopping" /\ phase = "idle"
    /\ process' = "down"
    /\ UNCHANGED <<tables, settings, phase, left, lastSite, job, outside, disturbances>>

\* The process dies; only the database survives.
Crash ==
    /\ process # "down" /\ disturbances < MaxDisturbances
    /\ process' = "down"
    /\ phase' = "idle" /\ left' = 0 /\ lastSite' = 0 /\ job' = NoJob
    /\ disturbances' = disturbances + 1
    /\ UNCHANGED <<tables, settings, outside>>

\* A new process, or a new scheduler after a configuration reload.
Start ==
    /\ process = "down"
    /\ process' = "up"
    /\ phase' = "next" /\ left' = RunBudget /\ lastSite' = 0
    /\ UNCHANGED <<tables, settings, job, outside, disturbances>>

-----------------------------------------------------------------------------
(* The rest of the system.                                                 *)

\* A settlement or a reversal writes an outbox event.
Post(e) ==
    /\ e \notin posted
    /\ posted' = posted \union {e}
    /\ UNCHANGED <<revoked, deliveries, settings, scheduler, outside, disturbances>>

\* The match of a confirmation is reversed.
Revoke(e) ==
    /\ e \in posted \ revoked /\ TypeOf[e] = "CONFIRMED"
    /\ revoked' = revoked \union {e}
    /\ exposed' = IF job.stage = "connecting" /\ job.event = e
                  THEN exposed \union {Request(job)} ELSE exposed
    /\ UNCHANGED <<posted, deliveries, settings, scheduler, network, acked, disturbances>>

\* Redelivery IDs in use (request_key is unique).
UsedKeys == UNION {{deliveries[e][g].key : g \in DOMAIN deliveries[e]} : e \in Events}

CanReplayUnfinished(e, id) ==
    deliveries[e] # <<>> /\ id \notin UsedKeys /\ SiteOf[e] \in enabled
CanReplay(e, id) ==
    /\ deliveries[e] # <<>> /\ id \notin UsedKeys /\ SiteOf[e] \in enabled
    /\ Last(deliveries[e]).status \in Terminal

\* replay: an administrator sends the latest, finished delivery again.  The same
\* redelivery ID returns the delivery it made before.
Replay(e, id) ==
    /\ CanReplay(e, id)
    /\ deliveries' = [deliveries EXCEPT ![e] = Append(@, NewDelivery(id))]
    /\ UNCHANGED <<posted, revoked, settings, scheduler, outside, disturbances>>

\* The website's notifications are paused or resumed, or its policy changes.
ChangeSettings(s) ==
    /\ disturbances < MaxDisturbances
    /\ disturbances' = disturbances + 1
    /\ \/ /\ enabled' = IF s \in enabled THEN enabled \ {s} ELSE enabled \union {s}
          /\ UNCHANGED limit
       \/ /\ \E n \in Limits : limit' = [limit EXCEPT ![s] = n]
          /\ UNCHANGED enabled
    /\ UNCHANGED <<tables, scheduler, outside>>

\* The backoff of a waiting delivery ends.
BackoffEnds(e, g) ==
    /\ g \in DOMAIN deliveries[e]
    /\ deliveries[e][g].status = "RETRY_WAIT" /\ ~deliveries[e][g].due
    /\ deliveries' = [deliveries EXCEPT ![e][g].due = TRUE]
    /\ UNCHANGED <<posted, revoked, settings, scheduler, outside, disturbances>>

\* A lease runs out.
LeaseExpires(e, g) ==
    /\ g \in DOMAIN deliveries[e]
    /\ deliveries[e][g].status = "LEASED" /\ ~deliveries[e][g].expired
    /\ deliveries' = [deliveries EXCEPT ![e][g].expired = TRUE]
    /\ UNCHANGED <<posted, revoked, settings, scheduler, outside, disturbances>>

\* The website handles a request and answers; the answer reaches the sender only
\* if it still waits for it.
Receive(r, verdict) ==
    /\ r \in network
    /\ network' = network \ {r}
    /\ acked' = IF verdict = "ack" THEN acked \union {<<r[1], r[2]>>} ELSE acked
    /\ job' = IF job # NoJob /\ Request(job) = r THEN [job EXCEPT !.reply = verdict] ELSE job
    /\ UNCHANGED <<tables, settings, process, phase, left, lastSite, exposed, disturbances>>

Lose(r) ==
    /\ r \in network
    /\ network' = network \ {r}
    /\ UNCHANGED <<tables, settings, scheduler, acked, exposed, disturbances>>

Init ==
    /\ posted = {} /\ revoked = {}
    /\ deliveries = [e \in Events |-> <<>>]
    /\ enabled = Sites
    /\ limit = [s \in Sites |-> Max(Limits)]
    /\ process = "up" /\ phase = "next" /\ left = RunBudget
    /\ lastSite = 0 /\ job = NoJob
    /\ network = {} /\ acked = {} /\ exposed = {}
    /\ disturbances = 0

Generations == 1 .. Cardinality(Replays) + 1

Next ==
    \/ RunStarts \/ ProcessNothing \/ ProcessOne \/ Connect \/ Send \/ Complete
    \/ Stop \/ Stopped \/ Crash \/ Start
    \/ \E e \in Events : Post(e) \/ Revoke(e) \/ \E id \in Replays : Replay(e, id)
    \/ \E s \in Sites : ChangeSettings(s)
    \/ \E e \in Events, g \in Generations : BackoffEnds(e, g) \/ LeaseExpires(e, g)
    \/ \E r \in network : Lose(r) \/ \E verdict \in {"ack", "retry", "refuse"} : Receive(r, verdict)

\* The interval fires, a run goes on, a request ends by its timeout at the latest,
\* and time passes.  Nothing is assumed of receivers or of the administrator.
Fairness ==
    /\ WF_vars(RunStarts) /\ WF_vars(ProcessNothing \/ ProcessOne) /\ WF_vars(Complete)
    /\ \A e \in Events, g \in Generations :
         WF_vars(BackoffEnds(e, g)) /\ WF_vars(LeaseExpires(e, g))

Spec == Init /\ [][Next]_vars /\ Fairness

-----------------------------------------------------------------------------
(* The startup check of these tables: countWebhookDomainViolations in      *)
(* src/src/database/database.ts.  One violation and the database is not    *)
(* opened.                                                                 *)

\* The first delivery is the program's own, each further one an
\* administrator's, of a predecessor that was finished.
GenerationAccepted(e, g) ==
    LET d == deliveries[e][g]
    IN  IF g = 1 THEN d.key = e
        ELSE d.key \in Replays /\ deliveries[e][g - 1].status \in Terminal

\* The last attempt explains the status, and no other attempt is under way.
AttemptsAccepted(d) ==
    /\ d.status = "PENDING" => d.attempts = <<>>
    /\ d.status # "PENDING" =>
          /\ d.attempts # <<>>
          /\ Last(d.attempts) \in
                CASE d.status = "LEASED" -> {"STARTED"}
                  [] d.status = "RETRY_WAIT" -> {"RETRYABLE_FAILURE", "OUTCOME_UNKNOWN"}
                  [] d.status = "ACKNOWLEDGED" -> {"ACKNOWLEDGED"}
                  [] d.status = "DEAD_LETTER" ->
                       {"RETRYABLE_FAILURE", "PERMANENT_FAILURE", "OUTCOME_UNKNOWN"}
    /\ \A n \in 1 .. Len(d.attempts) : d.attempts[n] = "STARTED" =>
          d.status = "LEASED" /\ n = Len(d.attempts)

-----------------------------------------------------------------------------
(* Properties.                                                             *)

\* completeAttempt never meets webhook_delivery_state_conflict: while a run holds
\* an attempt its lease stands, even past its expiry, after a crash, a restart or
\* a recovery of other leases.
HeldLeaseStands ==
    job # NoJob =>
        /\ job.generation = Len(deliveries[job.event])
        /\ LET d == Last(deliveries[job.event])
           IN  d.status = "LEASED" /\ job.number = Len(d.attempts)

\* What the program left behind, it will open again, whatever it was doing when
\* it stopped: no row of webhook_deliveries or webhook_attempts is selected by
\* countWebhookDomainViolations.  A delivery is tried again only after a
\* retryable or unknown outcome, and only the latest generation of an event is
\* unfinished (webhook_deliveries_one_active).
DeliveriesAcceptedAtStartup ==
    \A e \in Events : \A g \in DOMAIN deliveries[e] :
        LET d == deliveries[e][g]
        IN  /\ Deliverable(e)
            /\ GenerationAccepted(e, g)
            /\ AttemptsAccepted(d)
            /\ \A n \in 1 .. Len(d.attempts) - 1 :
                  d.attempts[n] \in {"RETRYABLE_FAILURE", "OUTCOME_UNKNOWN"}
            /\ d.status \in Active => g = Len(deliveries[e])

\* ACKNOWLEDGED means that the website really acknowledged this very delivery: no
\* lost answer, crash or lease recovery is taken for one.
AcknowledgedWasReceived ==
    \A e \in Events : \A g \in DOMAIN deliveries[e] :
        deliveries[e][g].status = "ACKNOWLEDGED" => <<e, g>> \in acked

\* What becomes of docs/epay-integration.md:59, "once the original confirmation is
\* revoked, its pending notifications end", while a request is being made: after
\* a reversal no EasyPay request leaves for the confirmation any more, not of a
\* delivery claimed before or after, not as a retry, after a crash or as an
\* administrator's replay, except the one that was past both checks and
\* connecting at the moment of the reversal (transport.ts:256).
OnlyTheConnectingStillLeave ==
    [][\A r \in network' \ network :
          FormatOf[r[1]] = "EPAY" /\ r[1] \in revoked => r \in exposed]_vars

Concluded(e) == deliveries[e] # <<>> /\ Last(deliveries[e]).status \in Terminal

\* Once the process stays up and the website's notifications stay enabled, every
\* deliverable event is concluded (acknowledged, or given up as a dead letter)
\* whatever the receivers do, whatever other websites' receivers do, and after
\* any crash, stop, pause or change of maximum_attempts before.
EveryEventConcluded ==
    \A e \in Events :
        <>[](process = "up" /\ SiteOf[e] \in enabled)
            => (e \in posted /\ Deliverable(e) ~> Concluded(e))
=============================================================================
