---------------------------- MODULE WebhookProofs ----------------------------
(***************************************************************************)
(* Theorems about WebhookDelivery: what the tables of deliveries hold      *)
(* whatever the process, the network and the receivers do, and that the    *)
(* lease of the attempt in hand stands.                                    *)
(*                                                                         *)
(* The properties are not inductive one by one.  The inductive invariant   *)
(* WInv says of every row what the startup check demands (RowSound), that  *)
(* only the latest generation of an event is unfinished, and that          *)
(* acknowledgements are real (RowsSound); and it ties the attempt in hand, *)
(* which lives in the memory of the process, to its row (JobHeld).         *)
(* ExposedHeld adds what a connecting request of a revoked confirmation    *)
(* is known for.                                                           *)
(***************************************************************************)
EXTENDS WebhookDelivery, SequenceTheorems, TLAPS

-----------------------------------------------------------------------------
(* One delivery.                                                           *)

RowSound(d) ==
    /\ d \in Delivery
    /\ AttemptsAccepted(d)
    /\ \A n \in 1 .. Len(d.attempts) - 1 :
          d.attempts[n] \in {"RETRYABLE_FAILURE", "OUTCOME_UNKNOWN"}

(* A row becomes another one of the same delivery: still sound, and not    *)
(* unfinished again.                                                       *)
RowMoves(d, new) ==
    /\ RowSound(new)
    /\ new.key = d.key
    /\ new.status \in Active => d.status \in Active

(* Setting the outcome of the last attempt changes nothing else.           *)
LEMMA LastAttempt ==
    ASSUME NEW d \in Delivery, d.attempts # <<>>, NEW outcome \in Outcomes
    PROVE  /\ LastAttemptIs(d, outcome) \in Seq(Outcomes)
           /\ Len(LastAttemptIs(d, outcome)) = Len(d.attempts)
           /\ Last(LastAttemptIs(d, outcome)) = outcome
           /\ \A n \in 1 .. Len(d.attempts) - 1 : LastAttemptIs(d, outcome)[n] = d.attempts[n]
<1> DEFINE a == d.attempts
<1>1. a \in Seq(Outcomes) /\ a # <<>>
  BY DEF Delivery
<1> HIDE DEF a
<1>2. Len(a) \in Nat /\ Len(a) >= 1
  BY <1>1, EmptySeq, LenProperties
<1>3. /\ [a EXCEPT ![Len(a)] = outcome] \in Seq(Outcomes)
      /\ Len([a EXCEPT ![Len(a)] = outcome]) = Len(a)
      /\ \A j \in 1 .. Len(a) :
            [a EXCEPT ![Len(a)] = outcome][j] = IF j = Len(a) THEN outcome ELSE a[j]
  BY <1>1, <1>2, ExceptSeq
<1>4. QED
  BY <1>2, <1>3 DEF LastAttemptIs, Last, a

(* A sound row in hand whose attempt ends is sound again, if the outcome   *)
(* explains the new status.                                                *)
LEMMA ConcludedSound ==
    ASSUME NEW d, RowSound(d), d.status = "LEASED", NEW outcome \in Results,
           NEW new \in Delivery, new.key = d.key, new.attempts = LastAttemptIs(d, outcome),
           \/ new.status = "RETRY_WAIT" /\ outcome \in {"RETRYABLE_FAILURE", "OUTCOME_UNKNOWN"}
           \/ new.status = "ACKNOWLEDGED" /\ outcome = "ACKNOWLEDGED"
           \/ new.status = "DEAD_LETTER" /\ outcome # "ACKNOWLEDGED"
    PROVE  RowMoves(d, new)
<1>1. d \in Delivery /\ d.attempts # <<>> /\ outcome \in Outcomes
  BY DEF RowSound, AttemptsAccepted, Outcomes
<1>2. /\ new.attempts \in Seq(Outcomes)
      /\ Len(new.attempts) = Len(d.attempts) /\ Last(new.attempts) = outcome
      /\ \A n \in 1 .. Len(d.attempts) - 1 : new.attempts[n] = d.attempts[n]
  BY <1>1, LastAttempt
<1>3. Len(d.attempts) \in Nat \ {0}
  BY <1>1, EmptySeq DEF Delivery
<1>4. \A n \in 1 .. Len(new.attempts) - 1 :
         new.attempts[n] \in {"RETRYABLE_FAILURE", "OUTCOME_UNKNOWN"}
  BY <1>2 DEF RowSound
<1>5. \A n \in 1 .. Len(new.attempts) : new.attempts[n] # "STARTED"
  <2> SUFFICES ASSUME NEW n \in 1 .. Len(new.attempts)
               PROVE  new.attempts[n] # "STARTED"
    OBVIOUS
  <2>1. CASE n = Len(new.attempts)
    BY <2>1, <1>2 DEF Last, Results
  <2>2. CASE n # Len(new.attempts)
    BY <2>2, <1>2, <1>3, <1>4
  <2>3. QED
    BY <2>1, <2>2
<1>6. new.attempts # <<>>
  BY <1>2, <1>3, EmptySeq
<1>7. AttemptsAccepted(new)
  BY <1>2, <1>5, <1>6 DEF AttemptsAccepted, Results
<1>8. QED
  BY <1>4, <1>7 DEF RowMoves, RowSound, Active

LEMMA RecoveredMoves ==
    ASSUME NEW d, RowSound(d)
    PROVE  RowMoves(d, Recovered(d))
<1>1. CASE d.status = "LEASED" /\ d.expired
  <2>1. PICK new : new = Recovered(d)
    OBVIOUS
  <2>2. d \in Delivery /\ d.attempts # <<>>
    BY <1>1 DEF RowSound, AttemptsAccepted
  <2>3. LastAttemptIs(d, "OUTCOME_UNKNOWN") \in Seq(Outcomes)
    BY <2>2, LastAttempt DEF Outcomes, Results
  <2>4. /\ new \in Delivery /\ new.key = d.key
        /\ new.attempts = LastAttemptIs(d, "OUTCOME_UNKNOWN") /\ new.status = "RETRY_WAIT"
    BY <2>1, <2>2, <2>3, <1>1 DEF Recovered, Delivery, Active
  <2>5. "OUTCOME_UNKNOWN" \in Results
    BY DEF Results
  <2>6. QED
    BY <1>1, <2>1, <2>4, <2>5, ConcludedSound
<1>2. CASE ~(d.status = "LEASED" /\ d.expired)
  BY <1>2 DEF Recovered, RowMoves
<1>3. QED
  BY <1>1, <1>2

LEMMA AfterAttemptMoves ==
    ASSUME NEW d, RowSound(d), d.status = "LEASED", NEW outcome \in Results, NEW maximum
    PROVE  /\ RowMoves(d, AfterAttempt(d, outcome, maximum))
           /\ AfterAttempt(d, outcome, maximum).status = "ACKNOWLEDGED" =>
                  outcome = "ACKNOWLEDGED"
<1>1. PICK new : new = AfterAttempt(d, outcome, maximum)
  OBVIOUS
<1>2. d \in Delivery /\ d.attempts # <<>> /\ outcome \in Outcomes
  BY DEF RowSound, AttemptsAccepted, Outcomes
<1>3. LastAttemptIs(d, outcome) \in Seq(Outcomes)
  BY <1>2, LastAttempt
<1>4. /\ new.key = d.key /\ new.attempts = LastAttemptIs(d, outcome)
      /\ \/ new.status = "RETRY_WAIT" /\ outcome \in {"RETRYABLE_FAILURE", "OUTCOME_UNKNOWN"}
         \/ new.status = "ACKNOWLEDGED" /\ outcome = "ACKNOWLEDGED"
         \/ new.status = "DEAD_LETTER" /\ outcome # "ACKNOWLEDGED"
  BY <1>1, <1>2 DEF AfterAttempt, Delivery
<1>5. new \in Delivery
  BY <1>1, <1>2, <1>3 DEF AfterAttempt, Delivery, Active, Terminal
<1>6. QED
  BY <1>1, <1>4, <1>5, ConcludedSound

LEMMA DeadLetterMoves ==
    ASSUME NEW d, RowSound(d), NEW s, Exhausted(d, s)
    PROVE  /\ RowMoves(d, [d EXCEPT !.status = "DEAD_LETTER"])
           /\ [d EXCEPT !.status = "DEAD_LETTER"].status # "ACKNOWLEDGED"
<1>1. PICK new : new = [d EXCEPT !.status = "DEAD_LETTER"]
  OBVIOUS
<1>2. d \in Delivery
  BY DEF RowSound
<1>3. /\ new \in Delivery /\ new.key = d.key /\ new.attempts = d.attempts
      /\ new.status = "DEAD_LETTER"
  BY <1>1, <1>2 DEF Delivery, Terminal
<1>4. d.status # "PENDING"
  BY <1>2, EmptySeq DEF Exhausted, RowSound, AttemptsAccepted
<1>5. d.status = "RETRY_WAIT"
  BY <1>4 DEF Exhausted
<1>6. AttemptsAccepted(new)
  BY <1>3, <1>5 DEF RowSound, AttemptsAccepted
<1>7. RowSound(new)
  BY <1>3, <1>6 DEF RowSound
<1>8. QED
  BY <1>1, <1>3, <1>7 DEF RowMoves, Active

(* A claim adds an attempt that is under way.                              *)
ClaimedRow(d) == [d EXCEPT !.status = "LEASED", !.due = FALSE, !.expired = FALSE,
                           !.attempts = Append(@, "STARTED")]

LEMMA ClaimedMoves ==
    ASSUME NEW d, RowSound(d), d.status \in {"PENDING", "RETRY_WAIT"}
    PROVE  /\ RowMoves(d, ClaimedRow(d))
           /\ ClaimedRow(d).status = "LEASED"
           /\ Len(ClaimedRow(d).attempts) = Len(d.attempts) + 1
<1>1. PICK new : new = ClaimedRow(d)
  OBVIOUS
<1> DEFINE a == d.attempts
<1>2. d \in Delivery /\ a \in Seq(Outcomes)
  BY DEF RowSound, Delivery
<1>3. "STARTED" \in Outcomes
  BY DEF Outcomes
<1>4. /\ Append(a, "STARTED") \in Seq(Outcomes)
      /\ Append(a, "STARTED") # <<>>
      /\ Len(Append(a, "STARTED")) = Len(a) + 1
      /\ \A n \in 1 .. Len(a) : Append(a, "STARTED")[n] = a[n]
      /\ Append(a, "STARTED")[Len(a) + 1] = "STARTED"
  BY <1>2, <1>3, AppendProperties
<1>5. /\ new \in Delivery /\ new.key = d.key /\ new.status = "LEASED"
      /\ new.attempts = Append(a, "STARTED")
  BY <1>1, <1>2, <1>4 DEF ClaimedRow, Delivery, Active
<1>6. Len(a) \in Nat
  BY <1>2, LenProperties
<1>7. \A n \in 1 .. Len(a) : a[n] \in {"RETRYABLE_FAILURE", "OUTCOME_UNKNOWN"}
  <2>1. CASE d.status = "PENDING"
    BY <2>1, EmptySeq DEF RowSound, AttemptsAccepted
  <2>2. CASE d.status = "RETRY_WAIT"
    <3>1. a[Len(a)] \in {"RETRYABLE_FAILURE", "OUTCOME_UNKNOWN"}
      BY <2>2 DEF RowSound, AttemptsAccepted, Last
    <3>2. QED
      BY <3>1, <1>6 DEF RowSound
  <2>3. QED
    BY <2>1, <2>2
<1>8. \A n \in 1 .. Len(new.attempts) - 1 :
         new.attempts[n] \in {"RETRYABLE_FAILURE", "OUTCOME_UNKNOWN"}
  BY <1>4, <1>5, <1>6, <1>7
<1>9. \A n \in 1 .. Len(new.attempts) :
         new.attempts[n] = "STARTED" => n = Len(new.attempts)
  BY <1>4, <1>5, <1>6, <1>7
<1>10. Last(new.attempts) = "STARTED"
  BY <1>4, <1>5, <1>6 DEF Last
<1>11. AttemptsAccepted(new)
  BY <1>4, <1>5, <1>9, <1>10 DEF AttemptsAccepted
<1>12. QED
  BY <1>1, <1>4, <1>5, <1>8, <1>11 DEF RowMoves, RowSound, Active

LEMMA NewSound ==
    ASSUME NEW key \in Events \cup Replays
    PROVE  RowSound(NewDelivery(key))
<1>1. PICK new : new = NewDelivery(key)
  OBVIOUS
<1>2. <<>> \in Seq(Outcomes) /\ Len(<<>>) = 0
  BY EmptySeq
<1>3. new.status = "PENDING" /\ new.attempts = <<>>
  BY <1>1 DEF NewDelivery
<1>4. new \in Delivery
  BY <1>1, <1>2 DEF NewDelivery, Delivery, Active
<1>5. AttemptsAccepted(new)
  BY <1>2, <1>3 DEF AttemptsAccepted
<1>6. QED
  BY <1>1, <1>2, <1>3, <1>4, <1>5 DEF RowSound

LEMMA TimePassesMoves ==
    ASSUME NEW d, RowSound(d)
    PROVE  /\ RowMoves(d, [d EXCEPT !.due = TRUE])
           /\ RowMoves(d, [d EXCEPT !.expired = TRUE])
<1>1. d \in Delivery
  BY DEF RowSound
<1>2. ASSUME NEW new \in {[d EXCEPT !.due = TRUE], [d EXCEPT !.expired = TRUE]}
      PROVE  RowMoves(d, new)
  <2>1. /\ new \in Delivery /\ new.key = d.key
        /\ new.status = d.status /\ new.attempts = d.attempts
    BY <1>1 DEF Delivery
  <2>2. QED
    BY <2>1 DEF RowMoves, RowSound, AttemptsAccepted
<1>3. QED
  BY <1>2

-----------------------------------------------------------------------------
(* The table.                                                              *)

(* Every row is sound, the first generation of an event is the program's,  *)
(* the others an administrator's, the latest alone may be unfinished, and  *)
(* an acknowledgement was received.                                        *)
RowsSound(ds) ==
    /\ ds \in [Events -> Seq(Delivery)]
    /\ \A e \in Events : \A g \in DOMAIN ds[e] :
          /\ Deliverable(e)
          /\ RowSound(ds[e][g])
          /\ IF g = 1 THEN ds[e][g].key = e ELSE ds[e][g].key \in Replays
          /\ ds[e][g].status \in Active => g = Len(ds[e])
          /\ ds[e][g].status = "ACKNOWLEDGED" => <<e, g>> \in acked

(* The rows of one event change one by one.                                *)
EventMoves(ds, new, e) ==
    /\ new[e] \in Seq(Delivery) /\ Len(new[e]) = Len(ds[e])
    /\ \A g \in 1 .. Len(ds[e]) :
          /\ RowMoves(ds[e][g], new[e][g])
          /\ new[e][g].status = "ACKNOWLEDGED" =>
                 ds[e][g].status = "ACKNOWLEDGED" \/ <<e, g>> \in acked

LEMMA RowsMove ==
    ASSUME NEW ds, RowsSound(ds), NEW new, new \in [Events -> Seq(Delivery)],
           \A e \in Events : EventMoves(ds, new, e)
    PROVE  RowsSound(new)
<1> SUFFICES ASSUME NEW e \in Events, NEW g \in DOMAIN new[e]
             PROVE  /\ Deliverable(e)
                    /\ RowSound(new[e][g])
                    /\ IF g = 1 THEN new[e][g].key = e ELSE new[e][g].key \in Replays
                    /\ new[e][g].status \in Active => g = Len(new[e])
                    /\ new[e][g].status = "ACKNOWLEDGED" => <<e, g>> \in acked
  BY DEF RowsSound
<1>1. ds[e] \in Seq(Delivery) /\ new[e] \in Seq(Delivery) /\ Len(new[e]) = Len(ds[e])
  BY DEF RowsSound, EventMoves
<1>2. g \in 1 .. Len(ds[e]) /\ g \in DOMAIN ds[e]
  BY <1>1, LenProperties
<1>3. /\ RowMoves(ds[e][g], new[e][g])
      /\ new[e][g].status = "ACKNOWLEDGED" =>
             ds[e][g].status = "ACKNOWLEDGED" \/ <<e, g>> \in acked
  BY <1>2 DEF EventMoves
<1>4. QED
  BY <1>1, <1>2, <1>3 DEF RowsSound, RowMoves

LEMMA SameMoves ==
    ASSUME NEW d, RowSound(d)
    PROVE  RowMoves(d, d)
BY DEF RowMoves

LEMMA RecoveredRows ==
    ASSUME NEW ds, RowsSound(ds)
    PROVE  RowsSound(WithLeasesRecovered(ds))
<1> PICK new : new = WithLeasesRecovered(ds)
  OBVIOUS
<1>1. new = [e \in Events |-> [g \in DOMAIN ds[e] |-> Recovered(ds[e][g])]]
  BY DEF WithLeasesRecovered, EachDelivery
<1>2. ASSUME NEW e \in Events
      PROVE  EventMoves(ds, new, e)
  <2>1. ds[e] \in Seq(Delivery) /\ DOMAIN ds[e] = 1 .. Len(ds[e]) /\ Len(ds[e]) \in Nat
    BY LenProperties DEF RowsSound
  <2>2. new[e] = [g \in 1 .. Len(ds[e]) |-> Recovered(ds[e][g])]
    BY <1>1, <2>1
  <2>3. ASSUME NEW g \in 1 .. Len(ds[e])
        PROVE  /\ RowMoves(ds[e][g], Recovered(ds[e][g]))
               /\ Recovered(ds[e][g]) \in Delivery
               /\ Recovered(ds[e][g]).status = "ACKNOWLEDGED" =>
                      ds[e][g].status = "ACKNOWLEDGED"
    <3>1. RowSound(ds[e][g])
      BY <2>1 DEF RowsSound
    <3>2. RowMoves(ds[e][g], Recovered(ds[e][g]))
      BY <3>1, RecoveredMoves
    <3>3. ds[e][g] \in Delivery
      BY <3>1 DEF RowSound
    <3>4. Recovered(ds[e][g]).status = "ACKNOWLEDGED" => ds[e][g].status = "ACKNOWLEDGED"
      BY <3>3 DEF Recovered, Delivery
    <3>5. QED
      BY <3>2, <3>4 DEF RowMoves, RowSound
  <2>4. new[e] \in Seq(Delivery) /\ Len(new[e]) = Len(ds[e])
    BY <2>1, <2>2, <2>3
  <2>5. QED
    BY <2>2, <2>3, <2>4 DEF EventMoves
<1>3. new \in [Events -> Seq(Delivery)]
  BY <1>1, <1>2 DEF EventMoves
<1>4. QED
  BY <1>2, <1>3, RowsMove

LEMMA DeadRows ==
    ASSUME NEW ds, RowsSound(ds), NEW s
    PROVE  RowsSound(WithExhaustedDead(ds, s))
<1> DEFINE Ended(e, d) == IF SiteOf[e] = s /\ Exhausted(d, s)
                          THEN [d EXCEPT !.status = "DEAD_LETTER"] ELSE d
<1> PICK new : new = WithExhaustedDead(ds, s)
  OBVIOUS
<1>1. new = [e \in Events |-> [g \in DOMAIN ds[e] |-> Ended(e, ds[e][g])]]
  BY DEF WithExhaustedDead, EachDelivery
<1>2. ASSUME NEW e \in Events
      PROVE  EventMoves(ds, new, e)
  <2>1. ds[e] \in Seq(Delivery) /\ DOMAIN ds[e] = 1 .. Len(ds[e]) /\ Len(ds[e]) \in Nat
    BY LenProperties DEF RowsSound
  <2>2. new[e] = [g \in 1 .. Len(ds[e]) |-> Ended(e, ds[e][g])]
    BY <1>1, <2>1
  <2>3. ASSUME NEW g \in 1 .. Len(ds[e])
        PROVE  /\ RowMoves(ds[e][g], Ended(e, ds[e][g]))
               /\ Ended(e, ds[e][g]) \in Delivery
               /\ Ended(e, ds[e][g]).status = "ACKNOWLEDGED" =>
                      ds[e][g].status = "ACKNOWLEDGED"
    <3>1. RowSound(ds[e][g])
      BY <2>1 DEF RowsSound
    <3>2. CASE SiteOf[e] = s /\ Exhausted(ds[e][g], s)
      BY <3>1, <3>2, DeadLetterMoves DEF RowMoves, RowSound
    <3>3. CASE ~(SiteOf[e] = s /\ Exhausted(ds[e][g], s))
      BY <3>1, <3>3, SameMoves DEF RowSound
    <3>4. QED
      BY <3>2, <3>3
  <2> HIDE DEF Ended
  <2>4. new[e] \in Seq(Delivery) /\ Len(new[e]) = Len(ds[e])
    BY <2>1, <2>2, <2>3
  <2>5. QED
    BY <2>2, <2>3, <2>4 DEF EventMoves
<1> HIDE DEF Ended
<1>3. new \in [Events -> Seq(Delivery)]
  BY <1>1, <1>2 DEF EventMoves
<1>4. QED
  BY <1>2, <1>3, RowsMove

(* A new row begins, after rows that are finished.                         *)
RowBegins(ds, new, e) ==
    /\ Deliverable(e)
    /\ \A g \in 1 .. Len(ds[e]) : ds[e][g].status \notin Active
    /\ \E key \in Events \cup Replays :
          /\ new[e] = Append(ds[e], NewDelivery(key))
          /\ IF ds[e] = <<>> THEN key = e ELSE key \in Replays

LEMMA RowsBegin ==
    ASSUME NEW ds, RowsSound(ds), NEW new, DOMAIN new = Events, new = [e \in Events |-> new[e]],
           \A e \in Events : new[e] = ds[e] \/ RowBegins(ds, new, e)
    PROVE  RowsSound(new)
<1>1. ASSUME NEW e \in Events
      PROVE  /\ new[e] \in Seq(Delivery)
             /\ \A g \in DOMAIN new[e] :
                   /\ Deliverable(e)
                   /\ RowSound(new[e][g])
                   /\ IF g = 1 THEN new[e][g].key = e ELSE new[e][g].key \in Replays
                   /\ new[e][g].status \in Active => g = Len(new[e])
                   /\ new[e][g].status = "ACKNOWLEDGED" => <<e, g>> \in acked
  <2>1. CASE new[e] = ds[e]
    BY <2>1 DEF RowsSound
  <2>2. CASE RowBegins(ds, new, e)
    <3>1. PICK key \in Events \cup Replays :
             /\ new[e] = Append(ds[e], NewDelivery(key))
             /\ IF ds[e] = <<>> THEN key = e ELSE key \in Replays
      BY <2>2 DEF RowBegins
    <3>2. ds[e] \in Seq(Delivery) /\ Len(ds[e]) \in Nat /\ DOMAIN ds[e] = 1 .. Len(ds[e])
      BY LenProperties DEF RowsSound
    <3>3. RowSound(NewDelivery(key)) /\ NewDelivery(key) \in Delivery
      BY NewSound DEF RowSound
    <3>4. NewDelivery(key).key = key /\ NewDelivery(key).status = "PENDING"
      BY DEF NewDelivery
    <3> DEFINE row == NewDelivery(key)
    <3> HIDE DEF row
    <3>5. /\ new[e] \in Seq(Delivery) /\ Len(new[e]) = Len(ds[e]) + 1
          /\ \A g \in 1 .. Len(ds[e]) : new[e][g] = ds[e][g]
          /\ new[e][Len(ds[e]) + 1] = row
      BY <3>1, <3>2, <3>3, AppendProperties DEF row
    <3>6. DOMAIN new[e] = 1 .. Len(ds[e]) + 1
      BY <3>2, <3>5, LenProperties
    <3>7. ds[e] # <<>> => Len(ds[e]) # 0
      BY <3>2, EmptySeq
    <3>8. ASSUME NEW g \in DOMAIN new[e]
          PROVE  /\ Deliverable(e)
                 /\ RowSound(new[e][g])
                 /\ IF g = 1 THEN new[e][g].key = e ELSE new[e][g].key \in Replays
                 /\ new[e][g].status \in Active => g = Len(new[e])
                 /\ new[e][g].status = "ACKNOWLEDGED" => <<e, g>> \in acked
      <4>1. CASE g \in 1 .. Len(ds[e])
        BY <2>2, <3>2, <3>5, <4>1 DEF RowsSound, RowBegins
      <4>2. CASE g = Len(ds[e]) + 1
        <5>1. new[e][g].key = key /\ new[e][g].status = "PENDING" /\ RowSound(new[e][g])
          BY <3>3, <3>4, <3>5, <4>2 DEF row
        <5>2. IF g = 1 THEN key = e ELSE key \in Replays
          BY <3>1, <3>2, <3>7, <4>2, EmptySeq
        <5>3. QED
          BY <2>2, <3>5, <4>2, <5>1, <5>2 DEF RowBegins
      <4>3. QED
        BY <3>2, <3>6, <4>1, <4>2
    <3>9. QED
      BY <3>5, <3>8
  <2>3. QED
    BY <2>1, <2>2
<1>2. QED
  BY <1>1 DEF RowsSound

LEMMA MaterializedRows ==
    ASSUME RowsSound(deliveries), NEW s, NEW b \in Batches(s)
    PROVE  RowsSound(WithMaterialized(b, deliveries))
<1> PICK new : new = WithMaterialized(b, deliveries)
  OBVIOUS
<1>1. new = [e \in Events |-> IF e \in b THEN <<NewDelivery(e)>> ELSE deliveries[e]]
  BY DEF WithMaterialized
<1>2. b \subseteq Unmaterialized(s)
  BY DEF Batches
<1>3. ASSUME NEW e \in Events
      PROVE  new[e] = deliveries[e] \/ RowBegins(deliveries, new, e)
  <2>1. CASE e \in b
    <3>1. Deliverable(e) /\ deliveries[e] = <<>>
      BY <1>2, <2>1 DEF Unmaterialized
    <3>2. new[e] = Append(deliveries[e], NewDelivery(e))
      BY <1>1, <2>1, <3>1
    <3>3. QED
      BY <3>1, <3>2, EmptySeq DEF RowBegins
  <2>2. QED
    BY <1>1, <2>1
<1>4. DOMAIN new = Events /\ new = [e \in Events |-> new[e]]
  BY <1>1
<1>5. QED
  BY <1>3, <1>4, RowsBegin

(* One row changes.                                                        *)
LEMMA RowMoved ==
    ASSUME NEW ds, RowsSound(ds), NEW e \in Events, NEW g \in DOMAIN ds[e], NEW row,
           RowMoves(ds[e][g], row),
           row.status = "ACKNOWLEDGED" =>
                 ds[e][g].status = "ACKNOWLEDGED" \/ <<e, g>> \in acked
    PROVE  /\ RowsSound([ds EXCEPT ![e][g] = row])
           /\ [ds EXCEPT ![e][g] = row][e][g] = row
           /\ Len([ds EXCEPT ![e][g] = row][e]) = Len(ds[e])
           /\ \A f \in Events : \A h : <<f, h>> # <<e, g>> =>
                 [ds EXCEPT ![e][g] = row][f][h] = ds[f][h]
           /\ \A f \in Events : Len([ds EXCEPT ![e][g] = row][f]) = Len(ds[f])
<1> PICK new : new = [ds EXCEPT ![e][g] = row]
  OBVIOUS
<1>1. row \in Delivery
  BY DEF RowMoves, RowSound
<1>2. ds[e] \in Seq(Delivery) /\ g \in 1 .. Len(ds[e])
  BY LenProperties DEF RowsSound
<1>3. new[e] = [ds[e] EXCEPT ![g] = row] /\ \A f \in Events \ {e} : new[f] = ds[f]
  BY DEF RowsSound
<1>4. /\ new[e] \in Seq(Delivery) /\ Len(new[e]) = Len(ds[e])
      /\ \A h \in 1 .. Len(ds[e]) : new[e][h] = IF h = g THEN row ELSE ds[e][h]
  BY <1>1, <1>2, <1>3, ExceptSeq
<1>5. new \in [Events -> Seq(Delivery)]
  BY <1>3, <1>4 DEF RowsSound
<1>6. ASSUME NEW f \in Events
      PROVE  EventMoves(ds, new, f)
  <2>1. ASSUME NEW h \in 1 .. Len(ds[f]), <<f, h>> # <<e, g>>
        PROVE  new[f][h] = ds[f][h] /\ RowSound(ds[f][h])
    <3>1. ds[f] \in Seq(Delivery) /\ h \in DOMAIN ds[f]
      BY LenProperties DEF RowsSound
    <3>2. QED
      BY <1>3, <1>4, <2>1, <3>1 DEF RowsSound
  <2>2. new[f] \in Seq(Delivery) /\ Len(new[f]) = Len(ds[f])
    BY <1>3, <1>4 DEF RowsSound
  <2>3. ASSUME NEW h \in 1 .. Len(ds[f])
        PROVE  /\ RowMoves(ds[f][h], new[f][h])
               /\ new[f][h].status = "ACKNOWLEDGED" =>
                      ds[f][h].status = "ACKNOWLEDGED" \/ <<f, h>> \in acked
    <3>1. CASE f = e /\ h = g
      BY <3>1, <1>4
    <3>2. CASE ~(f = e /\ h = g)
      BY <3>2, <2>1, SameMoves
    <3>3. QED
      BY <3>1, <3>2
  <2>4. QED
    BY <2>2, <2>3 DEF EventMoves
<1>7. RowsSound(new)
  BY <1>5, <1>6, RowsMove
<1>8. ASSUME NEW f \in Events, NEW h, <<f, h>> # <<e, g>>
      PROVE  new[f][h] = ds[f][h]
  BY <1>3, <1>8
<1>9. QED
  BY <1>2, <1>3, <1>4, <1>7, <1>8

-----------------------------------------------------------------------------
(* The attempt in hand.                                                    *)

JobTyped ==
    /\ job \in [event : Events, generation : Nat, number : Nat, maximum : {job.maximum},
                stage : Stages, reply : Replies]

(* The row of the attempt in hand stays leased under its number, and an    *)
(* answer the process has in memory was given.                             *)
JobHeld(ds) ==
    /\ JobTyped
    /\ ds[job.event] # <<>>
    /\ job.generation = Len(ds[job.event])
    /\ ds[job.event][job.generation].status = "LEASED"
    /\ job.number = Len(ds[job.event][job.generation].attempts)
    /\ job.reply = "ack" => <<job.event, job.generation>> \in acked

PhaseHeld ==
    /\ phase \in {"idle", "next", "busy"}
    /\ process = "down" => phase = "idle"
    /\ phase = "busy" => JobHeld(deliveries)
    /\ phase # "busy" => job = NoJob

WInv == RowsSound(deliveries) /\ PhaseHeld

LEMMA JobSame ==
    ASSUME PhaseHeld, UNCHANGED <<deliveries, phase, job, acked>>,
           process' = "down" => phase' = "idle"
    PROVE  PhaseHeld'
BY DEF PhaseHeld, JobHeld, JobTyped

LEMMA InitW == Init => WInv
<1> SUFFICES ASSUME Init PROVE WInv
  OBVIOUS
<1>1. RowsSound(deliveries)
  BY EmptySeq DEF Init, RowsSound
<1>2. PhaseHeld
  BY DEF Init, PhaseHeld
<1>3. QED
  BY <1>1, <1>2 DEF WInv

-----------------------------------------------------------------------------
(* Every action keeps the invariant.                                       *)

LEMMA TableKept ==
    ASSUME NEW new, RowsSound(new), deliveries' = new, acked \subseteq acked'
    PROVE  RowsSound(deliveries)'
BY DEF RowsSound

LEMMA TableUnchanged ==
    ASSUME WInv, UNCHANGED <<deliveries, phase, job, acked>>, process' = "down" => phase = "idle"
    PROVE  WInv'
<1>1. RowsSound(deliveries)'
  BY TableKept DEF WInv
<1>2. PhaseHeld'
  BY JobSame DEF WInv
<1>3. QED
  BY <1>1, <1>2 DEF WInv

(* A run that holds no attempt starts, goes on or ends.                    *)
LEMMA RunsKeep ==
    ASSUME WInv, RunStarts \/ ProcessNothing \/ Crash \/ Start
    PROVE  WInv'
<1>1. UNCHANGED <<deliveries, acked>>
  BY DEF RunStarts, ProcessNothing, Crash, Start, tables, outside
<1>2. /\ phase' \in {"idle", "next"} /\ job' = NoJob
      /\ process' = "down" => phase' = "idle"
  BY DEF RunStarts, ProcessNothing, Crash, Start, WInv, PhaseHeld
<1>3. RowsSound(deliveries)'
  BY <1>1, TableKept DEF WInv
<1>4. PhaseHeld'
  BY <1>2 DEF PhaseHeld
<1>5. QED
  BY <1>3, <1>4 DEF WInv

(* What processOne does to the table as it finds it after its recoveries.  *)
Claims(ds, s) ==
    \/ deliveries' = ds /\ phase' = "idle" /\ UNCHANGED job
    \/ \E c \in Claimable(ds, s) :
         /\ deliveries' = WithClaimed(ds, c[1], c[2])
         /\ job' = [event |-> c[1], generation |-> c[2],
                    number |-> Len(ds[c[1]][c[2]].attempts) + 1,
                    maximum |-> limit[s], reply |-> "none",
                    stage |-> IF MaySend(c[1]) THEN "resolving" ELSE "refused"]
         /\ phase' = "busy"

LEMMA ClaimsKeep ==
    ASSUME WInv, ProcessOne
    PROVE  WInv'
<1>1. /\ phase = "next" /\ job = NoJob /\ process # "down"
      /\ UNCHANGED <<process, acked>>
  BY DEF ProcessOne, WInv, PhaseHeld, outside
<1>2. PICK s : \E b \in Batches(s) :
         Claims(WithExhaustedDead(WithLeasesRecovered(WithMaterialized(b, deliveries)), s), s)
  BY DEF ProcessOne, Claims
<1>3. PICK b \in Batches(s) :
         Claims(WithExhaustedDead(WithLeasesRecovered(WithMaterialized(b, deliveries)), s), s)
  BY <1>2
<1>4. PICK ds : ds = WithExhaustedDead(WithLeasesRecovered(WithMaterialized(b, deliveries)), s)
  OBVIOUS
<1>5. RowsSound(ds)
  <2>1. RowsSound(WithMaterialized(b, deliveries))
    BY MaterializedRows DEF WInv
  <2>2. RowsSound(WithLeasesRecovered(WithMaterialized(b, deliveries)))
    BY <2>1, RecoveredRows
  <2>3. QED
    BY <1>4, <2>2, DeadRows
<1>6. CASE deliveries' = ds /\ phase' = "idle" /\ UNCHANGED job
  <2>1. RowsSound(deliveries)'
    BY <1>1, <1>5, <1>6, TableKept
  <2>2. PhaseHeld'
    BY <1>1, <1>6 DEF PhaseHeld
  <2>3. QED
    BY <2>1, <2>2 DEF WInv
<1>7. ASSUME NEW c \in Claimable(ds, s), deliveries' = WithClaimed(ds, c[1], c[2]),
             job' = [event |-> c[1], generation |-> c[2],
                     number |-> Len(ds[c[1]][c[2]].attempts) + 1,
                     maximum |-> limit[s], reply |-> "none",
                     stage |-> IF MaySend(c[1]) THEN "resolving" ELSE "refused"],
             phase' = "busy"
      PROVE  WInv'
  <2>1. PICK e \in Events : \E g \in DOMAIN ds[e] :
           c = <<e, g>> /\ ds[e][g].status \in {"PENDING", "RETRY_WAIT"}
    BY <1>7 DEF Claimable
  <2>2. PICK g \in DOMAIN ds[e] :
           c = <<e, g>> /\ ds[e][g].status \in {"PENDING", "RETRY_WAIT"}
    BY <2>1
  <2>3. PICK row : row = ClaimedRow(ds[e][g])
    OBVIOUS
  <2>4. RowSound(ds[e][g])
    BY <1>5, <2>2 DEF RowsSound
  <2>5. /\ RowMoves(ds[e][g], row) /\ row.status = "LEASED"
        /\ Len(row.attempts) = Len(ds[e][g].attempts) + 1
    BY <2>2, <2>3, <2>4, ClaimedMoves
  <2>6. ds \in [Events -> Seq(Delivery)] /\ ds[e][g] \in Delivery
    BY <1>5, <2>4 DEF RowsSound, RowSound
  <2>7. WithClaimed(ds, e, g) = [ds EXCEPT ![e][g] = row]
    BY <2>3, <2>6 DEF WithClaimed, ClaimedRow, Delivery
  <2>8. PICK new : new = [ds EXCEPT ![e][g] = row]
    OBVIOUS
  <2>9. RowsSound(new) /\ new[e][g] = row /\ Len(new[e]) = Len(ds[e])
    <3>1. row.status = "ACKNOWLEDGED" =>
             ds[e][g].status = "ACKNOWLEDGED" \/ <<e, g>> \in acked
      BY <2>5
    <3>2. RowMoves(ds[e][g], row)
      BY <2>5
    <3>3. /\ RowsSound([ds EXCEPT ![e][g] = row])
          /\ [ds EXCEPT ![e][g] = row][e][g] = row
          /\ Len([ds EXCEPT ![e][g] = row][e]) = Len(ds[e])
      BY <1>5, <3>1, <3>2, RowMoved
    <3>4. QED
      BY <2>8, <3>3
  <2>10. deliveries' = new
    BY <1>7, <2>2, <2>7, <2>8
  <2>11. g = Len(ds[e]) /\ g \in Nat \ {0}
    <3>1. ds[e] \in Seq(Delivery)
      BY <2>6
    <3>2. g \in Nat \ {0}
      BY <3>1, LenProperties
    <3>3. QED
      BY <1>5, <2>2, <3>2 DEF RowsSound, Active
  <2>12. RowsSound(deliveries)'
    BY <1>1, <2>9, <2>10, TableKept
  <2>13. /\ job'.event = e /\ job'.generation = g /\ job'.reply = "none"
         /\ job'.number = Len(row.attempts)
    BY <1>7, <2>2, <2>5
  <2>14. Len(row.attempts) \in Nat
    BY <2>5, LenProperties DEF RowMoves, RowSound, Delivery
  <2>15. JobTyped'
    BY <1>7, <2>11, <2>13, <2>14 DEF JobTyped, Replies, Stages
  <2>16. new[e] # <<>>
    BY <2>9, <2>11, EmptySeq
  <2>17. JobHeld(deliveries)'
    BY <2>5, <2>9, <2>10, <2>11, <2>13, <2>15, <2>16 DEF JobHeld
  <2>18. PhaseHeld'
    BY <1>1, <1>7, <2>17 DEF PhaseHeld
  <2>19. QED
    BY <2>12, <2>18 DEF WInv
<1>8. QED
  BY <1>3, <1>4, <1>6, <1>7 DEF Claims

(* The attempt in hand goes one stage further.                             *)
LEMMA StageKeeps ==
    ASSUME WInv, Connect \/ Send
    PROVE  WInv'
<1>1. /\ phase = "busy" /\ UNCHANGED <<deliveries, phase, process, acked>>
      /\ \E stage \in Stages : job' = [job EXCEPT !.stage = stage]
  BY DEF Connect, AddressResolved, Send, tables, outside, Stages
<1>2. RowsSound(deliveries)'
  BY <1>1, TableKept DEF WInv
<1>3. JobTyped /\ JobHeld(deliveries)
  BY <1>1 DEF WInv, PhaseHeld, JobHeld
<1>4. /\ job'.event = job.event /\ job'.generation = job.generation
      /\ job'.number = job.number /\ job'.reply = job.reply
  BY <1>1, <1>3 DEF JobTyped
<1>5. JobTyped'
  BY <1>1, <1>3 DEF JobTyped
<1>6. JobHeld(deliveries)'
  BY <1>1, <1>3, <1>4, <1>5 DEF JobHeld
<1>7. PhaseHeld'
  BY <1>1, <1>6 DEF WInv, PhaseHeld
<1>8. QED
  BY <1>2, <1>7 DEF WInv

(* The attempt in hand ends on the row it was claimed on.                  *)
LEMMA CompleteKeeps ==
    ASSUME WInv, Complete
    PROVE  WInv'
<1>1. /\ phase = "busy" /\ job' = NoJob /\ phase' \in {"idle", "next"}
      /\ UNCHANGED <<process, acked>>
  BY DEF Complete, Continue, outside
<1>2. PICK outcome \in PossibleOutcomes(job) :
         deliveries' = [deliveries EXCEPT ![job.event][job.generation] =
                          AfterAttempt(@, outcome, job.maximum)]
  BY DEF Complete
<1>3. JobTyped /\ JobHeld(deliveries) /\ RowsSound(deliveries)
  BY <1>1 DEF WInv, PhaseHeld, JobHeld
<1>4. outcome \in Results /\ (outcome = "ACKNOWLEDGED" => job.reply = "ack")
  <2>1. CASE job.stage # "sent"
    <3>1. job.stage \in Stages
      BY <1>3 DEF JobTyped
    <3>2. QED
      BY <1>2, <2>1, <3>1 DEF PossibleOutcomes, Results, Stages
  <2>2. CASE job.stage = "sent"
    <3>1. job.reply \in Replies
      BY <1>3 DEF JobTyped
    <3>2. CASE job.reply = "ack"
      BY <1>2, <2>2, <3>2 DEF PossibleOutcomes, Results
    <3>3. CASE job.reply = "retry"
      BY <1>2, <2>2, <3>3 DEF PossibleOutcomes, Results
    <3>4. CASE job.reply = "refuse"
      BY <1>2, <2>2, <3>4 DEF PossibleOutcomes, Results
    <3>5. CASE job.reply = "none"
      BY <1>2, <2>2, <3>5 DEF PossibleOutcomes, Results
    <3>6. QED
      BY <3>1, <3>2, <3>3, <3>4, <3>5 DEF Replies
  <2>3. QED
    BY <2>1, <2>2
<1>5. PICK e, g : e = job.event /\ g = job.generation
  OBVIOUS
<1>6. e \in Events /\ g \in DOMAIN deliveries[e] /\ deliveries[e][g].status = "LEASED"
  <2>1. e \in Events /\ g = Len(deliveries[e]) /\ deliveries[e] # <<>>
    BY <1>3, <1>5 DEF JobTyped, JobHeld
  <2>2. deliveries[e] \in Seq(Delivery)
    BY <1>3, <2>1 DEF RowsSound
  <2>3. Len(deliveries[e]) \in Nat \ {0} /\ DOMAIN deliveries[e] = 1 .. Len(deliveries[e])
    BY <2>1, <2>2, EmptySeq, LenProperties
  <2>4. QED
    BY <1>3, <1>5, <2>1, <2>3 DEF JobHeld
<1>7. PICK row : row = AfterAttempt(deliveries[e][g], outcome, job.maximum)
  OBVIOUS
<1>8. RowSound(deliveries[e][g])
  BY <1>3, <1>6 DEF RowsSound
<1>9. /\ RowMoves(deliveries[e][g], row)
      /\ row.status = "ACKNOWLEDGED" => <<e, g>> \in acked
  <2>1. /\ RowMoves(deliveries[e][g], row)
        /\ row.status = "ACKNOWLEDGED" => outcome = "ACKNOWLEDGED"
    BY <1>4, <1>6, <1>7, <1>8, AfterAttemptMoves
  <2>2. QED
    BY <2>1, <1>3, <1>4, <1>5 DEF JobHeld
<1>10. RowsSound([deliveries EXCEPT ![e][g] = row])
  BY <1>3, <1>6, <1>9, RowMoved
<1>11. deliveries' = [deliveries EXCEPT ![e][g] = row]
  BY <1>2, <1>3, <1>5, <1>6, <1>7 DEF RowsSound
<1>12. RowsSound(deliveries)'
  BY <1>1, <1>10, <1>11, TableKept
<1>13. PhaseHeld'
  BY <1>1 DEF WInv, PhaseHeld
<1>14. QED
  BY <1>12, <1>13 DEF WInv

(* A redelivery begins after a finished one, so not of the attempt in hand. *)
LEMMA ReplayKeeps ==
    ASSUME WInv, NEW e \in Events, NEW id \in Replays, Replay(e, id)
    PROVE  WInv'
<1>1. /\ deliveries[e] # <<>> /\ deliveries[e][Len(deliveries[e])].status \in Terminal
      /\ deliveries' = [deliveries EXCEPT ![e] = Append(@, NewDelivery(id))]
      /\ UNCHANGED <<phase, process, job, acked>>
  BY DEF Replay, CanReplay, Last, scheduler, outside
<1>2. PICK new : new = [deliveries EXCEPT ![e] = Append(@, NewDelivery(id))]
  OBVIOUS
<1>3. RowsSound(deliveries) /\ deliveries \in [Events -> Seq(Delivery)]
  BY DEF WInv, RowsSound
<1>4. /\ DOMAIN new = Events /\ new = [f \in Events |-> new[f]]
      /\ new[e] = Append(deliveries[e], NewDelivery(id))
      /\ \A f \in Events \ {e} : new[f] = deliveries[f]
  BY <1>2, <1>3
<1>5. Len(deliveries[e]) \in Nat \ {0} /\ DOMAIN deliveries[e] = 1 .. Len(deliveries[e])
  BY <1>1, <1>3, EmptySeq, LenProperties
<1>6. RowBegins(deliveries, new, e)
  <2>1. Deliverable(e)
    <3>1. Len(deliveries[e]) \in DOMAIN deliveries[e]
      BY <1>5
    <3>2. QED
      BY <1>3, <3>1 DEF RowsSound
  <2>2. ASSUME NEW g \in 1 .. Len(deliveries[e])
        PROVE  deliveries[e][g].status \notin Active
    BY <1>1, <1>3, <1>5 DEF RowsSound, Active, Terminal
  <2>3. QED
    BY <1>1, <1>4, <2>1, <2>2 DEF RowBegins
<1>7. RowsSound(new)
  BY <1>3, <1>4, <1>6, RowsBegin
<1>8. RowsSound(deliveries)'
  BY <1>1, <1>2, <1>7, TableKept
<1>9. ASSUME phase = "busy"
      PROVE  JobHeld(deliveries)'
  <2>1. JobTyped /\ JobHeld(deliveries)
    BY <1>9 DEF WInv, PhaseHeld, JobHeld
  <2>2. job.event \in Events /\ job.event # e
    BY <1>1, <2>1 DEF JobTyped, JobHeld, Terminal
  <2>3. deliveries'[job.event] = deliveries[job.event]
    BY <1>1, <1>2, <1>4, <2>2
  <2>4. QED
    BY <1>1, <2>1, <2>3 DEF JobHeld, JobTyped
<1>10. PhaseHeld'
  BY <1>1, <1>9 DEF WInv, PhaseHeld
<1>11. QED
  BY <1>8, <1>10 DEF WInv

(* Time passes for a row that waits or is leased.                          *)
LEMMA TimeKeeps ==
    ASSUME WInv, NEW e \in Events, NEW g \in Generations, BackoffEnds(e, g) \/ LeaseExpires(e, g)
    PROVE  WInv'
<1>1. g \in DOMAIN deliveries[e] /\ UNCHANGED <<phase, process, job, acked>>
  BY DEF BackoffEnds, LeaseExpires, scheduler, outside
<1>2. RowsSound(deliveries) /\ deliveries \in [Events -> Seq(Delivery)]
  BY DEF WInv, RowsSound
<1>3. RowSound(deliveries[e][g]) /\ deliveries[e][g] \in Delivery
  BY <1>1, <1>2 DEF RowsSound, RowSound
<1>4. PICK row \in {[deliveries[e][g] EXCEPT !.due = TRUE],
                     [deliveries[e][g] EXCEPT !.expired = TRUE]} :
         deliveries' = [deliveries EXCEPT ![e][g] = row]
  BY <1>1, <1>2, <1>3 DEF BackoffEnds, LeaseExpires
<1>5. /\ row.status = deliveries[e][g].status /\ row.attempts = deliveries[e][g].attempts
  BY <1>3 DEF Delivery
<1>6. RowMoves(deliveries[e][g], row)
  BY <1>3, TimePassesMoves
<1>7. PICK new : new = [deliveries EXCEPT ![e][g] = row]
  OBVIOUS
<1>8. /\ RowsSound(new) /\ new[e][g] = row
      /\ \A f \in Events : \A h : <<f, h>> # <<e, g>> => new[f][h] = deliveries[f][h]
      /\ \A f \in Events : Len(new[f]) = Len(deliveries[f])
  <2>1. row.status = "ACKNOWLEDGED" =>
           deliveries[e][g].status = "ACKNOWLEDGED" \/ <<e, g>> \in acked
    BY <1>5
  <2>2. /\ RowsSound([deliveries EXCEPT ![e][g] = row])
        /\ [deliveries EXCEPT ![e][g] = row][e][g] = row
    BY <1>1, <1>2, <1>6, <2>1, RowMoved
  <2>3. \A f \in Events : \A h : <<f, h>> # <<e, g>> =>
           [deliveries EXCEPT ![e][g] = row][f][h] = deliveries[f][h]
    BY <1>1, <1>2, <1>6, <2>1, RowMoved
  <2>4. \A f \in Events : Len([deliveries EXCEPT ![e][g] = row][f]) = Len(deliveries[f])
    BY <1>1, <1>2, <1>6, <2>1, RowMoved
  <2>5. QED
    BY <1>7, <2>2, <2>3, <2>4
<1>9. RowsSound(deliveries)'
  BY <1>1, <1>4, <1>7, <1>8, TableKept
<1>10. ASSUME phase = "busy"
       PROVE  JobHeld(deliveries)'
  <2>1. JobTyped /\ JobHeld(deliveries)
    BY <1>10 DEF WInv, PhaseHeld, JobHeld
  <2>2. job.event \in Events /\ Len(new[job.event]) = Len(deliveries[job.event])
    BY <1>8, <2>1 DEF JobTyped
  <2>3. new[job.event] # <<>>
    BY <1>2, <1>8, <2>1, <2>2, EmptySeq DEF JobHeld, RowsSound
  <2>4. /\ new[job.event][job.generation].status = deliveries[job.event][job.generation].status
        /\ new[job.event][job.generation].attempts
              = deliveries[job.event][job.generation].attempts
    <3>1. CASE <<job.event, job.generation>> = <<e, g>>
      BY <1>5, <1>8, <3>1
    <3>2. CASE <<job.event, job.generation>> # <<e, g>>
      BY <1>8, <2>2, <3>2
    <3>3. QED
      BY <3>1, <3>2
  <2>5. QED
    BY <1>1, <1>4, <1>7, <2>1, <2>2, <2>3, <2>4 DEF JobHeld, JobTyped
<1>11. PhaseHeld'
  BY <1>1, <1>10 DEF WInv, PhaseHeld
<1>12. QED
  BY <1>9, <1>11 DEF WInv

LEMMA ReceiveKeeps ==
    ASSUME WInv, NEW r, NEW verdict \in {"ack", "retry", "refuse"}, Receive(r, verdict)
    PROVE  WInv'
<1>1. /\ UNCHANGED <<deliveries, phase, process>>
      /\ acked' = IF verdict = "ack" THEN acked \union {<<r[1], r[2]>>} ELSE acked
      /\ job' = IF job # NoJob /\ Request(job) = r THEN [job EXCEPT !.reply = verdict] ELSE job
  BY DEF Receive, tables
<1>2. RowsSound(deliveries)'
  BY <1>1, TableKept DEF WInv
<1>3. ASSUME phase = "busy"
      PROVE  JobHeld(deliveries)'
  <2>1. JobTyped /\ JobHeld(deliveries)
    BY <1>3 DEF WInv, PhaseHeld, JobHeld
  <2>2. CASE job' = job
    BY <1>1, <2>1, <2>2 DEF JobHeld, JobTyped
  <2>3. CASE Request(job) = r /\ job' = [job EXCEPT !.reply = verdict]
    <3>1. /\ job'.event = job.event /\ job'.generation = job.generation
          /\ job'.number = job.number /\ job'.reply = verdict
      BY <2>1, <2>3 DEF JobTyped
    <3>2. JobTyped'
      BY <2>1, <2>3 DEF JobTyped, Replies
    <3>3. r[1] = job.event /\ r[2] = job.generation
      BY <2>3 DEF Request
    <3>4. job'.reply = "ack" => <<job.event, job.generation>> \in acked'
      BY <1>1, <3>1, <3>3
    <3>5. QED
      BY <1>1, <2>1, <3>1, <3>2, <3>4 DEF JobHeld
  <2>4. QED
    BY <1>1, <2>2, <2>3
<1>4. phase # "busy" => job' = NoJob
  BY <1>1 DEF WInv, PhaseHeld
<1>5. PhaseHeld'
  BY <1>1, <1>3, <1>4 DEF WInv, PhaseHeld
<1>6. QED
  BY <1>2, <1>5 DEF WInv

LEMMA NextKeepsW ==
    ASSUME WInv, [Next]_vars
    PROVE  WInv'
<1>1. CASE RunStarts \/ ProcessNothing \/ Crash \/ Start
  BY <1>1, RunsKeep
<1>2. CASE ProcessOne
  BY <1>2, ClaimsKeep
<1>3. CASE Connect \/ Send
  BY <1>3, StageKeeps
<1>4. CASE Complete
  BY <1>4, CompleteKeeps
<1>5. CASE Stop \/ Stopped
  <2>1. UNCHANGED <<deliveries, phase, job, acked>> /\ (process' = "down" => phase = "idle")
    BY <1>5 DEF Stop, Stopped, tables, outside
  <2>2. QED
    BY <2>1, TableUnchanged
<1>6. CASE \/ \E e \in Events : Post(e) \/ Revoke(e)
           \/ \E s \in Sites : ChangeSettings(s)
           \/ \E r \in network : Lose(r)
           \/ UNCHANGED vars
  <2>1. UNCHANGED <<deliveries, phase, job, acked, process>>
    BY <1>6 DEF Post, Revoke, ChangeSettings, Lose, vars, tables, scheduler, outside
  <2>2. process' = "down" => phase = "idle"
    BY <2>1 DEF WInv, PhaseHeld
  <2>3. QED
    BY <2>1, <2>2, TableUnchanged
<1>7. ASSUME NEW e \in Events, NEW id \in Replays, Replay(e, id)
      PROVE  WInv'
  BY <1>7, ReplayKeeps
<1>8. ASSUME NEW e \in Events, NEW g \in Generations, BackoffEnds(e, g) \/ LeaseExpires(e, g)
      PROVE  WInv'
  BY <1>8, TimeKeeps
<1>9. ASSUME NEW r, NEW verdict \in {"ack", "retry", "refuse"}, Receive(r, verdict)
      PROVE  WInv'
  BY <1>9, ReceiveKeeps
<1>10. QED
  BY <1>1, <1>2, <1>3, <1>4, <1>5, <1>6, <1>7, <1>8, <1>9 DEF Next

THEOREM WebhookInvariant == Spec => []WInv
BY InitW, NextKeepsW, PTL DEF Spec

-----------------------------------------------------------------------------
(* Results.                                                                *)

(* While a run holds an attempt its lease stands (completeAttempt never    *)
(* meets webhook_delivery_state_conflict).                                 *)
THEOREM LeasesStand == Spec => []HeldLeaseStands
<1>1. WInv => HeldLeaseStands
  <2> SUFFICES ASSUME WInv, job # NoJob
               PROVE  HeldLeaseStands
    BY DEF HeldLeaseStands
  <2>1. JobHeld(deliveries)
    BY DEF WInv, PhaseHeld
  <2>2. QED
    BY <2>1 DEF JobHeld, HeldLeaseStands, Last
<1>2. QED
  BY <1>1, WebhookInvariant, PTL

(* No row of the deliveries and attempts is selected by the startup check  *)
(* (countWebhookDomainViolations), whenever the process stops.             *)
THEOREM DeliveriesAlwaysAccepted == Spec => []DeliveriesAcceptedAtStartup
<1>1. WInv => DeliveriesAcceptedAtStartup
  <2> SUFFICES ASSUME RowsSound(deliveries), NEW e \in Events, NEW g \in DOMAIN deliveries[e]
               PROVE  LET d == deliveries[e][g]
                      IN  /\ Deliverable(e)
                          /\ GenerationAccepted(e, g)
                          /\ AttemptsAccepted(d)
                          /\ \A n \in 1 .. Len(d.attempts) - 1 :
                                d.attempts[n] \in {"RETRYABLE_FAILURE", "OUTCOME_UNKNOWN"}
                          /\ d.status \in Active => g = Len(deliveries[e])
    BY DEF WInv, DeliveriesAcceptedAtStartup
  <2>1. /\ deliveries[e] \in Seq(Delivery) /\ Len(deliveries[e]) \in Nat
        /\ DOMAIN deliveries[e] = 1 .. Len(deliveries[e])
    BY LenProperties DEF RowsSound
  <2>2. GenerationAccepted(e, g)
    <3>1. CASE g = 1
      BY <3>1 DEF RowsSound, GenerationAccepted
    <3>2. CASE g # 1
      <4>1. g - 1 \in DOMAIN deliveries[e] /\ g - 1 # Len(deliveries[e])
        BY <2>1, <3>2
      <4>2. deliveries[e][g - 1].status \notin Active /\ deliveries[e][g - 1] \in Delivery
        BY <4>1 DEF RowsSound, RowSound
      <4>3. deliveries[e][g - 1].status \in Terminal
        BY <4>2 DEF Delivery
      <4>4. QED
        BY <3>2, <4>3 DEF RowsSound, GenerationAccepted
    <3>3. QED
      BY <3>1, <3>2
  <2>3. QED
    BY <2>2 DEF RowsSound, RowSound
<1>2. QED
  BY <1>1, WebhookInvariant, PTL

(* A delivery is recorded as acknowledged only if the website acknowledged *)
(* this very delivery.                                                     *)
THEOREM AcknowledgementsAreReal == Spec => []AcknowledgedWasReceived
<1>1. WInv => AcknowledgedWasReceived
  BY DEF WInv, RowsSound, AcknowledgedWasReceived
<1>2. QED
  BY <1>1, WebhookInvariant, PTL

(* A request that is past its last check although its confirmation is      *)
(* revoked was connecting when the reversal was committed.                 *)
ExposedHeld ==
    (/\ phase = "busy" /\ job.stage = "connecting"
     /\ FormatOf[job.event] = "EPAY" /\ job.event \in revoked)
        => Request(job) \in exposed

LEMMA NextKeepsExposed ==
    ASSUME WInv, WInv', ExposedHeld, [Next]_vars
    PROVE  ExposedHeld'
<1> USE DEF ExposedHeld
<1>1. CASE UNCHANGED <<phase, job, revoked, exposed>>
  BY <1>1 DEF Request
<1>2. CASE RunStarts \/ ProcessNothing \/ Complete \/ Crash \/ Start
  BY <1>2 DEF RunStarts, ProcessNothing, Complete, Continue, Crash, Start
<1>3. CASE ProcessOne
  <2>1. phase' = "busy" => job'.stage # "connecting"
    BY <1>3 DEF ProcessOne
  <2>2. QED
    BY <2>1
<1>4. CASE Connect
  <2>1. phase = "busy" /\ MaySend(job.event) /\ UNCHANGED revoked
        /\ job' = [job EXCEPT !.stage = "connecting"]
    BY <1>4 DEF Connect, AddressResolved, tables
  <2>2. job'.event = job.event
    BY <2>1 DEF WInv, PhaseHeld, JobHeld, JobTyped
  <2>3. QED
    BY <2>1, <2>2 DEF MaySend
<1>5. CASE Send
  <2>1. job'.stage = "sent"
    BY <1>5 DEF Send, WInv, PhaseHeld, JobHeld, JobTyped
  <2>2. QED
    BY <2>1
<1>6. ASSUME NEW e \in Events, Revoke(e)
      PROVE  ExposedHeld'
  BY <1>6 DEF Revoke, scheduler, Request
<1>7. ASSUME NEW r, NEW verdict \in {"ack", "retry", "refuse"}, Receive(r, verdict)
      PROVE  ExposedHeld'
  <2>1. UNCHANGED <<phase, revoked, exposed>>
        /\ (job' = job \/ job' = [job EXCEPT !.reply = verdict])
    BY <1>7 DEF Receive, tables
  <2>2. phase = "busy" =>
           /\ job'.stage = job.stage /\ job'.event = job.event
           /\ job'.generation = job.generation /\ job'.number = job.number
    BY <2>1 DEF WInv, PhaseHeld, JobHeld, JobTyped
  <2>3. QED
    BY <2>1, <2>2 DEF Request
<1>8. CASE \/ Stop \/ Stopped \/ UNCHANGED vars
           \/ \E e \in Events : Post(e) \/ \E id \in Replays : Replay(e, id)
           \/ \E s \in Sites : ChangeSettings(s)
           \/ \E e \in Events, g \in Generations : BackoffEnds(e, g) \/ LeaseExpires(e, g)
           \/ \E r \in network : Lose(r)
  <2>1. UNCHANGED <<phase, job, revoked, exposed>>
    BY <1>8 DEF Stop, Stopped, vars, Post, Replay, ChangeSettings, BackoffEnds, LeaseExpires, Lose,
                tables, scheduler, outside
  <2>2. QED
    BY <1>1, <2>1
<1>9. QED
  BY <1>2, <1>3, <1>4, <1>5, <1>6, <1>7, <1>8 DEF Next

(* After a reversal no EasyPay request leaves for the confirmation, not    *)
(* even as a retry or a redelivery, except the one that was past both      *)
(* checks and connecting when the reversal was committed.                  *)
THEOREM OnlyExposedLeave == Spec => OnlyTheConnectingStillLeave
<1>1. ASSUME ExposedHeld, [Next]_vars, NEW r \in network' \ network,
             FormatOf[r[1]] = "EPAY", r[1] \in revoked
      PROVE  r \in exposed
  <2>1. CASE Send
    BY <1>1, <2>1 DEF Send, Request, ExposedHeld
  <2>2. CASE ~Send
    <3>1. network' \subseteq network
      <4>1. CASE RunStarts \/ ProcessNothing \/ ProcessOne \/ Connect \/ Complete \/ Stop
                 \/ Stopped \/ Crash \/ Start \/ UNCHANGED vars
        BY <4>1 DEF RunStarts, ProcessNothing, ProcessOne, Connect, AddressResolved, Complete,
                    Stop, Stopped, Crash, Start, vars, outside
      <4>2. CASE \/ \E e \in Events : Post(e) \/ Revoke(e) \/ \E id \in Replays : Replay(e, id)
                 \/ \E s \in Sites : ChangeSettings(s)
                 \/ \E e \in Events, g \in Generations : BackoffEnds(e, g) \/ LeaseExpires(e, g)
        BY <4>2 DEF Post, Revoke, Replay, ChangeSettings, BackoffEnds, LeaseExpires, outside
      <4>3. CASE \E q \in network : \/ Lose(q)
                                    \/ \E verdict \in {"ack", "retry", "refuse"} : Receive(q, verdict)
        BY <4>3 DEF Lose, Receive
      <4>4. QED
        BY <1>1, <2>2, <4>1, <4>2, <4>3 DEF Next
    <3>2. QED
      BY <1>1, <3>1
  <2>3. QED
    BY <2>1, <2>2
<1>2. ExposedHeld /\ [Next]_vars =>
        [\A r \in network' \ network :
            FormatOf[r[1]] = "EPAY" /\ r[1] \in revoked => r \in exposed]_vars
  BY <1>1
<1>3. Init => ExposedHeld
  BY DEF Init, ExposedHeld
<1>4. Spec => []ExposedHeld
  BY <1>3, WebhookInvariant, NextKeepsExposed, PTL DEF Spec
<1>5. QED
  BY <1>2, <1>4, PTL DEF Spec, OnlyTheConnectingStillLeave

=============================================================================
