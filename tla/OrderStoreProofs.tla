-------------------------- MODULE OrderStoreProofs --------------------------
(***************************************************************************)
(* Proofs about OrderStore, for every set of orders, sites, accounts and   *)
(* requests and every value of the bounds.                                 *)
(*                                                                         *)
(* PaymentWindowsSeparated is not inductive by itself.  A new slot is      *)
(* compared with the latest slot of its amount only, so the invariant also *)
(* has to say that there is a latest slot, that no row is younger than the *)
(* persisted clock, and how an ended checkout records its end.             *)
(*                                                                         *)
(* Every action is reduced to what it does to the rows (UpdateStep,        *)
(* InsertStep); from that follow what the row triggers accept, that no     *)
(* cooldown starts again, that requests get one order and that links do    *)
(* not come back.  The last part is about the allocation: the retry hint   *)
(* is the first time at which it succeeds.                                 *)
(***************************************************************************)
EXTENDS OrderStore, FiniteSetTheorems, TLAPS

RowsTyped == /\ DOMAIN orders \subseteq Orders
             /\ \A o \in DOMAIN orders : orders[o] \in Row

RestTyped == /\ physical \in Nat
             /\ clock \in Nat
             /\ DOMAIN events = DOMAIN orders
             /\ \A o \in DOMAIN events : events[o] \in Seq(Event)
             /\ tokenKeys \in Seq(Nat) /\ Len(tokenKeys) >= 1
             /\ gone \subseteq DOMAIN orders

NothingYoungerThanClock ==
    \A o \in DOMAIN orders : orders[o].created <= clock /\ orders[o].updated <= clock

LatestSlotExists ==
    \A a \in Accounts, m \in Nat :
        SlotsAt(a, m) # {} => \E o \in SlotsAt(a, m) : IsLatestSlot(o, a, m)

IInv == /\ RowsTyped
        /\ RestTyped
        /\ NothingYoungerThanClock
        /\ EndTimesConsistent
        /\ LatestSlotExists
        /\ PaymentWindowsSeparated

-----------------------------------------------------------------------------
(* What a step can do to the rows: nothing but ending open checkouts, or   *)
(* that and one insertion.                                                 *)

RowStep(r, s, now) ==
    \/ s = r
    \/ r.checkout = "OPEN" /\ r.expires <= now /\ s = ExpiredRow(r, now)
    \/ r.checkout = "OPEN" /\ r.expires > now /\ s = ClosedRow(r, now)

RowsStep == /\ clock' \in Nat
            /\ clock <= clock'
            /\ \A o \in DOMAIN orders : RowStep(orders[o], orders'[o], clock')

UpdateStep == RowsStep /\ DOMAIN orders' = DOMAIN orders

InsertStep(n, q, a, d, ttl, cooldown) ==
    /\ RowsStep
    /\ SameKey(q) = {} /\ SameMerchantOrder(q) = {}
    /\ DOMAIN orders' = DOMAIN orders \cup {n}
    /\ orders'[n] = NewRow(q, a, d, ttl, cooldown, clock')
    /\ Allocates(a, q, d, clock')
    /\ \A o \in SlotsAt(a, q.amount + d) :
          orders[o].checkout = "OPEN" => orders'[o] = ExpiredRow(orders[o], clock')

(* A row keeps its type when its checkout ends.                            *)
LEMMA EndedRowTyped ==
    ASSUME NEW r \in Row, NEW now \in Nat
    PROVE  ExpiredRow(r, now) \in Row /\ ClosedRow(r, now) \in Row
<1> DEFINE v == r.version + 1
<1>1. v \in Nat \ {0}
  BY DEF Row
<1>2. "EXPIRED" \in CheckoutStatuses /\ "CLOSED" \in CheckoutStatuses
  BY DEF CheckoutStatuses
<1> HIDE DEF v
<1>3. [r EXCEPT !.checkout = "EXPIRED", !.closed = now, !.released = now,
                !.updated = now, !.version = v] \in Row
  BY <1>1, <1>2 DEF Row
<1>4. [r EXCEPT !.checkout = "CLOSED", !.closed = now, !.released = now,
                !.updated = now, !.version = v] \in Row
  BY <1>1, <1>2 DEF Row
<1>5. QED
  BY <1>3, <1>4 DEF v, ExpiredRow, ClosedRow

(* The numbers of a row.                                                   *)
LEMMA RowNumbers ==
    ASSUME NEW r \in Row
    PROVE  /\ r.generation \in Nat \ {0} /\ r.payable \in Nat
           /\ r.created \in Nat /\ r.expires \in Nat /\ r.updated \in Nat
           /\ r.closed \in Int /\ r.released \in Int
           /\ r.cooldown \in Nat
<1>1. r.closed \in Nat \cup {NoTime} /\ r.released \in Nat \cup {NoTime}
  BY DEF Row
<1>2. r.cooldown \in Nat
  <2>1. r.cooldown \in Cooldowns
    BY DEF Row
  <2>2. QED
    BY <2>1, TimeAssumption
<1>3. /\ r.generation \in Nat \ {0} /\ r.payable \in Nat
      /\ r.created \in Nat /\ r.expires \in Nat /\ r.updated \in Nat
  BY DEF Row
<1>4. QED
  BY <1>1, <1>2, <1>3 DEF NoTime

(* A row step keeps the snapshot of the order, and an ended checkout never *)
(* changes again.                                                          *)
LEMMA RowStepFacts ==
    ASSUME NEW r \in Row, NEW s, NEW now \in Nat, RowStep(r, s, now)
    PROVE  /\ s \in Row
           /\ s.request = r.request
           /\ s.account = r.account /\ s.payable = r.payable
           /\ s.generation = r.generation /\ s.cooldown = r.cooldown
           /\ s.created = r.created /\ s.expires = r.expires
           /\ \/ s = r
              \/ /\ r.checkout = "OPEN"
                 /\ s.closed = now /\ s.released = now /\ s.updated = now
                 /\ \/ s.checkout = "EXPIRED" /\ r.expires <= now
                    \/ s.checkout = "CLOSED" /\ r.expires > now
<1>1. CASE s = r
  BY <1>1
<1>2. CASE r.checkout = "OPEN" /\ r.expires <= now /\ s = ExpiredRow(r, now)
  BY <1>2, EndedRowTyped DEF ExpiredRow, Row
<1>3. CASE r.checkout = "OPEN" /\ r.expires > now /\ s = ClosedRow(r, now)
  BY <1>3, EndedRowTyped DEF ClosedRow, Row
<1>4. QED
  BY <1>1, <1>2, <1>3 DEF RowStep

-----------------------------------------------------------------------------
(* Every step is one of the three kinds.                                   *)

LEMMA LogicalNowType ==
    ASSUME RestTyped PROVE LogicalNow \in Nat /\ LogicalNow >= clock
BY DEF RestTyped, LogicalNow, Max2

LEMMA ExpireIsRowsStep ==
    ASSUME RestTyped, RowsTyped, NEW S \in SUBSET Due(LogicalNow),
           clock' = LogicalNow, orders' = WithExpired(S, LogicalNow)
    PROVE  UpdateStep
<1>1. DOMAIN orders' = DOMAIN orders
  BY DEF WithExpired
<1>2. ASSUME NEW o \in DOMAIN orders
      PROVE  RowStep(orders[o], orders'[o], clock')
  BY <1>2 DEF WithExpired, RowStep, Due
<1>3. QED
  BY <1>1, <1>2, LogicalNowType DEF UpdateStep, RowsStep

LEMMA SweepsDue ==
    ASSUME NEW now, NEW sweep \in Sweeps(now) PROVE sweep \subseteq Due(now)
BY DEF Sweeps

LEMMA StutterIsUpdate ==
    ASSUME RestTyped, clock' = clock, orders' = orders PROVE UpdateStep
BY DEF RestTyped, UpdateStep, RowsStep, RowStep

(* An insertion ends, on its way, every open order at its own amount.      *)
LEMMA InsertIsInsertStep ==
    ASSUME RestTyped, RowsTyped, NEW q \in Requests, NEW sweep \in Sweeps(LogicalNow),
           NEW n \in Orders \ DOMAIN orders,
           clock' = LogicalNow, InsertOrder(n, q, sweep, LogicalNow)
    PROVE  \E a \in Accounts, ttl \in Ttls, cooldown \in Cooldowns, d \in 1..MaxOffset :
               InsertStep(n, q, a, d, ttl, cooldown)
<1> DEFINE now == LogicalNow
<1>1. PICK a \in Accounts, ttl \in Ttls, cooldown \in Cooldowns, d \in 1..MaxOffset,
           tried \in SUBSET Accounts :
        InsertAt(n, q, a, d, ttl, cooldown, tried, sweep, now)
  BY DEF InsertOrder
<1> DEFINE S == sweep \cup DueAmong(tried, q, MaxOffset, now) \cup DueAmong({a}, q, d, now)
<1>2. S \subseteq Due(now)
  BY SweepsDue DEF DueAmong
<1>3. DOMAIN orders' = DOMAIN orders \cup {n}
  BY <1>1 DEF InsertAt
<1>4. ASSUME NEW o \in DOMAIN orders
      PROVE  orders'[o] = IF o \in S THEN ExpiredRow(orders[o], now) ELSE orders[o]
  BY <1>1, <1>4 DEF InsertAt, WithExpired
<1>5. ASSUME NEW o \in DOMAIN orders
      PROVE  RowStep(orders[o], orders'[o], clock')
  BY <1>2, <1>4, <1>5 DEF RowStep, Due
<1>6. orders'[n] = NewRow(q, a, d, ttl, cooldown, clock')
  BY <1>1 DEF InsertAt
<1>7. ASSUME NEW o \in SlotsAt(a, q.amount + d), orders[o].checkout = "OPEN"
      PROVE  orders'[o] = ExpiredRow(orders[o], clock')
  <2>1. o \in Due(now)
    BY <1>1, <1>7 DEF InsertAt, Allocates, AmountIsFree, Due, SlotsAt
  <2>2. orders[o].payable - q.amount \in 1..d /\ orders[o].payable <= MaxPayable
    BY <1>1, <1>7, RequestAssumption, AmountAssumption DEF InsertAt, Allocates, Offsets, SlotsAt
  <2>3. o \in DueAmong({a}, q, d, now)
    BY <2>1, <2>2, <1>7 DEF DueAmong, SlotsAt
  <2>4. QED
    BY <2>3, <1>4, <1>7 DEF SlotsAt
<1>8. SameKey(q) = {} /\ SameMerchantOrder(q) = {}
  BY DEF InsertOrder
<1>9. QED
  BY <1>1, <1>3, <1>5, <1>6, <1>7, <1>8, LogicalNowType DEF InsertAt, InsertStep, RowsStep

LEMMA NextKinds ==
    ASSUME RestTyped, RowsTyped, Next
    PROVE  \/ UpdateStep
           \/ \E n \in Orders \ DOMAIN orders, q \in Requests, a \in Accounts,
                 ttl \in Ttls, cooldown \in Cooldowns, d \in 1..MaxOffset :
                 InsertStep(n, q, a, d, ttl, cooldown)
<1>1. ASSUME NEW q \in Requests, CreateOrder(q)
      PROVE  \/ UpdateStep
             \/ \E n \in Orders \ DOMAIN orders, a \in Accounts,
                   ttl \in Ttls, cooldown \in Cooldowns, d \in 1..MaxOffset :
                   InsertStep(n, q, a, d, ttl, cooldown)
  <2>1. PICK sweep \in Sweeps(LogicalNow) :
          \/ ReplayOrder(q, sweep, LogicalNow)
          \/ RefuseOrder(q, sweep, LogicalNow)
          \/ ExhaustOrder(q, sweep, LogicalNow)
          \/ \E o \in Orders \ DOMAIN orders : InsertOrder(o, q, sweep, LogicalNow)
    BY <1>1 DEF CreateOrder
  <2>2. clock' = LogicalNow
    BY <1>1 DEF CreateOrder, AdvanceClock
  <2>3. CASE ReplayOrder(q, sweep, LogicalNow)
    <3>1. sweep \cup (SameKey(q) \cap Due(LogicalNow)) \in SUBSET Due(LogicalNow)
      BY SweepsDue
    <3>2. QED
      BY <2>2, <2>3, <3>1, ExpireIsRowsStep DEF ReplayOrder, Expire
  <2>4. CASE RefuseOrder(q, sweep, LogicalNow)
    BY <2>2, <2>4, SweepsDue, ExpireIsRowsStep DEF RefuseOrder, Expire
  <2>5. CASE ExhaustOrder(q, sweep, LogicalNow)
    <3>1. PICK A \in SUBSET Accounts :
            Expire(sweep \cup DueAmong(A, q, MaxOffset, LogicalNow), LogicalNow)
      BY <2>5 DEF ExhaustOrder
    <3>2. sweep \cup DueAmong(A, q, MaxOffset, LogicalNow) \in SUBSET Due(LogicalNow)
      BY SweepsDue DEF DueAmong
    <3>3. QED
      BY <2>2, <3>1, <3>2, ExpireIsRowsStep DEF Expire
  <2>6. CASE \E o \in Orders \ DOMAIN orders : InsertOrder(o, q, sweep, LogicalNow)
    <3>1. PICK n \in Orders \ DOMAIN orders : InsertOrder(n, q, sweep, LogicalNow)
      BY <2>6
    <3>2. QED
      BY <2>2, <3>1, InsertIsInsertStep
  <2>7. QED
    BY <2>1, <2>3, <2>4, <2>5, <2>6
<1>2. ASSUME NEW o \in DOMAIN orders, ReadOrder(o)
      PROVE  UpdateStep
  BY <1>2, ExpireIsRowsStep DEF ReadOrder, AdvanceClock, Expire
<1>3. ASSUME NEW o \in DOMAIN orders, CloseOrder(o)
      PROVE  UpdateStep
  <2>1. clock' = LogicalNow
    BY <1>3 DEF CloseOrder, AdvanceClock
  <2>2. CASE orders[o].checkout = "OPEN" /\ orders[o].expires > LogicalNow
    <3>1. orders' = [orders EXCEPT ![o] = ClosedRow(orders[o], LogicalNow)]
      BY <1>3, <2>2 DEF CloseOrder
    <3>2. \A p \in DOMAIN orders : RowStep(orders[p], orders'[p], clock')
      BY <2>1, <2>2, <3>1 DEF RowStep
    <3>3. QED
      BY <2>1, <3>1, <3>2, LogicalNowType DEF UpdateStep, RowsStep
  <2>3. CASE ~(orders[o].checkout = "OPEN" /\ orders[o].expires > LogicalNow)
    BY <1>3, <2>1, <2>3, ExpireIsRowsStep DEF CloseOrder, Expire
  <2>4. QED
    BY <2>2, <2>3
<1>4. ASSUME NEW o \in DOMAIN orders, PublicCheckout(o)
      PROVE  UpdateStep
  BY <1>4, ExpireIsRowsStep, StutterIsUpdate DEF PublicCheckout, AdvanceClock, Expire
<1>5. ASSUME AdminOrderPage PROVE UpdateStep
  <2>1. PICK sweep \in Sweeps(LogicalNow), page \in SUBSET Due(LogicalNow) :
          Expire(sweep \cup page, LogicalNow)
    BY <1>5 DEF AdminOrderPage
  <2>2. sweep \cup page \in SUBSET Due(LogicalNow)
    BY SweepsDue
  <2>3. QED
    BY <1>5, <2>1, <2>2, ExpireIsRowsStep DEF AdminOrderPage, AdvanceClock, Expire
<1>6. ASSUME Tick \/ SetBack PROVE UpdateStep
  BY <1>6, StutterIsUpdate DEF Tick, SetBack
<1>7. QED
  BY <1>1, <1>2, <1>3, <1>4, <1>5, <1>6 DEF Next

-----------------------------------------------------------------------------
(* The rows: an update step keeps every part of the invariant.             *)

LEMMA UpdateKeepsRows ==
    ASSUME IInv, UpdateStep
    PROVE  (RowsTyped /\ NothingYoungerThanClock /\ EndTimesConsistent)'
<1>1. ASSUME NEW o \in DOMAIN orders
      PROVE  /\ orders[o] \in Row
             /\ RowStep(orders[o], orders'[o], clock')
             /\ clock' \in Nat /\ clock \in Nat /\ clock <= clock'
  BY <1>1 DEF IInv, RowsTyped, RestTyped, UpdateStep, RowsStep
<1>2. DOMAIN orders' = DOMAIN orders
  BY DEF UpdateStep
<1>3. RowsTyped'
  BY <1>1, <1>2, RowStepFacts DEF IInv, RowsTyped
<1>4. NothingYoungerThanClock'
  <2>1. ASSUME NEW o \in DOMAIN orders
        PROVE  orders'[o].created <= clock' /\ orders'[o].updated <= clock'
    <3>1. orders[o].created <= clock /\ orders[o].updated <= clock
      BY DEF IInv, NothingYoungerThanClock
    <3>2. orders[o].created \in Nat /\ orders[o].updated \in Nat
      BY <1>1 DEF Row
    <3>3. QED
      BY <1>1, <3>1, <3>2, RowStepFacts
  <2>2. QED
    BY <1>2, <2>1 DEF NothingYoungerThanClock
<1>5. EndTimesConsistent'
  <2>1. ASSUME NEW o \in DOMAIN orders
        PROVE  LET r == orders'[o]
               IN  /\ r.created < r.expires
                   /\ r.released = r.closed
                   /\ r.checkout = "OPEN"    => r.closed = NoTime
                   /\ r.checkout = "CLOSED"  => r.created <= r.closed /\ r.closed < r.expires
                   /\ r.checkout = "EXPIRED" => r.expires <= r.closed
    <3>1. orders[o].created <= clock
      BY DEF IInv, NothingYoungerThanClock
    <3>2. orders[o].created \in Nat /\ orders[o].expires \in Nat
      BY <1>1 DEF Row
    <3>3. orders[o].created < orders[o].expires
      BY DEF IInv, EndTimesConsistent
    <3>4. CASE orders'[o] = orders[o]
      BY <3>4 DEF IInv, EndTimesConsistent
    <3>5. CASE orders'[o] # orders[o]
      BY <1>1, <3>1, <3>2, <3>3, <3>5, RowStepFacts
    <3>6. QED
      BY <3>4, <3>5
  <2>2. QED
    BY <1>2, <2>1 DEF EndTimesConsistent
<1>6. QED
  BY <1>3, <1>4, <1>5

(* The reuse time of an ended checkout is fixed, and expiry leaves it.     *)
LEMMA ReuseTimeKept ==
    ASSUME NEW r \in Row, NEW s, NEW now \in Nat, RowStep(r, s, now),
           \/ r.checkout # "OPEN"
           \/ s = ExpiredRow(r, now)
    PROVE  AmountReuseAvailableAt(s) = AmountReuseAvailableAt(r)
<1>1. CASE s = r
  BY <1>1
<1>2. CASE s # r
  <2>1. r.checkout = "OPEN" /\ s = ExpiredRow(r, now)
    BY <1>2, RowStepFacts
  <2>2. s.checkout = "EXPIRED" /\ s.expires = r.expires /\ s.cooldown = r.cooldown
    BY <2>1 DEF ExpiredRow, Row
  <2>3. QED
    BY <2>1, <2>2 DEF AmountReuseAvailableAt, EndedAt
<1>3. QED
  BY <1>1, <1>2

(* The slot rows an old order contributes are the same after a step.       *)
LEMMA SlotFieldsKept ==
    ASSUME IInv, RowsStep
    PROVE  \A o \in DOMAIN orders :
               /\ orders[o] \in Row /\ orders'[o] \in Row
               /\ orders'[o].request = orders[o].request
               /\ orders'[o].account = orders[o].account
               /\ orders'[o].payable = orders[o].payable
               /\ orders'[o].generation = orders[o].generation
               /\ orders'[o].created = orders[o].created
               /\ orders[o].checkout # "OPEN" => orders'[o] = orders[o]
BY RowStepFacts DEF IInv, RowsTyped, RowsStep

LEMMA UpdateKeepsSlots ==
    ASSUME IInv, UpdateStep
    PROVE  (LatestSlotExists /\ PaymentWindowsSeparated)'
<1>1. DOMAIN orders' = DOMAIN orders
  BY DEF UpdateStep
<1>2. \A a \in Accounts, m \in Nat : SlotsAt(a, m)' = SlotsAt(a, m)
  BY <1>1, SlotFieldsKept DEF SlotsAt, UpdateStep
<1>3. LatestSlotExists'
  <2>1. ASSUME NEW a \in Accounts, NEW m \in Nat, SlotsAt(a, m)' # {}
        PROVE  \E o \in SlotsAt(a, m)' : IsLatestSlot(o, a, m)'
    <3>1. PICK o \in SlotsAt(a, m) : IsLatestSlot(o, a, m)
      BY <1>2, <2>1 DEF IInv, LatestSlotExists
    <3>2. \A p \in SlotsAt(a, m) : orders'[p].generation = orders[p].generation
      BY SlotFieldsKept DEF SlotsAt, UpdateStep
    <3>3. IsLatestSlot(o, a, m)'
      BY <1>2, <3>1, <3>2 DEF IsLatestSlot
    <3>4. QED
      BY <1>2, <3>3
  <2>2. QED
    BY <2>1 DEF LatestSlotExists
<1>4. PaymentWindowsSeparated'
  <2>1. SUFFICES ASSUME NEW o \in DOMAIN orders, NEW p \in DOMAIN orders, o # p,
                        orders'[o].account = orders'[p].account,
                        orders'[o].payable = orders'[p].payable
                 PROVE  /\ orders'[o].generation # orders'[p].generation
                        /\ orders'[o].generation < orders'[p].generation
                             => /\ orders'[o].checkout # "OPEN"
                                /\ AmountReuseAvailableAt(orders'[o]) <= orders'[p].created
    BY <1>1 DEF PaymentWindowsSeparated
  <2>2. RowsStep
    BY DEF UpdateStep
  <2>3. /\ orders[o].generation # orders[p].generation
        /\ orders[o].generation < orders[p].generation
             => /\ orders[o].checkout # "OPEN"
                /\ AmountReuseAvailableAt(orders[o]) <= orders[p].created
    BY <2>1, <2>2, SlotFieldsKept DEF IInv, PaymentWindowsSeparated
  <2>4. QED
    BY <2>2, <2>3, SlotFieldsKept
<1>5. QED
  BY <1>3, <1>4

-----------------------------------------------------------------------------
(* The rows: an insertion.                                                 *)

(* What allocateAmountSlot established about the amount, extended from the *)
(* latest slot to all of them.                                             *)
LEMMA FreeAmountHasCooledDown ==
    ASSUME IInv, NEW a \in Accounts, NEW m \in Nat, NEW now \in Nat, clock <= now,
           AmountIsFree(a, m, now), NEW o \in SlotsAt(a, m)
    PROVE  /\ AmountReuseAvailableAt(orders[o]) <= now
           /\ NextGeneration(a, m) \in Nat \ {0}
           /\ orders[o].generation < NextGeneration(a, m)
<1> DEFINE l == CHOOSE x \in SlotsAt(a, m) : IsLatestSlot(x, a, m)
<1>1. l \in SlotsAt(a, m) /\ IsLatestSlot(l, a, m)
  BY DEF IInv, LatestSlotExists
<1>2. o \in DOMAIN orders /\ l \in DOMAIN orders
  BY <1>1 DEF SlotsAt
<1>3. orders[o] \in Row /\ orders[l] \in Row
  BY <1>2 DEF IInv, RowsTyped
<1>4. /\ orders[o].generation \in Nat \ {0} /\ orders[l].generation \in Nat \ {0}
      /\ orders[l].created \in Nat /\ orders[l].released \in Int
      /\ orders[o].cooldown \in Nat /\ orders[l].cooldown \in Nat
      /\ orders[o].expires \in Nat /\ orders[l].expires \in Nat
      /\ orders[o].closed \in Int /\ orders[l].closed \in Int
  BY <1>3, RowNumbers
<1>5. NextGeneration(a, m) = orders[l].generation + 1
  BY DEF NextGeneration
<1>6. orders[o].generation <= orders[l].generation
  BY <1>1 DEF IsLatestSlot
<1>7. AmountReuseAvailableAt(orders[l]) \in Int /\ AmountReuseAvailableAt(orders[o]) \in Int
  BY <1>4 DEF AmountReuseAvailableAt, EndedAt
<1>8. SlotAvailableAt(orders[l], now) <= now
  BY <1>1 DEF AmountIsFree
<1>9. AmountReuseAvailableAt(orders[l]) <= now
  <2> HIDE DEF l
  <2>1. QED
    BY <1>4, <1>7, <1>8 DEF SlotAvailableAt, Max2
<1>10. CASE o # l
  <2>1. orders[o].account = orders[l].account /\ orders[o].payable = orders[l].payable
    BY <1>1 DEF SlotsAt
  <2>2. orders[o].generation # orders[l].generation
    BY <1>2, <1>10, <2>1 DEF IInv, PaymentWindowsSeparated
  <2>3. AmountReuseAvailableAt(orders[o]) <= orders[l].created
    BY <1>2, <1>4, <1>6, <1>10, <2>1, <2>2 DEF IInv, PaymentWindowsSeparated
  <2>4. orders[l].created <= clock
    BY <1>2 DEF IInv, NothingYoungerThanClock
  <2>5. clock \in Nat
    BY DEF IInv, RestTyped
  <2> HIDE DEF l
  <2>6. QED
    BY <1>4, <1>5, <1>6, <1>7, <2>3, <2>4, <2>5
<1>11. CASE o = l
  <2> HIDE DEF l
  <2>1. QED
    BY <1>4, <1>5, <1>9, <1>11
<1>12. QED
  BY <1>10, <1>11

LEMMA NewRowTyped ==
    ASSUME IInv, NEW q \in Requests, NEW a \in Accounts, NEW d \in 1..MaxOffset,
           NEW ttl \in Ttls, NEW cooldown \in Cooldowns, NEW now \in Nat, clock <= now,
           AmountIsFree(a, q.amount + d, now)
    PROVE  NewRow(q, a, d, ttl, cooldown, now) \in Row
<1>1. q.amount + d \in Nat /\ now + ttl \in Nat
  BY RequestAssumption, TimeAssumption, AmountAssumption
<1>2. NextGeneration(a, q.amount + d) \in Nat \ {0}
  <2>1. CASE SlotsAt(a, q.amount + d) = {}
    BY <2>1 DEF NextGeneration
  <2>2. CASE SlotsAt(a, q.amount + d) # {}
    BY <1>1, <2>2, FreeAmountHasCooledDown
  <2>3. QED
    BY <2>1, <2>2
<1>3. Len(KeysInForce(now)) \in Nat \ {0}
  BY DEF IInv, RestTyped, KeysInForce
<1>4. "OPEN" \in CheckoutStatuses /\ "UNPAID" \in PaymentStatuses /\ "NONE" \in PaymentBases
  BY DEF CheckoutStatuses, PaymentStatuses, PaymentBases
<1> DEFINE g == NextGeneration(a, q.amount + d)
           k == Len(KeysInForce(now))
           m == q.amount + d
           e == now + ttl
<1>5. /\ g \in Nat \ {0} /\ k \in Nat \ {0} /\ m \in Nat /\ e \in Nat
      /\ NewRow(q, a, d, ttl, cooldown, now) =
           [request |-> q, account |-> a, payable |-> m, generation |-> g,
            cooldown |-> cooldown, created |-> now, expires |-> e, closed |-> NoTime,
            released |-> NoTime, updated |-> now, tokenKey |-> k, checkout |-> "OPEN",
            payment |-> "UNPAID", basis |-> "NONE", received |-> NoAmount, version |-> 1]
  BY <1>1, <1>2, <1>3 DEF NewRow
<1> HIDE DEF g, k, m, e
<1>6. QED
  BY <1>4, <1>5 DEF Row

LEMMA InsertKeepsIt ==
    ASSUME IInv, NEW n \in Orders \ DOMAIN orders, NEW q \in Requests, NEW a \in Accounts,
           NEW ttl \in Ttls, NEW cooldown \in Cooldowns, NEW d \in 1..MaxOffset,
           InsertStep(n, q, a, d, ttl, cooldown)
    PROVE  /\ (RowsTyped /\ NothingYoungerThanClock /\ EndTimesConsistent)'
           /\ (LatestSlotExists /\ PaymentWindowsSeparated)'
<1> DEFINE m == q.amount + d
           new == NewRow(q, a, d, ttl, cooldown, clock')
<1>1. RowsStep /\ clock \in Nat /\ clock' \in Nat /\ clock <= clock'
  BY DEF InsertStep, RowsStep, IInv, RestTyped
<1>2. DOMAIN orders' = DOMAIN orders \cup {n} /\ orders'[n] = new /\ n \notin DOMAIN orders
  BY DEF InsertStep
<1>3. m \in Nat /\ AmountIsFree(a, m, clock')
  BY RequestAssumption, AmountAssumption DEF InsertStep, Allocates
<1>4. new \in Row
  BY <1>1, <1>3, NewRowTyped
<1>5. /\ new.account = a /\ new.payable = m /\ new.generation = NextGeneration(a, m)
      /\ new.created = clock' /\ new.updated = clock' /\ new.expires = clock' + ttl
      /\ new.closed = NoTime /\ new.released = NoTime /\ new.checkout = "OPEN"
  BY DEF NewRow
<1> HIDE DEF new, m
<1>6. \A o \in DOMAIN orders : RowStep(orders[o], orders'[o], clock')
  BY <1>1 DEF RowsStep
<1>7. RowsTyped'
  BY <1>1, <1>2, <1>4, SlotFieldsKept DEF IInv, RowsTyped
<1>8. NothingYoungerThanClock'
  <2>1. ASSUME NEW o \in DOMAIN orders
        PROVE  orders'[o].created <= clock' /\ orders'[o].updated <= clock'
    <3>1. orders[o].created <= clock /\ orders[o].updated <= clock
      BY DEF IInv, NothingYoungerThanClock
    <3>2. orders[o] \in Row
      BY DEF IInv, RowsTyped
    <3>3. QED
      BY <1>1, <1>6, <3>1, <3>2, RowNumbers, RowStepFacts
  <2>2. QED
    BY <1>1, <1>2, <1>5, <2>1 DEF NothingYoungerThanClock
<1>9. EndTimesConsistent'
  <2>1. ASSUME NEW o \in DOMAIN orders
        PROVE  LET r == orders'[o]
               IN  /\ r.created < r.expires
                   /\ r.released = r.closed
                   /\ r.checkout = "OPEN"    => r.closed = NoTime
                   /\ r.checkout = "CLOSED"  => r.created <= r.closed /\ r.closed < r.expires
                   /\ r.checkout = "EXPIRED" => r.expires <= r.closed
    <3>1. orders[o].created <= clock /\ orders[o] \in Row
      BY DEF IInv, NothingYoungerThanClock, RowsTyped
    <3>2. orders[o].created < orders[o].expires
      BY DEF IInv, EndTimesConsistent
    <3>3. CASE orders'[o] = orders[o]
      BY <3>3 DEF IInv, EndTimesConsistent
    <3>4. CASE orders'[o] # orders[o]
      BY <1>1, <1>6, <3>1, <3>2, <3>4, RowNumbers, RowStepFacts
    <3>5. QED
      BY <3>3, <3>4
  <2>2. clock' < clock' + ttl
    <3>1. ttl \in Nat \ {0}
      BY TimeAssumption
    <3>2. ttl > 0 /\ ttl \in Int /\ clock' \in Int
      BY <1>1, <3>1
    <3>3. \A x, y \in Int : y > 0 => x < x + y
      OBVIOUS
    <3>4. QED
      BY <3>2, <3>3, Zenon
  <2>3. QED
    BY <1>2, <1>5, <2>1, <2>2 DEF EndTimesConsistent
<1>10. ASSUME NEW o \in SlotsAt(a, m)
       PROVE  /\ orders'[o].checkout # "OPEN"
              /\ AmountReuseAvailableAt(orders'[o]) <= clock'
              /\ orders'[o].generation < new.generation
  <2>1. o \in DOMAIN orders /\ orders[o] \in Row
    BY DEF SlotsAt, IInv, RowsTyped
  <2>2. orders[o].checkout = "OPEN" => orders'[o] = ExpiredRow(orders[o], clock')
    BY <1>10 DEF InsertStep, m
  <2>3. AmountReuseAvailableAt(orders'[o]) = AmountReuseAvailableAt(orders[o])
    BY <1>1, <1>6, <2>1, <2>2, ReuseTimeKept
  <2>4. orders'[o].checkout # "OPEN"
    BY <1>1, <2>1, <2>2, SlotFieldsKept DEF ExpiredRow, Row
  <2>5. QED
    BY <1>1, <1>3, <1>5, <1>10, <2>1, <2>3, <2>4, SlotFieldsKept, FreeAmountHasCooledDown
<1>11. ASSUME NEW b \in Accounts, NEW k \in Nat
       PROVE  SlotsAt(b, k)' = SlotsAt(b, k) \cup (IF b = a /\ k = m THEN {n} ELSE {})
  BY <1>1, <1>2, <1>5, SlotFieldsKept DEF SlotsAt
<1>12. LatestSlotExists'
  <2>1. SUFFICES ASSUME NEW b \in Accounts, NEW k \in Nat, SlotsAt(b, k)' # {}
                 PROVE  \E o \in SlotsAt(b, k)' : IsLatestSlot(o, b, k)'
    BY DEF LatestSlotExists
  <2>2. CASE b = a /\ k = m
    <3>1. n \in SlotsAt(b, k)' /\ SlotsAt(b, k)' = SlotsAt(a, m) \cup {n}
      BY <1>11, <2>2
    <3>2. \A p \in SlotsAt(a, m) : orders'[p].generation <= orders'[n].generation
      <4>1. ASSUME NEW p \in SlotsAt(a, m)
            PROVE  orders'[p].generation <= orders'[n].generation
        <5>1. p \in DOMAIN orders
          BY DEF SlotsAt
        <5>2. orders'[p].generation \in Nat /\ new.generation \in Nat
          BY <1>1, <1>4, <5>1, SlotFieldsKept, RowNumbers
        <5>3. QED
          BY <1>2, <1>10, <4>1, <5>2
      <4>2. QED
        BY <4>1
    <3>3. orders'[n].generation <= orders'[n].generation
      BY <1>2, <1>4, RowNumbers
    <3>4. IsLatestSlot(n, b, k)'
      BY <3>1, <3>2, <3>3 DEF IsLatestSlot
    <3>5. QED
      BY <3>1, <3>4
  <2>3. CASE ~(b = a /\ k = m)
    <3>1. SlotsAt(b, k)' = SlotsAt(b, k)
      BY <1>11, <2>3
    <3>2. PICK o \in SlotsAt(b, k) : IsLatestSlot(o, b, k)
      BY <2>1, <3>1 DEF IInv, LatestSlotExists
    <3>3. \A p \in SlotsAt(b, k) : orders'[p].generation = orders[p].generation
      BY <1>1, SlotFieldsKept DEF SlotsAt
    <3>4. IsLatestSlot(o, b, k)'
      BY <3>1, <3>2, <3>3 DEF IsLatestSlot
    <3>5. QED
      BY <3>1, <3>4
  <2>4. QED
    BY <2>2, <2>3
<1>13. PaymentWindowsSeparated'
  <2>1. SUFFICES ASSUME NEW o \in DOMAIN orders', NEW p \in DOMAIN orders', o # p,
                        orders'[o].account = orders'[p].account,
                        orders'[o].payable = orders'[p].payable
                 PROVE  /\ orders'[o].generation # orders'[p].generation
                        /\ orders'[o].generation < orders'[p].generation
                             => /\ orders'[o].checkout # "OPEN"
                                /\ AmountReuseAvailableAt(orders'[o]) <= orders'[p].created
    BY DEF PaymentWindowsSeparated
  <2>2. /\ orders'[o].generation \in Nat /\ orders'[p].generation \in Nat
        /\ new.generation \in Nat
    BY <1>1, <1>2, <1>4, SlotFieldsKept, RowNumbers
  <2>3. CASE o # n /\ p # n
    <3>1. o \in DOMAIN orders /\ p \in DOMAIN orders
      BY <1>2, <2>3
    <3>2. /\ orders[o].generation # orders[p].generation
          /\ orders[o].generation < orders[p].generation
               => /\ orders[o].checkout # "OPEN"
                  /\ AmountReuseAvailableAt(orders[o]) <= orders[p].created
      BY <1>1, <2>1, <3>1, SlotFieldsKept DEF IInv, PaymentWindowsSeparated
    <3>3. QED
      BY <1>1, <3>1, <3>2, SlotFieldsKept
  <2>4. CASE p = n
    <3>1. o \in SlotsAt(a, m)
      BY <1>1, <1>2, <1>5, <2>1, <2>4, SlotFieldsKept DEF SlotsAt
    <3>2. QED
      BY <1>2, <1>5, <1>10, <2>2, <2>4, <3>1
  <2>5. CASE o = n
    <3>1. p \in SlotsAt(a, m)
      BY <1>1, <1>2, <1>5, <2>1, <2>5, SlotFieldsKept DEF SlotsAt
    <3>2. QED
      BY <1>2, <1>10, <2>2, <2>5, <3>1
  <2>6. QED
    BY <2>3, <2>4, <2>5
<1>14. QED
  BY <1>7, <1>8, <1>9, <1>12, <1>13

-----------------------------------------------------------------------------
(* The other variables.                                                    *)

LEMMA ExpiryEventsTyped ==
    ASSUME RestTyped, NEW S, NEW now \in Nat
    PROVE  /\ DOMAIN WithExpiryEvents(S, now) = DOMAIN orders
           /\ \A o \in DOMAIN orders : WithExpiryEvents(S, now)[o] \in Seq(Event)
<1>1. [type |-> "CHECKOUT_EXPIRED", at |-> now] \in Event
  BY DEF Event, EventTypes
<1>2. QED
  BY <1>1 DEF RestTyped, WithExpiryEvents

LEMMA ExpireKeepsRest ==
    ASSUME RestTyped, NEW S, Expire(S, LogicalNow), clock' = LogicalNow,
           physical' \in Nat, gone' \subseteq DOMAIN orders,
           tokenKeys' \in Seq(Nat) /\ Len(tokenKeys') >= 1
    PROVE  RestTyped'
<1>1. DOMAIN orders' = DOMAIN orders
  BY DEF Expire, WithExpired
<1>2. DOMAIN events' = DOMAIN orders /\ \A o \in DOMAIN events' : events'[o] \in Seq(Event)
  BY LogicalNowType, ExpiryEventsTyped DEF Expire
<1>3. QED
  BY <1>1, <1>2, LogicalNowType DEF RestTyped

LEMMA KeysTyped ==
    ASSUME RestTyped, NEW now \in Nat
    PROVE  KeysInForce(now) \in Seq(Nat) /\ Len(KeysInForce(now)) >= 1
BY DEF RestTyped, KeysInForce

LEMMA InsertKeepsRest ==
    ASSUME RestTyped, NEW n, NEW q, NEW sweep, InsertOrder(n, q, sweep, LogicalNow),
           clock' = LogicalNow, physical' = physical, gone' = gone
    PROVE  RestTyped'
<1>1. PICK a \in Accounts, ttl \in Ttls, cooldown \in Cooldowns, d \in 1..MaxOffset,
           tried \in SUBSET Accounts :
        InsertAt(n, q, a, d, ttl, cooldown, tried, sweep, LogicalNow)
  BY DEF InsertOrder
<1>2. DOMAIN orders' = DOMAIN orders \cup {n}
  BY <1>1 DEF InsertAt
<1>3. [type |-> "CREATED", at |-> LogicalNow] \in Event
  BY LogicalNowType DEF Event, EventTypes
<1>4. /\ DOMAIN events' = DOMAIN orders \cup {n}
      /\ \A o \in DOMAIN events' : events'[o] \in Seq(Event)
  <2> DEFINE S == sweep \cup DueAmong(tried, q, MaxOffset, LogicalNow)
                        \cup DueAmong({a}, q, d, LogicalNow)
             first == <<[type |-> "CREATED", at |-> LogicalNow]>>
             expired == WithExpiryEvents(S, LogicalNow)
  <2>1. events' = [x \in DOMAIN orders \cup {n} |-> IF x = n THEN first ELSE expired[x]]
    BY <1>1 DEF InsertAt
  <2>2. first \in Seq(Event)
    BY <1>3
  <2>3. \A o \in DOMAIN orders : expired[o] \in Seq(Event)
    BY LogicalNowType, ExpiryEventsTyped
  <2> HIDE DEF first, expired
  <2>4. QED
    BY <2>1, <2>2, <2>3
<1>5. tokenKeys' \in Seq(Nat) /\ Len(tokenKeys') >= 1
  BY LogicalNowType, KeysTyped DEF InsertOrder
<1>6. QED
  BY <1>2, <1>4, <1>5, LogicalNowType DEF RestTyped

LEMMA NextKeepsRest ==
    ASSUME RestTyped, Next PROVE RestTyped'
<1> USE DEF AdvanceClock
<1>0. /\ physical \in Nat /\ gone \subseteq DOMAIN orders
      /\ tokenKeys \in Seq(Nat) /\ Len(tokenKeys) >= 1
  BY DEF RestTyped
<1>1. ASSUME NEW q \in Requests, CreateOrder(q) PROVE RestTyped'
  <2>1. PICK sweep \in Sweeps(LogicalNow) :
          \/ ReplayOrder(q, sweep, LogicalNow)
          \/ RefuseOrder(q, sweep, LogicalNow)
          \/ ExhaustOrder(q, sweep, LogicalNow)
          \/ \E o \in Orders \ DOMAIN orders : InsertOrder(o, q, sweep, LogicalNow)
    BY <1>1 DEF CreateOrder
  <2>2. clock' = LogicalNow /\ physical' = physical /\ gone' = gone
    BY <1>1 DEF CreateOrder
  <2>3. CASE \/ ReplayOrder(q, sweep, LogicalNow)
             \/ RefuseOrder(q, sweep, LogicalNow)
             \/ ExhaustOrder(q, sweep, LogicalNow)
    <3>1. PICK S : Expire(S, LogicalNow) /\ tokenKeys' = tokenKeys
      BY <2>3 DEF ReplayOrder, RefuseOrder, ExhaustOrder
    <3>2. QED
      BY <1>0, <2>2, <3>1, ExpireKeepsRest
  <2>4. CASE \E o \in Orders \ DOMAIN orders : InsertOrder(o, q, sweep, LogicalNow)
    BY <2>2, <2>4, InsertKeepsRest
  <2>5. QED
    BY <2>1, <2>3, <2>4
<1>2. ASSUME NEW o \in DOMAIN orders, ReadOrder(o) PROVE RestTyped'
  BY <1>0, <1>2, ExpireKeepsRest DEF ReadOrder
<1>3. ASSUME NEW o \in DOMAIN orders, CloseOrder(o) PROVE RestTyped'
  <2>1. CASE orders[o].checkout = "OPEN" /\ orders[o].expires > LogicalNow
    <3>1. [type |-> "CHECKOUT_CLOSED", at |-> LogicalNow] \in Event
      BY LogicalNowType DEF Event, EventTypes
    <3>2. /\ orders' = [orders EXCEPT ![o] = ClosedRow(orders[o], LogicalNow)]
          /\ events' = [events EXCEPT ![o] =
                 Append(events[o], [type |-> "CHECKOUT_CLOSED", at |-> LogicalNow])]
          /\ UNCHANGED <<physical, tokenKeys, gone>> /\ clock' = LogicalNow
      BY <1>3, <2>1 DEF CloseOrder
    <3>3. DOMAIN orders' = DOMAIN orders /\ DOMAIN events' = DOMAIN events
      BY <3>2
    <3>4. \A p \in DOMAIN events' : events'[p] \in Seq(Event)
      BY <3>1, <3>2 DEF RestTyped
    <3>5. QED
      BY <3>2, <3>3, <3>4, LogicalNowType DEF RestTyped
  <2>2. CASE ~(orders[o].checkout = "OPEN" /\ orders[o].expires > LogicalNow)
    BY <1>0, <1>3, <2>2, ExpireKeepsRest DEF CloseOrder
  <2>3. QED
    BY <2>1, <2>2
<1>4. ASSUME NEW o \in DOMAIN orders, PublicCheckout(o) PROVE RestTyped'
  <2>1. CASE clock' = clock /\ UNCHANGED <<physical, orders, events, tokenKeys>>
    BY <1>4, <2>1 DEF PublicCheckout, RestTyped
  <2>2. CASE /\ AdvanceClock /\ Expire({o} \cap Due(LogicalNow), LogicalNow)
             /\ UNCHANGED <<physical, tokenKeys>>
    <3>1. gone' \subseteq DOMAIN orders
      BY <1>0, <1>4 DEF PublicCheckout
    <3>2. QED
      BY <1>0, <2>2, <3>1, ExpireKeepsRest
  <2>3. QED
    BY <1>4, <2>1, <2>2 DEF PublicCheckout
<1>5. ASSUME AdminOrderPage PROVE RestTyped'
  BY <1>0, <1>5, ExpireKeepsRest DEF AdminOrderPage
<1>6. ASSUME Tick PROVE RestTyped'
  BY <1>6 DEF Tick, RestTyped
<1>7. ASSUME SetBack PROVE RestTyped'
  BY <1>7 DEF SetBack, RestTyped
<1>8. QED
  BY <1>1, <1>2, <1>3, <1>4, <1>5, <1>6, <1>7 DEF Next

-----------------------------------------------------------------------------
(* The invariant.                                                          *)

LEMMA InitIInv == Init => IInv
<1>1. SUFFICES ASSUME Init PROVE IInv
  OBVIOUS
<1>2. DOMAIN orders = {} /\ DOMAIN events = {}
  BY <1>1 DEF Init
<1>3. RestTyped
  BY <1>1, <1>2 DEF Init, RestTyped
<1>4. QED
  BY <1>2, <1>3 DEF IInv, RowsTyped, NothingYoungerThanClock, EndTimesConsistent,
                    LatestSlotExists, PaymentWindowsSeparated, SlotsAt

LEMMA StepIInv == IInv /\ [Next]_vars => IInv'
<1>1. SUFFICES ASSUME IInv, [Next]_vars PROVE IInv'
  OBVIOUS
<1>2. CASE Next
  <2>1. RestTyped'
    BY <1>1, <1>2, NextKeepsRest DEF IInv
  <2>2. CASE UpdateStep
    BY <1>1, <2>1, <2>2, UpdateKeepsRows, UpdateKeepsSlots DEF IInv
  <2>3. CASE \E n \in Orders \ DOMAIN orders, q \in Requests, a \in Accounts,
               ttl \in Ttls, cooldown \in Cooldowns, d \in 1..MaxOffset :
               InsertStep(n, q, a, d, ttl, cooldown)
    BY <1>1, <2>1, <2>3, InsertKeepsIt DEF IInv
  <2>4. QED
    BY <1>1, <1>2, <2>2, <2>3, NextKinds DEF IInv
<1>3. CASE UNCHANGED vars
  <2>1. RestTyped'
    BY <1>1, <1>3 DEF vars, IInv, RestTyped
  <2>2. UpdateStep
    BY <1>1, <1>3, StutterIsUpdate DEF vars, IInv
  <2>3. QED
    BY <1>1, <2>1, <2>2, UpdateKeepsRows, UpdateKeepsSlots DEF IInv
<1>4. QED
  BY <1>1, <1>2, <1>3

LEMMA Invariance == Spec => []IInv
BY InitIInv, StepIInv, PTL DEF Spec

(* Type correctness of the order store.                                    *)
THEOREM TypeCorrect == Spec => []TypeOK
<1>1. IInv => TypeOK
  BY DEF IInv, RowsTyped, RestTyped, TypeOK
<1>2. QED
  BY Invariance, <1>1, PTL

(* Orders that share an account and an amount are separated in time by the *)
(* cooldown of the earlier one, for any number of orders and any history   *)
(* of creations, closes, delayed sweeps and clock changes.                 *)
THEOREM WindowsSeparated == Spec => []PaymentWindowsSeparated
<1>1. IInv => PaymentWindowsSeparated
  BY DEF IInv
<1>2. QED
  BY Invariance, <1>1, PTL

(* The CHECK constraints on the end of a checkout are never violated.      *)
THEOREM EndTimesHold == Spec => []EndTimesConsistent
<1>1. IInv => EndTimesConsistent
  BY DEF IInv
<1>2. QED
  BY Invariance, <1>1, PTL

-----------------------------------------------------------------------------
(* What one step may do to a row.                                          *)

(* Ending a checkout is an update the triggers of payment_orders accept.   *)
LEMMA RowStepAccepted ==
    ASSUME NEW r \in Row, NEW s, NEW now \in Nat, RowStep(r, s, now),
           r.updated <= now, r.checkout = "OPEN" => r.closed = NoTime
    PROVE  TriggersAccept(r, s)
<1>1. CASE s = r
  BY <1>1 DEF TriggersAccept
<1>2. CASE r.checkout = "OPEN" /\ s = ExpiredRow(r, now)
  <2>1. /\ Snapshot(s) = Snapshot(r)
        /\ s.checkout = "EXPIRED" /\ s.closed = now /\ s.updated = now
        /\ s.version = r.version + 1
    BY <1>2 DEF ExpiredRow, Row, Snapshot
  <2>2. QED
    BY <1>2, <2>1 DEF TriggersAccept
<1>3. CASE r.checkout = "OPEN" /\ s = ClosedRow(r, now)
  <2>1. /\ Snapshot(s) = Snapshot(r)
        /\ s.checkout = "CLOSED" /\ s.closed = now /\ s.updated = now
        /\ s.version = r.version + 1
    BY <1>3 DEF ClosedRow, Row, Snapshot
  <2>2. QED
    BY <1>3, <2>1 DEF TriggersAccept
<1>4. QED
  BY <1>1, <1>2, <1>3 DEF RowStep

(* Ending a checkout does not move the reuse of its amount to a later time.*)
LEMMA RowStepReuse ==
    ASSUME NEW r \in Row, NEW s, NEW now \in Nat, RowStep(r, s, now)
    PROVE  AmountReuseAvailableAt(s) <= AmountReuseAvailableAt(r)
<1>1. r.cooldown \in Nat /\ r.expires \in Nat /\ r.closed \in Int
  BY RowNumbers
<1>2. AmountReuseAvailableAt(r) \in Int
  BY <1>1 DEF AmountReuseAvailableAt, EndedAt
<1>3. CASE s = r \/ s = ExpiredRow(r, now)
  BY <1>2, <1>3, ReuseTimeKept DEF RowStep
<1>4. CASE r.checkout = "OPEN" /\ r.expires > now /\ s = ClosedRow(r, now)
  <2>1. s.checkout = "CLOSED" /\ s.closed = now /\ s.cooldown = r.cooldown
    BY <1>4 DEF ClosedRow, Row
  <2>2. QED
    BY <1>1, <1>4, <2>1 DEF AmountReuseAvailableAt, EndedAt
<1>5. QED
  BY <1>3, <1>4 DEF RowStep

LEMMA NextIsRowsStep ==
    ASSUME IInv, [Next]_vars
    PROVE  RowsStep /\ DOMAIN orders \subseteq DOMAIN orders'
<1>1. CASE Next
  BY <1>1, NextKinds DEF IInv, UpdateStep, InsertStep
<1>2. CASE UNCHANGED vars
  BY <1>2, StutterIsUpdate DEF IInv, vars, UpdateStep
<1>3. QED
  BY <1>1, <1>2

(* The clock of the store never goes back and every update of an order is  *)
(* one its triggers accept, so no transaction of the order store is        *)
(* aborted by them: not by a sweep that comes late, and not after the wall *)
(* clock was set back.                                                     *)
THEOREM UpdatesAreAccepted == Spec => UpdatesAccepted
<1>1. IInv /\ [Next]_vars =>
        /\ clock' >= clock
        /\ \A o \in DOMAIN orders : /\ o \in DOMAIN orders'
                                    /\ TriggersAccept(orders[o], orders'[o])
  <2>1. SUFFICES ASSUME IInv, [Next]_vars
                 PROVE  /\ clock' >= clock
                        /\ \A o \in DOMAIN orders :
                              /\ o \in DOMAIN orders'
                              /\ TriggersAccept(orders[o], orders'[o])
    OBVIOUS
  <2>2. /\ clock \in Nat /\ clock' \in Nat /\ clock <= clock'
        /\ DOMAIN orders \subseteq DOMAIN orders'
        /\ \A o \in DOMAIN orders : RowStep(orders[o], orders'[o], clock')
    BY <2>1, NextIsRowsStep DEF RowsStep, IInv, RestTyped
  <2>3. ASSUME NEW o \in DOMAIN orders
        PROVE  TriggersAccept(orders[o], orders'[o])
    <3>1. orders[o] \in Row /\ orders[o].updated <= clock
      BY <2>1 DEF IInv, RowsTyped, NothingYoungerThanClock
    <3>2. orders[o].checkout = "OPEN" => orders[o].closed = NoTime
      BY <2>1 DEF IInv, EndTimesConsistent
    <3>3. orders[o].updated <= clock'
      BY <2>2, <3>1, RowNumbers
    <3>4. QED
      BY <2>2, <3>1, <3>2, <3>3, RowStepAccepted
  <2>4. QED
    BY <2>2, <2>3
<1>2. QED
  BY <1>1, Invariance, PTL DEF Spec, UpdatesAccepted

(* No step, however late the sweep that notices an expiry, makes the       *)
(* cooldown of an amount start again.                                      *)
THEOREM CooldownsNeverRestart == Spec => CooldownNeverRestarts
<1>1. IInv /\ [Next]_vars =>
        \A o \in DOMAIN orders :
            AmountReuseAvailableAt(orders'[o]) <= AmountReuseAvailableAt(orders[o])
  BY NextIsRowsStep, RowStepReuse DEF RowsStep, IInv, RowsTyped
<1>2. QED
  BY <1>1, Invariance, PTL DEF Spec, CooldownNeverRestarts

-----------------------------------------------------------------------------
(* One order per request.                                                  *)

LEMMA OneOrderStep ==
    ASSUME IInv, OneOrderPerRequest, [Next]_vars PROVE OneOrderPerRequest'
<1>1. RowsStep
  BY NextIsRowsStep
<1>2. \A o \in DOMAIN orders : orders'[o].request = orders[o].request
  BY <1>1, SlotFieldsKept
<1>3. CASE DOMAIN orders' = DOMAIN orders
  BY <1>2, <1>3 DEF OneOrderPerRequest
<1>4. ASSUME NEW n \in Orders \ DOMAIN orders, NEW q \in Requests, NEW a \in Accounts,
             NEW ttl \in Ttls, NEW cooldown \in Cooldowns, NEW d \in 1..MaxOffset,
             InsertStep(n, q, a, d, ttl, cooldown)
      PROVE  OneOrderPerRequest'
  <2>1. DOMAIN orders' = DOMAIN orders \cup {n} /\ orders'[n].request = q
    BY <1>4 DEF InsertStep, NewRow
  <2>2. ASSUME NEW o \in DOMAIN orders, orders[o].request.site = q.site
        PROVE  /\ orders[o].request.key # q.key
               /\ orders[o].request.merchant # q.merchant
    BY <1>4, <2>2 DEF InsertStep, SameKey, SameMerchantOrder
  <2>3. QED
    BY <1>2, <2>1, <2>2 DEF OneOrderPerRequest
<1>5. QED
  BY <1>3, <1>4, NextKinds DEF IInv, UpdateStep, vars

(* A merchant that sends a request again, after any number of other        *)
(* requests and endings, never gets a second order for it.                 *)
THEOREM RequestsGetOneOrder == Spec => []OneOrderPerRequest
<1>1. Init => OneOrderPerRequest
  BY DEF Init, OneOrderPerRequest
<1>2. QED
  BY <1>1, Invariance, OneOrderStep, PTL DEF Spec

-----------------------------------------------------------------------------
(* A link that was missing once stays missing.                             *)

LEMMA MissingStaysMissing ==
    ASSUME IInv, RowsStep, NEW o \in DOMAIN orders, LinkIsMissing(orders[o])
    PROVE  LinkIsMissing(orders[o])'
<1>1. orders[o].checkout # "OPEN" /\ orders'[o] = orders[o]
  BY SlotFieldsKept DEF LinkIsMissing
<1>2. clock \in Nat /\ clock' \in Nat /\ clock <= clock'
  BY DEF IInv, RestTyped, RowsStep
<1>3. EndedAt(orders[o]) \in Int /\ Observation \in Nat
  BY RowNumbers, TimeAssumption DEF EndedAt, IInv, RowsTyped
<1>4. ~(clock - EndedAt(orders[o]) < Observation)
  BY <1>1 DEF LinkIsMissing, IsTerminalCheckoutObservable
<1>5. ~(clock' - EndedAt(orders[o]) < Observation)
  BY <1>2, <1>3, <1>4
<1>6. QED
  BY <1>1, <1>5 DEF LinkIsMissing, IsTerminalCheckoutObservable

LEMMA LinkStep ==
    ASSUME IInv, LinkNotRevived, [Next]_vars PROVE LinkNotRevived'
<1>1. RowsStep
  BY NextIsRowsStep
<1>2. \A o \in gone : o \in DOMAIN orders /\ LinkIsMissing(orders[o])'
  BY <1>1, MissingStaysMissing DEF LinkNotRevived, IInv, RestTyped
<1>3. CASE gone' = gone
  BY <1>2, <1>3 DEF LinkNotRevived
<1>4. ASSUME NEW o \in DOMAIN orders, PublicCheckout(o) PROVE LinkNotRevived'
  <2>1. CASE LinkIsMissing(orders[o]) /\ gone' = gone \cup {o}
    BY <1>1, <1>2, <2>1, MissingStaysMissing DEF LinkNotRevived
  <2>2. CASE /\ AdvanceClock
             /\ gone' = IF \/ orders'[o].checkout = "OPEN"
                           \/ IsTerminalCheckoutObservable(orders'[o], LogicalNow)
                        THEN gone ELSE gone \cup {o}
    <3>1. o \in gone' \ gone => LinkIsMissing(orders[o])'
      BY <2>2 DEF LinkIsMissing, AdvanceClock, IsTerminalCheckoutObservable
    <3>2. QED
      BY <1>2, <2>2, <3>1 DEF LinkNotRevived
  <2>3. QED
    BY <1>4, <2>1, <2>2 DEF PublicCheckout
<1>5. QED
  BY <1>3, <1>4 DEF Next, CreateOrder, ReadOrder, CloseOrder, AdminOrderPage, Tick, SetBack,
                    vars

(* Once a checkout link has been answered "not found" it stays so, for     *)
(* every later change of the wall clock.                                   *)
THEOREM LinksAreNotRevived == Spec => []LinkNotRevived
<1>1. Init => LinkNotRevived
  BY DEF Init, LinkNotRevived
<1>2. QED
  BY <1>1, Invariance, LinkStep, PTL DEF Spec

-----------------------------------------------------------------------------
(* The retry hint.                                                         *)

BelowIn(T, x) == {y \in T : y < x}
(* A nonempty set of natural numbers has a least one.                     *)
LEMMA NatHasLeast ==
    ASSUME NEW T \in SUBSET Nat, T # {}
    PROVE  \E x \in T : \A y \in T : x <= y
<1> DEFINE F == {BelowIn(T, x) : x \in T}
           R == StrictSubsetOrdering(Nat)
<1>0. \A x \in T : x \in Nat
  OBVIOUS
<1>1. ASSUME NEW x \in T PROVE BelowIn(T, x) \in SUBSET Nat /\ IsFiniteSet(BelowIn(T, x))
  <2>2. x \in Nat
    OBVIOUS
  <2>3. BelowIn(T, x) \in SUBSET Nat
    BY <1>0 DEF BelowIn
  <2>4. \A s \in BelowIn(T, x) : s <= x
    BY <1>0 DEF BelowIn
  <2>5. QED
    BY <2>2, <2>3, <2>4, FS_BoundedSetOfNaturals
<1>2. F \subseteq FiniteSubsetsOf(Nat) /\ F # {}
  BY <1>1 DEF FiniteSubsetsOf
<1>3. PICK U \in F : \A V \in F : <<V, U>> \notin R
  <2>1. IsWellFoundedOn(R, FiniteSubsetsOf(Nat))
    BY FS_StrictSubsetOrderingWellFounded
  <2> HIDE DEF F, R
  <2>2. QED
    BY <1>2, <2>1, WFMin
<1>4. PICK x \in T : U = BelowIn(T, x)
  OBVIOUS
<1>5. ASSUME NEW z \in T, z < x PROVE FALSE
  <2>1. z \in U /\ z \notin BelowIn(T, z)
    BY <1>0, <1>4, <1>5 DEF BelowIn
  <2>2. ASSUME NEW y \in BelowIn(T, z) PROVE y \in U
    <3>1. y \in T /\ y < z /\ y \in Nat /\ z \in Nat /\ x \in Nat
      BY <1>0 DEF BelowIn
    <3>2. y < x
      BY <1>5, <3>1
    <3>3. QED
      BY <1>4, <3>1, <3>2 DEF BelowIn
  <2>3. BelowIn(T, z) \in SUBSET Nat /\ U \in SUBSET Nat
    BY <1>1, <1>4
  <2>4. <<BelowIn(T, z), U>> \in R
    BY <2>1, <2>2, <2>3 DEF StrictSubsetOrdering
  <2>5. QED
    BY <1>3, <2>4
<1>6. QED
  BY <1>0, <1>5

(* When the amount of row r becomes free if nobody acts.                   *)
FreeFrom(r) == IF r.checkout = "OPEN" THEN AmountReuseAvailableAt(r)
                                      ELSE Max2(r.released, AmountReuseAvailableAt(r))

LEMMA FreeFromNumbers ==
    ASSUME IInv, NEW o \in DOMAIN orders
    PROVE  /\ orders[o].expires \in Nat /\ orders[o].released \in Int
           /\ AmountReuseAvailableAt(orders[o]) \in Nat
           /\ FreeFrom(orders[o]) \in Nat
           /\ orders[o].checkout = "OPEN" =>
                 orders[o].expires <= AmountReuseAvailableAt(orders[o])
<1>1. orders[o] \in Row
  BY DEF IInv, RowsTyped
<1>2. /\ orders[o].cooldown \in Nat /\ orders[o].expires \in Nat
      /\ orders[o].closed \in Int /\ orders[o].released \in Int
      /\ orders[o].created \in Nat
  BY <1>1, RowNumbers
<1>3. EndedAt(orders[o]) \in Nat
  BY <1>2 DEF EndedAt, IInv, EndTimesConsistent
<1>4. AmountReuseAvailableAt(orders[o]) \in Nat
  BY <1>2, <1>3 DEF AmountReuseAvailableAt
<1>5. orders[o].checkout = "OPEN" => orders[o].expires <= AmountReuseAvailableAt(orders[o])
  BY <1>2 DEF AmountReuseAvailableAt, EndedAt
<1>6. FreeFrom(orders[o]) \in Nat
  BY <1>2, <1>4 DEF FreeFrom, Max2
<1>7. QED
  BY <1>2, <1>4, <1>5, <1>6

(* Only the latest slot of an amount can be open, and there is only one.   *)
LEMMA OnlyLatestMatters ==
    ASSUME IInv, NEW a, NEW m, NEW l, IsLatestSlot(l, a, m),
           NEW o \in SlotsAt(a, m), o # l
    PROVE  orders[o].checkout # "OPEN" /\ ~IsLatestSlot(o, a, m)
<1>1. /\ l \in DOMAIN orders /\ o \in DOMAIN orders
      /\ orders[l].account = orders[o].account /\ orders[l].payable = orders[o].payable
      /\ l \in SlotsAt(a, m)
      /\ orders[o].generation <= orders[l].generation
  BY DEF IsLatestSlot, SlotsAt
<1>2. orders[l].generation \in Nat /\ orders[o].generation \in Nat
  BY <1>1, RowNumbers DEF IInv, RowsTyped
<1>3. orders[o].generation # orders[l].generation
  BY <1>1 DEF IInv, PaymentWindowsSeparated
<1>4. orders[o].generation < orders[l].generation
  BY <1>1, <1>2, <1>3
<1>5. orders[o].checkout # "OPEN"
  BY <1>1, <1>4 DEF IInv, PaymentWindowsSeparated
<1>6. ~IsLatestSlot(o, a, m)
  BY <1>1, <1>2, <1>4 DEF IsLatestSlot
<1>7. QED
  BY <1>5, <1>6

LEMMA FreeIff ==
    ASSUME IInv, NEW a, NEW m, NEW l, IsLatestSlot(l, a, m), NEW t \in Nat
    PROVE  AmountIsFree(a, m, t) <=> FreeFrom(orders[l]) <= t
<1>1. l \in SlotsAt(a, m) /\ l \in DOMAIN orders
  BY DEF IsLatestSlot, SlotsAt
<1>2. AmountIsFree(a, m, t) <=>
        /\ orders[l].checkout = "OPEN" => orders[l].expires <= t
        /\ SlotAvailableAt(orders[l], t) <= t
  BY <1>1, OnlyLatestMatters DEF AmountIsFree
<1>3. /\ orders[l].expires \in Nat /\ orders[l].released \in Int
      /\ AmountReuseAvailableAt(orders[l]) \in Nat
      /\ FreeFrom(orders[l]) \in Nat
      /\ orders[l].checkout = "OPEN" =>
           orders[l].expires <= AmountReuseAvailableAt(orders[l])
  BY <1>1, FreeFromNumbers
<1>4. QED
  BY <1>2, <1>3 DEF SlotAvailableAt, FreeFrom, Max2

LEMMA HintOfRow ==
    ASSUME IInv, NEW o \in DOMAIN orders, NEW now \in Nat, FreeFrom(orders[o]) > now
    PROVE  SlotAvailableAt(orders[o], now) = FreeFrom(orders[o])
BY FreeFromNumbers DEF SlotAvailableAt, FreeFrom, Max2

LEMMA HintIsExact ==
    ASSUME IInv, NEW a \in Accounts, NEW q \in Requests, Exhausted(a, q, clock)
    PROVE  LET h == EarliestAvailableAt(a, q, clock)
           IN  /\ h > clock
               /\ ~Exhausted(a, q, h)
               /\ \A t \in clock..(h - 1) : Exhausted(a, q, t)
<1> DEFINE L == {p \in DOMAIN orders : \E d \in Offsets(q) : IsLatestSlot(p, a, q.amount + d)}
           T == {SlotAvailableAt(orders[o], clock) : o \in L}
           h == CHOOSE t \in T : \A u \in T : t <= u
<1>1. clock \in Nat
  BY DEF IInv, RestTyped
<1>2. ASSUME NEW d \in Offsets(q)
      PROVE  \E l \in L : /\ IsLatestSlot(l, a, q.amount + d)
                          /\ FreeFrom(orders[l]) > clock
  <2>1. q.amount + d \in Nat /\ ~AmountIsFree(a, q.amount + d, clock)
    BY RequestAssumption DEF Offsets, Exhausted
  <2>2. SlotsAt(a, q.amount + d) # {}
    BY <2>1 DEF AmountIsFree
  <2>3. PICK l \in SlotsAt(a, q.amount + d) : IsLatestSlot(l, a, q.amount + d)
    BY <2>1, <2>2 DEF IInv, LatestSlotExists
  <2>4. l \in DOMAIN orders
    BY DEF SlotsAt
  <2>5. FreeFrom(orders[l]) > clock
    BY <1>1, <2>1, <2>3, <2>4, FreeIff, FreeFromNumbers
  <2>6. QED
    BY <2>3, <2>4, <2>5
<1>3. ASSUME NEW l \in L
      PROVE  /\ l \in DOMAIN orders
             /\ FreeFrom(orders[l]) \in Nat /\ FreeFrom(orders[l]) > clock
             /\ SlotAvailableAt(orders[l], clock) = FreeFrom(orders[l])
  <2>1. l \in DOMAIN orders
    OBVIOUS
  <2>2. PICK d \in Offsets(q) : IsLatestSlot(l, a, q.amount + d)
    OBVIOUS
  <2>3. PICK k \in L : IsLatestSlot(k, a, q.amount + d) /\ FreeFrom(orders[k]) > clock
    BY <1>2
  <2>4. l = k
    BY <2>2, <2>3, OnlyLatestMatters DEF IsLatestSlot
  <2>5. QED
    BY <1>1, <2>1, <2>3, <2>4, HintOfRow, FreeFromNumbers
<1>4. L # {}
  <2>1. 1 \in Offsets(q)
    BY RequestAssumption, AmountAssumption DEF Offsets
  <2>2. QED
    BY <1>2, <2>1
<1> HIDE DEF L
<1>5. T \subseteq Nat /\ T # {} /\ \A t \in T : t > clock
  BY <1>3, <1>4
<1>6. h \in T /\ \A u \in T : h <= u
  <2>1. \E t \in T : \A u \in T : t <= u
    BY <1>5, NatHasLeast
  <2> HIDE DEF T
  <2>2. QED
    BY <2>1
<1>7. h \in Nat /\ h > clock
  BY <1>5, <1>6
<1>8. PICK l \in L : h = FreeFrom(orders[l])
  BY <1>3, <1>6
<1>9. EarliestAvailableAt(a, q, clock) = h
  BY DEF EarliestAvailableAt, L
<1> HIDE DEF h, T
<1>10. ~Exhausted(a, q, h)
  <2>1. PICK d \in Offsets(q) : IsLatestSlot(l, a, q.amount + d)
    BY DEF L
  <2>2. FreeFrom(orders[l]) <= h
    BY <1>7, <1>8
  <2>3. AmountIsFree(a, q.amount + d, h)
    BY <1>7, <2>1, <2>2, FreeIff
  <2>4. QED
    BY <2>3 DEF Exhausted
<1>11. ASSUME NEW t \in clock..(h - 1) PROVE Exhausted(a, q, t)
  <2>1. SUFFICES ASSUME NEW d \in Offsets(q) PROVE ~AmountIsFree(a, q.amount + d, t)
    BY DEF Exhausted
  <2>2. t \in Nat /\ t < h
    BY <1>1, <1>7
  <2>3. PICK k \in L : IsLatestSlot(k, a, q.amount + d)
    BY <1>2
  <2>4. h <= FreeFrom(orders[k]) /\ FreeFrom(orders[k]) \in Nat
    BY <1>3, <1>6 DEF T
  <2>5. ~(FreeFrom(orders[k]) <= t)
    BY <1>7, <2>2, <2>4
  <2>6. QED
    BY <2>2, <2>3, <2>5, FreeIff
<1>12. QED
  BY <1>7, <1>9, <1>10, <1>11

(* The retry hint of "amount_slots_exhausted" is exact for any set of      *)
(* orders and offsets: at that time an amount is free if nobody else acts, *)
(* and at no earlier time.                                                 *)
THEOREM RetryHintsAreExact == Spec => []RetryHintExact
<1>1. IInv => RetryHintExact
  BY HintIsExact DEF RetryHintExact
<1>2. QED
  BY Invariance, <1>1, PTL

=============================================================================
