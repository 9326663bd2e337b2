----------------------------- MODULE StartupProofs ----------------------------
(***************************************************************************)
(* Theorems about what the database holds at any time: the outbox follows  *)
(* the payment events of the orders, and the queries of the startup check  *)
(* (StartupCheck) select no row: the one that compares movements with the  *)
(* release of their slots as long as the wall clock is never set back, the *)
(* others whatever it does.                                                *)
(*                                                                         *)
(* Each query needs the rows it reads to be related to rows it does not    *)
(* read, so the inductive invariant HInv is the conjunction of VInv (the   *)
(* outbox, on top of the journal and the matches of BInv), GInv (the       *)
(* generations of the slots count the earlier ones), XInv (the issues),    *)
(* and the history of the matches, of the resolved issues and of the       *)
(* ambiguous entries.                                                      *)
(***************************************************************************)
EXTENDS ReconciliationProofs

-----------------------------------------------------------------------------
(* The events of an order, along every step.                               *)

PaymentEvents == {"PAYMENT_CONFIRMED", "PAYMENT_DISPUTED"}

(* What the order store writes to the events of an order: one that is not  *)
(* about a payment, and the version with it, or nothing.                   *)
CheckoutRecorded(o) ==
    \/ events'[o] = events[o] /\ orders'[o].version = orders[o].version
    \/ \E x : /\ x.type \notin PaymentEvents
              /\ events'[o] = Append(events[o], x)
              /\ orders'[o].version = orders[o].version + 1

CreationRecorded(o) ==
    \E x : x.type \notin PaymentEvents /\ events'[o] = <<x>> /\ orders'[o].version = 1

CheckoutsRecorded ==
    /\ \A o \in DOMAIN orders : CheckoutRecorded(o)
    /\ \A o \in DOMAIN orders' \ DOMAIN orders : CreationRecorded(o)

LEMMA ExpiryRecorded ==
    ASSUME RestTyped, RowsTyped, NEW S, NEW now, NEW o \in DOMAIN orders,
           orders'[o] = WithExpired(S, now)[o], events'[o] = WithExpiryEvents(S, now)[o]
    PROVE  CheckoutRecorded(o)
<1>1. CASE o \in S
  <2> DEFINE x == [type |-> "CHECKOUT_EXPIRED", at |-> now]
  <2>1. events'[o] = Append(events[o], x)
    BY <1>1 DEF WithExpiryEvents, RestTyped
  <2>2. orders'[o] = ExpiredRow(orders[o], now) /\ orders[o] \in Row
    BY <1>1 DEF WithExpired, RowsTyped
  <2>3. orders'[o].version = orders[o].version + 1
    BY <2>2 DEF ExpiredRow, Row
  <2>4. x.type \notin PaymentEvents
    BY DEF PaymentEvents
  <2> HIDE DEF x
  <2>5. QED
    BY <2>1, <2>3, <2>4 DEF CheckoutRecorded
<1>2. CASE o \notin S
  BY <1>2 DEF WithExpired, WithExpiryEvents, RestTyped, CheckoutRecorded
<1>3. QED
  BY <1>1, <1>2

LEMMA ExpireRecorded ==
    ASSUME RestTyped, RowsTyped, NEW S, NEW now, Expire(S, now)
    PROVE  CheckoutsRecorded
BY ExpiryRecorded DEF Expire, CheckoutsRecorded, WithExpired

LEMMA InsertRecorded ==
    ASSUME RestTyped, RowsTyped, NEW q, NEW n \in Orders \ DOMAIN orders, NEW sweep,
           InsertOrder(n, q, sweep, LogicalNow)
    PROVE  CheckoutsRecorded
<1>1. PICK a \in Accounts, ttl \in Ttls, cooldown \in Cooldowns, d \in 1..MaxOffset,
           tried \in SUBSET Accounts :
        InsertAt(n, q, a, d, ttl, cooldown, tried, sweep, LogicalNow)
  BY DEF InsertOrder
<1> DEFINE S == sweep \cup DueAmong(tried, q, MaxOffset, LogicalNow)
                      \cup DueAmong({a}, q, d, LogicalNow)
           row == NewRow(q, a, d, ttl, cooldown, LogicalNow)
           x == [type |-> "CREATED", at |-> LogicalNow]
<1>2. /\ orders' = [y \in DOMAIN orders \cup {n} |->
                      IF y = n THEN row ELSE WithExpired(S, LogicalNow)[y]]
      /\ events' = [y \in DOMAIN orders \cup {n} |->
                      IF y = n THEN <<x>> ELSE WithExpiryEvents(S, LogicalNow)[y]]
  BY <1>1 DEF InsertAt
<1>3. row.version = 1
  BY DEF NewRow
<1>4. x.type \notin PaymentEvents
  BY DEF PaymentEvents
<1> HIDE DEF S, row, x
<1>5. CreationRecorded(n)
  <2>1. orders'[n] = row /\ events'[n] = <<x>>
    BY <1>2
  <2>2. QED
    BY <1>3, <1>4, <2>1 DEF CreationRecorded
<1>6. ASSUME NEW o \in DOMAIN orders PROVE CheckoutRecorded(o)
  <2>1. orders'[o] = WithExpired(S, LogicalNow)[o] /\ events'[o] = WithExpiryEvents(S, LogicalNow)[o]
    BY <1>2
  <2>2. QED
    BY <2>1, ExpiryRecorded
<1>7. DOMAIN orders' = DOMAIN orders \cup {n}
  BY <1>2
<1>8. QED
  BY <1>5, <1>6, <1>7 DEF CheckoutsRecorded

LEMMA NothingRecorded ==
    ASSUME UNCHANGED <<orders, events>> PROVE CheckoutsRecorded
BY DEF CheckoutsRecorded, CheckoutRecorded

LEMMA OrderStoreRecords ==
    ASSUME RestTyped, RowsTyped, [Next]_vars PROVE CheckoutsRecorded
<1>1. ASSUME NEW q \in Requests, CreateOrder(q) PROVE CheckoutsRecorded
  <2>1. PICK sweep \in Sweeps(LogicalNow) :
          \/ ReplayOrder(q, sweep, LogicalNow)
          \/ RefuseOrder(q, sweep, LogicalNow)
          \/ ExhaustOrder(q, sweep, LogicalNow)
          \/ \E o \in Orders \ DOMAIN orders : InsertOrder(o, q, sweep, LogicalNow)
    BY <1>1 DEF CreateOrder
  <2>2. CASE \/ ReplayOrder(q, sweep, LogicalNow)
             \/ RefuseOrder(q, sweep, LogicalNow)
             \/ ExhaustOrder(q, sweep, LogicalNow)
    <3>1. PICK S : Expire(S, LogicalNow)
      BY <2>2 DEF ReplayOrder, RefuseOrder, ExhaustOrder
    <3>2. QED
      BY <3>1, ExpireRecorded
  <2>3. QED
    BY <2>1, <2>2, InsertRecorded
<1>2. ASSUME NEW o \in DOMAIN orders, ReadOrder(o) PROVE CheckoutsRecorded
  BY <1>2, ExpireRecorded DEF ReadOrder
<1>3. ASSUME NEW o \in DOMAIN orders, CloseOrder(o) PROVE CheckoutsRecorded
  <2>1. CASE orders[o].checkout = "OPEN" /\ orders[o].expires > LogicalNow
    <3> DEFINE x == [type |-> "CHECKOUT_CLOSED", at |-> LogicalNow]
    <3>1. /\ orders' = [orders EXCEPT ![o] = ClosedRow(orders[o], LogicalNow)]
          /\ events' = [events EXCEPT ![o] = Append(events[o], x)]
      BY <1>3, <2>1 DEF CloseOrder
    <3>2. x.type \notin PaymentEvents
      BY DEF PaymentEvents
    <3> HIDE DEF x
    <3>3. /\ \A p \in DOMAIN orders : p # o => orders'[p] = orders[p] /\ events'[p] = events[p]
          /\ orders'[o] = ClosedRow(orders[o], LogicalNow) /\ events'[o] = Append(events[o], x)
          /\ DOMAIN orders' = DOMAIN orders
      BY <3>1 DEF RestTyped
    <3>4. orders'[o].version = orders[o].version + 1
      BY <3>3 DEF ClosedRow, RowsTyped, Row
    <3>5. QED
      BY <3>2, <3>3, <3>4 DEF CheckoutsRecorded, CheckoutRecorded
  <2>2. CASE ~(orders[o].checkout = "OPEN" /\ orders[o].expires > LogicalNow)
    BY <1>3, <2>2, ExpireRecorded DEF CloseOrder
  <2>3. QED
    BY <2>1, <2>2
<1>4. ASSUME NEW o \in DOMAIN orders, PublicCheckout(o) PROVE CheckoutsRecorded
  BY <1>4, ExpireRecorded, NothingRecorded DEF PublicCheckout
<1>5. ASSUME AdminOrderPage PROVE CheckoutsRecorded
  BY <1>5, ExpireRecorded DEF AdminOrderPage
<1>6. CASE Tick \/ SetBack \/ UNCHANGED vars
  BY <1>6, NothingRecorded DEF Tick, SetBack, vars
<1>7. QED
  BY <1>1, <1>2, <1>3, <1>4, <1>5, <1>6 DEF Next

(* A payment is recorded with the version it makes.                        *)
PaymentRecorded(key, o, type) ==
    /\ outbox' = outbox \cup {NewOutboxEvent(key, o, orders[o].version + 1, type)}
    /\ \E x : x.type = type /\ events'[o] = Append(events[o], x)
    /\ orders'[o].version = orders[o].version + 1
    /\ DOMAIN orders' = DOMAIN orders
    /\ \A p \in DOMAIN orders : p # o => orders'[p] = orders[p] /\ events'[p] = events[p]

LEMMA RecordPaymentRecords ==
    ASSUME RestTyped, RowsTyped, NEW key, NEW o \in DOMAIN orders, NEW status, NEW basis,
           NEW amount, NEW type, NEW now, RecordPayment(key, o, status, basis, amount, type, now)
    PROVE  PaymentRecorded(key, o, type)
<1> DEFINE x == [type |-> type, at |-> now]
<1>1. events' = [events EXCEPT ![o] = Append(events[o], x)]
  BY DEF RecordPayment
<1>2. x.type = type
  OBVIOUS
<1> HIDE DEF x
<1>3. /\ events'[o] = Append(events[o], x)
      /\ \A p \in DOMAIN orders : p # o => events'[p] = events[p]
  BY <1>1 DEF RestTyped
<1>4. /\ orders'[o].version = orders[o].version + 1
      /\ DOMAIN orders' = DOMAIN orders
      /\ \A p \in DOMAIN orders : p # o => orders'[p] = orders[p]
  BY PaymentFacts
<1>5. outbox' = outbox \cup {NewOutboxEvent(key, o, orders[o].version + 1, type)}
  BY DEF RecordPayment, NewOutboxEvent
<1>6. QED
  BY <1>2, <1>3, <1>4, <1>5 DEF PaymentRecorded

LEMMA SettlesRecords ==
    ASSUME SInv, NEW e, NEW o \in DOMAIN orders, NEW key, NEW evidence, NEW basis,
           Settles(key, e, o, evidence, basis)
    PROVE  PaymentRecorded(key, o, "PAYMENT_CONFIRMED")
<1>1. RestTyped /\ RowsTyped
  BY DEF SInv, RInv, IInv
<1>2. RecordPayment(key, o, "CONFIRMED", basis, entries[e].report.amount, "PAYMENT_CONFIRMED",
                    LogicalNow)
  BY DEF Settles, WriteSettlement
<1>3. QED
  BY <1>1, <1>2, RecordPaymentRecords

LEMMA ReversesRecords ==
    ASSUME SInv, NEW d, NEW m \in matches, Reverses(d, m)
    PROVE  PaymentRecorded(AdminKey(d), m.order, "PAYMENT_DISPUTED")
<1>1. RestTyped /\ RowsTyped /\ m.order \in DOMAIN orders
  BY DEF SInv, RInv, IInv, MatchRows
<1>2. RecordPayment(AdminKey(d), m.order, "DISPUTED", orders[m.order].basis,
                    orders[m.order].received, "PAYMENT_DISPUTED", LogicalNow)
  BY DEF Reverses
<1>3. QED
  BY <1>1, <1>2, RecordPaymentRecords

(* Every step either books nothing and records at most the end of a        *)
(* checkout, or books and records one payment.                             *)
Paying(key, type, e, o, match) ==
    /\ Books(key, type, e, o, match)
    /\ type \in {"AUTO_SETTLEMENT", "MANUAL_SETTLEMENT", "REVERSE_SETTLEMENT"}
    /\ PaymentRecorded(key, o, PaymentEventType(type))

LEMMA RecordKinds ==
    ASSUME OInv, [RNext]_rvars
    PROVE  \/ NothingBooked /\ CheckoutsRecorded
           \/ \E key, type, match : \E e \in DOMAIN entries, o \in DOMAIN orders :
                 Paying(key, type, e, o, match)
<1>1. CInv /\ SInv /\ RInv /\ RestTyped /\ RowsTyped
  BY DEF OInv, CInv, SInv, RInv, IInv
<1>2. CASE Quiet
  <2>1. NothingBooked
    BY <1>2, QuietBooksNothing
  <2>2. CheckoutsRecorded
    <3>1. CASE OrderStep
      BY <1>1, <3>1, OrderStoreRecords DEF OrderStep
    <3>2. CASE UNCHANGED <<orders, events>>
      BY <3>2, NothingRecorded
    <3>3. ASSUME NEW e \in DOMAIN entries, NEW o \in DOMAIN orders, AutoSettles(e, o)
          PROVE  FALSE
      <4>1. AutoSettling(e, o)
        BY <1>1, <3>3, AutoSettlesIsAutoSettling
      <4>2. Settles(AutoKey(e, o), e, o, "AMOUNT_INFERRED", "INFERRED")
        BY <4>1 DEF AutoSettling, Settling
      <4>3. entries'[e].state = "ALLOCATED" /\ entries[e].state # "ALLOCATED"
        BY <1>1, <4>2, SettlesFacts
      <4>4. QED
        BY <1>2, <4>3 DEF Quiet, EntriesOnly
    <3>4. ASSUME NEW d \in Decisions, NEW e \in DOMAIN entries, NEW o \in DOMAIN orders,
                 ManuallySettles(d, e, o)
          PROVE  FALSE
      <4>1. HandSettling(d, e, o)
        BY <3>4, ManuallySettlesIsHandSettling
      <4>2. Settles(AdminKey(d), e, o, "MANUAL", "MANUAL")
        BY <4>1 DEF HandSettling, Settling
      <4>3. entries'[e].state = "ALLOCATED" /\ entries[e].state # "ALLOCATED"
        BY <1>1, <4>2, SettlesFacts
      <4>4. QED
        BY <1>2, <4>3 DEF Quiet, EntriesOnly
    <3>5. ASSUME NEW d \in Decisions, NEW m \in matches, Reverses(d, m)
          PROVE  FALSE
      <4>1. /\ m.entry \in DOMAIN entries /\ entries'[m.entry].state = "CONFLICT"
            /\ entries[m.entry].state = "ALLOCATED"
        BY <1>1, <3>5, ReversesFacts
      <4>2. QED
        BY <1>2, <4>1 DEF Quiet, EntriesOnly
    <3>6. \/ OrderStep
          \/ UNCHANGED <<orders, events>>
          \/ \E e \in DOMAIN entries, o \in DOMAIN orders : AutoSettles(e, o)
          \/ \E d \in Decisions, e \in DOMAIN entries, o \in DOMAIN orders :
                ManuallySettles(d, e, o)
          \/ \E d \in Decisions, m \in matches : Reverses(d, m)
      <4>1. ASSUME NEW e \in DOMAIN entries, ReconcileEntry(e)
            PROVE  \/ UNCHANGED <<orders, events>>
                   \/ \E o \in DOMAIN orders : AutoSettles(e, o)
        BY <4>1 DEF ReconcileEntry, AutoSettles, KeepOrders, LeaveUnmatched, LeaveAmbiguous
      <4>2. ASSUME NEW d \in Decisions, NEW e \in DOMAIN entries, NEW o \in DOMAIN orders,
                   SettleManually(d, e, o)
            PROVE  UNCHANGED <<orders, events>> \/ ManuallySettles(d, e, o)
        BY <4>2 DEF SettleManually, ManuallySettles, KeepOrders
      <4>3. ASSUME NEW d \in Decisions, NEW m \in matches, ReverseSettlement(d, m)
            PROVE  UNCHANGED <<orders, events>> \/ Reverses(d, m)
        BY <4>3 DEF ReverseSettlement, Reverses, KeepOrders
      <4>4. ASSUME NEW e \in Entries \ DOMAIN entries, NEW s \in Statements, RecordEntry(e, s)
            PROVE  UNCHANGED <<orders, events>>
        BY <4>4 DEF RecordEntry, vars
      <4>5. ASSUME NEW e \in DOMAIN entries, FindConflict(e) \/ ResolveConflict(e)
            PROVE  UNCHANGED <<orders, events>>
        BY <4>5 DEF FindConflict, ResolveConflict, vars
      <4>6. CASE UNCHANGED rvars
        BY <4>6 DEF rvars, vars
      <4>7. QED
        BY <4>1, <4>2, <4>3, <4>4, <4>5, <4>6 DEF RNext
    <3>7. QED
      BY <3>1, <3>2, <3>3, <3>4, <3>5, <3>6
  <2>3. QED
    BY <2>1, <2>2
<1>3. ASSUME NEW e \in DOMAIN entries, Leaving(e) PROVE NothingBooked /\ CheckoutsRecorded
  BY <1>3, LeavingBooksNothing, NothingRecorded DEF Leaving
<1>4. ASSUME NEW e \in DOMAIN entries, NEW o \in DOMAIN orders, AutoSettling(e, o)
      PROVE  Paying(AutoKey(e, o), "AUTO_SETTLEMENT", e, o, AutoKey(e, o))
  <2>1. Settles(AutoKey(e, o), e, o, "AMOUNT_INFERRED", "INFERRED")
    BY <1>4 DEF AutoSettling, Settling
  <2>2. Books(AutoKey(e, o), "AUTO_SETTLEMENT", e, o, AutoKey(e, o))
    BY <1>4, SettlingBooks DEF AutoSettling
  <2>3. PaymentRecorded(AutoKey(e, o), o, "PAYMENT_CONFIRMED")
    BY <1>1, <2>1, SettlesRecords
  <2>4. QED
    BY <2>2, <2>3 DEF Paying, PaymentEventType
<1>5. ASSUME NEW d \in Decisions, NEW e \in DOMAIN entries, NEW o \in DOMAIN orders,
             HandSettling(d, e, o)
      PROVE  Paying(AdminKey(d), "MANUAL_SETTLEMENT", e, o, AdminKey(d))
  <2>1. Settles(AdminKey(d), e, o, "MANUAL", "MANUAL")
    BY <1>5 DEF HandSettling, Settling
  <2>2. Books(AdminKey(d), "MANUAL_SETTLEMENT", e, o, AdminKey(d))
    BY <1>5, SettlingBooks DEF HandSettling
  <2>3. PaymentRecorded(AdminKey(d), o, "PAYMENT_CONFIRMED")
    BY <1>1, <2>1, SettlesRecords
  <2>4. QED
    BY <2>2, <2>3 DEF Paying, PaymentEventType
<1>6. ASSUME NEW d \in Decisions, NEW m \in matches, Reverses(d, m)
      PROVE  /\ m.entry \in DOMAIN entries /\ m.order \in DOMAIN orders
             /\ Paying(AdminKey(d), "REVERSE_SETTLEMENT", m.entry, m.order, m.operation)
  <2>1. Books(AdminKey(d), "REVERSE_SETTLEMENT", m.entry, m.order, m.operation)
    BY <1>6, ReversesBooks
  <2>2. PaymentRecorded(AdminKey(d), m.order, "PAYMENT_DISPUTED")
    BY <1>1, <1>6, ReversesRecords
  <2>3. m.entry \in DOMAIN entries /\ m.order \in DOMAIN orders
    BY <1>1 DEF SInv, MatchRows
  <2>4. QED
    BY <2>1, <2>2, <2>3 DEF Paying, PaymentEventType
<1>7. QED
  BY <1>1, <1>2, <1>3, <1>4, <1>5, <1>6, BookKinds, QuietBooksNothing

(* The outbox and the payment events of the orders correspond one to one.  *)
OutboxRow(x) ==
    /\ OutboxAccepted(x)
    /\ operations[x.operation].type # "SUPERSEDE_CANDIDATE"
    /\ x.type = PaymentEventType(operations[x.operation].type)
    /\ x.version \in 1..Len(events[x.order])
    /\ events[x.order][x.version].type = x.type

OutboxKept ==
    /\ \A x \in outbox : OutboxRow(x)
    /\ \A x, y \in outbox :
          x.operation = y.operation \/ (x.order = y.order /\ x.version = y.version) => x = y
    /\ \A k \in DOMAIN operations :
          operations[k].type # "SUPERSEDE_CANDIDATE" => \E x \in outbox : x.operation = k
    /\ \A o \in DOMAIN orders : \A i \in 1..Len(events[o]) :
          events[o][i].type \in PaymentEvents => \E x \in outbox : x.order = o /\ x.version = i

VInv == BInv /\ OrderEventsAccepted /\ OutboxKept

LEMMA EventsAreSequences ==
    ASSUME OInv PROVE \A o \in DOMAIN orders : events[o] \in Seq(Event) /\ orders[o].version \in Nat
BY DEF OInv, CInv, SInv, RInv, IInv, RestTyped, RowsTyped, Row

LEMMA Appended ==
    ASSUME NEW S, NEW s \in Seq(S), NEW t, NEW x, t = Append(s, x)
    PROVE  /\ Len(t) = Len(s) + 1 /\ Len(s) \in Nat
           /\ \A i \in 1..Len(s) : t[i] = s[i]
           /\ t[Len(s) + 1] = x
<1> DEFINE T == S \cup {x}
<1>1. s \in Seq(T) /\ x \in T
  OBVIOUS
<1> HIDE DEF T
<1>2. QED
  BY <1>1

(* An event that a step does not add is one there was.                     *)
EventsKeep(o) ==
    /\ o \in DOMAIN orders' /\ Len(events[o]) \in Nat /\ Len(events'[o]) \in Nat
    /\ Len(events[o]) <= Len(events'[o])
    /\ \A i \in 1..Len(events[o]) : events'[o][i] = events[o][i]

LEMMA CheckoutsKeepEvents ==
    ASSUME OInv, FixedColumns, OrderEventsAccepted, CheckoutsRecorded
    PROVE  /\ OrderEventsAccepted'
           /\ \A o \in DOMAIN orders : EventsKeep(o)
           /\ \A o \in DOMAIN orders' : \A i \in 1..Len(events'[o]) :
                 events'[o][i].type \in PaymentEvents =>
                    o \in DOMAIN orders /\ i \in 1..Len(events[o])
<1>1. ASSUME NEW o \in DOMAIN orders
      PROVE  /\ Len(events'[o]) = orders'[o].version
             /\ EventsKeep(o)
             /\ \A i \in 1..Len(events'[o]) :
                   events'[o][i].type \in PaymentEvents => i \in 1..Len(events[o])
  <2>1. events[o] \in Seq(Event) /\ Len(events[o]) = orders[o].version /\ o \in DOMAIN orders'
    BY EventsAreSequences DEF OrderEventsAccepted, FixedColumns
  <2>2. CASE events'[o] = events[o] /\ orders'[o].version = orders[o].version
    BY <2>1, <2>2 DEF EventsKeep
  <2>3. ASSUME NEW x, x.type \notin PaymentEvents, events'[o] = Append(events[o], x),
               orders'[o].version = orders[o].version + 1
        PROVE  /\ Len(events'[o]) = orders'[o].version
               /\ EventsKeep(o)
               /\ \A i \in 1..Len(events'[o]) :
                     events'[o][i].type \in PaymentEvents => i \in 1..Len(events[o])
    <3>1. /\ Len(events'[o]) = Len(events[o]) + 1 /\ Len(events[o]) \in Nat
          /\ \A i \in 1..Len(events[o]) : events'[o][i] = events[o][i]
          /\ events'[o][Len(events[o]) + 1] = x
      BY <2>1, <2>3, Appended
    <3>2. QED
      BY <2>1, <2>3, <3>1 DEF EventsKeep
  <2>4. CheckoutRecorded(o)
    BY DEF CheckoutsRecorded
  <2>5. QED
    BY <2>2, <2>3, <2>4 DEF CheckoutRecorded
<1>2. ASSUME NEW o \in DOMAIN orders' \ DOMAIN orders
      PROVE  /\ Len(events'[o]) = orders'[o].version
             /\ \A i \in 1..Len(events'[o]) : events'[o][i].type \notin PaymentEvents
  <2>1. PICK x : x.type \notin PaymentEvents /\ events'[o] = <<x>> /\ orders'[o].version = 1
    BY DEF CheckoutsRecorded, CreationRecorded
  <2>2. Len(events'[o]) = 1 /\ events'[o][1] = x
    BY <2>1
  <2>3. QED
    BY <2>1, <2>2
<1>3. OrderEventsAccepted'
  BY <1>1, <1>2 DEF OrderEventsAccepted
<1>4. QED
  BY <1>1, <1>2, <1>3

LEMMA PaymentKeepsEvents ==
    ASSUME OInv, OrderEventsAccepted, NEW key, NEW o \in DOMAIN orders, NEW type,
           PaymentRecorded(key, o, type)
    PROVE  /\ OrderEventsAccepted'
           /\ \A p \in DOMAIN orders : EventsKeep(p)
           /\ DOMAIN orders' = DOMAIN orders
           /\ Len(events'[o]) = orders[o].version + 1
           /\ events'[o][orders[o].version + 1].type = type
           /\ Len(events[o]) = orders[o].version /\ orders[o].version \in Nat
           /\ \A p \in DOMAIN orders : p # o => events'[p] = events[p]
<1>1. PICK x : x.type = type /\ events'[o] = Append(events[o], x)
  BY DEF PaymentRecorded
<1>2. /\ orders'[o].version = orders[o].version + 1
      /\ DOMAIN orders' = DOMAIN orders
      /\ \A p \in DOMAIN orders : p # o => orders'[p] = orders[p] /\ events'[p] = events[p]
  BY DEF PaymentRecorded
<1>3. events[o] \in Seq(Event) /\ Len(events[o]) = orders[o].version
  BY EventsAreSequences DEF OrderEventsAccepted
<1>4. /\ Len(events'[o]) = Len(events[o]) + 1 /\ Len(events[o]) \in Nat
      /\ \A i \in 1..Len(events[o]) : events'[o][i] = events[o][i]
      /\ events'[o][Len(events[o]) + 1] = x
  BY <1>1, <1>3, Appended
<1>5. ASSUME NEW p \in DOMAIN orders, p # o
      PROVE  EventsKeep(p) /\ Len(events'[p]) = orders'[p].version
  <2>1. events'[p] = events[p] /\ orders'[p] = orders[p]
    BY <1>2, <1>5
  <2>2. events[p] \in Seq(Event) /\ Len(events[p]) = orders[p].version
    BY EventsAreSequences DEF OrderEventsAccepted
  <2>3. QED
    BY <1>2, <2>1, <2>2 DEF EventsKeep
<1>6. EventsKeep(o) /\ Len(events'[o]) = orders'[o].version
  BY <1>2, <1>3, <1>4 DEF EventsKeep
<1>7. OrderEventsAccepted'
  BY <1>2, <1>5, <1>6 DEF OrderEventsAccepted
<1>8. QED
  BY <1>1, <1>2, <1>3, <1>4, <1>5, <1>6, <1>7

LEMMA OutboxRowKept ==
    ASSUME VInv, OperationsKept, \A o \in DOMAIN orders : EventsKeep(o), NEW x \in outbox
    PROVE  OutboxRow(x)'
<1>1. OutboxRow(x)
  BY DEF VInv, OutboxKept
<1>2. x.order \in DOMAIN orders /\ x.operation \in DOMAIN operations
  BY <1>1 DEF OutboxRow, OutboxAccepted
<1>3. /\ x.operation \in DOMAIN operations'
      /\ operations'[x.operation] = operations[x.operation]
  BY <1>2 DEF OperationsKept
<1>4. x.order \in DOMAIN orders' /\ x.version \in 1..Len(events'[x.order])
      /\ events'[x.order][x.version] = events[x.order][x.version]
  BY <1>1, <1>2 DEF OutboxRow, EventsKeep
<1>5. QED
  BY <1>1, <1>3, <1>4 DEF OutboxRow, OutboxAccepted

LEMMA CheckoutsKeepOutbox ==
    ASSUME VInv, NothingBooked, CheckoutsRecorded PROVE OutboxKept' /\ OrderEventsAccepted'
<1>1. OInv /\ OperationsKept /\ FixedColumns /\ OrderEventsAccepted /\ outbox' = outbox
  BY DEF NothingBooked, VInv, BInv
<1>2. /\ OrderEventsAccepted'
      /\ \A o \in DOMAIN orders : EventsKeep(o)
      /\ \A o \in DOMAIN orders' : \A i \in 1..Len(events'[o]) :
            events'[o][i].type \in PaymentEvents =>
               o \in DOMAIN orders /\ i \in 1..Len(events[o])
  BY <1>1, CheckoutsKeepEvents
<1>3. \A x \in outbox : OutboxRow(x)'
  BY <1>1, <1>2, OutboxRowKept
<1>4. \A k \in DOMAIN operations' :
         operations'[k].type # "SUPERSEDE_CANDIDATE" => \E x \in outbox : x.operation = k
  BY <1>1 DEF NothingBooked, OperationsKept, VInv, OutboxKept
<1>5. ASSUME NEW o \in DOMAIN orders', NEW i \in 1..Len(events'[o]),
             events'[o][i].type \in PaymentEvents
      PROVE  \E x \in outbox : x.order = o /\ x.version = i
  <2>1. o \in DOMAIN orders /\ i \in 1..Len(events[o])
    BY <1>2, <1>5
  <2>2. events'[o][i] = events[o][i]
    BY <1>2, <2>1 DEF EventsKeep
  <2>3. QED
    BY <1>5, <2>1, <2>2 DEF VInv, OutboxKept
<1>6. \A x, y \in outbox :
         x.operation = y.operation \/ (x.order = y.order /\ x.version = y.version) => x = y
  BY DEF VInv, OutboxKept
<1>7. QED
  BY <1>1, <1>2, <1>3, <1>4, <1>5, <1>6 DEF OutboxKept

LEMMA PayingKeepsOutbox ==
    ASSUME VInv, NEW key, NEW type, NEW match, NEW e \in DOMAIN entries, NEW o \in DOMAIN orders,
           Paying(key, type, e, o, match)
    PROVE  OutboxKept' /\ OrderEventsAccepted'
<1> DEFINE v == orders[o].version + 1
<1>0. PICK new : new = NewOutboxEvent(key, o, v, PaymentEventType(type))
  OBVIOUS
<1>1. /\ Books(key, type, e, o, match)
      /\ type \in {"AUTO_SETTLEMENT", "MANUAL_SETTLEMENT", "REVERSE_SETTLEMENT"}
      /\ PaymentRecorded(key, o, PaymentEventType(type))
  BY DEF Paying
<1>2. OInv /\ OrderEventsAccepted /\ OperationsKept
  BY <1>1 DEF Books, VInv, BInv
<1>3. /\ OrderEventsAccepted'
      /\ \A p \in DOMAIN orders : EventsKeep(p)
      /\ DOMAIN orders' = DOMAIN orders
      /\ Len(events'[o]) = v
      /\ events'[o][v].type = PaymentEventType(type)
      /\ Len(events[o]) = orders[o].version /\ orders[o].version \in Nat
      /\ \A p \in DOMAIN orders : p # o => events'[p] = events[p]
  BY <1>1, <1>2, PaymentKeepsEvents
<1>4. outbox' = outbox \cup {new}
  BY <1>0, <1>1 DEF PaymentRecorded
<1>5. /\ new.operation = key /\ new.order = o /\ new.version = v
      /\ new.type = PaymentEventType(type)
  BY <1>0 DEF NewOutboxEvent
<1>6. /\ key \in DOMAIN operations' \ DOMAIN operations
      /\ operations'[key].type = type /\ operations'[key].order = o
      /\ \A k \in DOMAIN operations' \ DOMAIN operations :
            k # key => operations'[k].type = "SUPERSEDE_CANDIDATE"
  BY <1>1 DEF Books, OperationRow
<1>7. OutboxRow(new)'
  BY <1>1, <1>3, <1>5, <1>6 DEF OutboxRow, OutboxAccepted
<1>8. \A x \in outbox : OutboxRow(x)'
  BY <1>2, <1>3, OutboxRowKept
<1>9. \A x \in outbox : /\ x.operation # key
                        /\ x.order = o => x.version # v
  <2>1. \A x \in outbox : OutboxRow(x)
    BY DEF VInv, OutboxKept
  <2>2. QED
    BY <1>3, <1>6, <2>1 DEF OutboxRow, OutboxAccepted
<1>10. \A x, y \in outbox' :
          x.operation = y.operation \/ (x.order = y.order /\ x.version = y.version) => x = y
  BY <1>4, <1>5, <1>9 DEF VInv, OutboxKept
<1>11. \A k \in DOMAIN operations' :
          operations'[k].type # "SUPERSEDE_CANDIDATE" => \E x \in outbox' : x.operation = k
  BY <1>2, <1>4, <1>5, <1>6 DEF OperationsKept, VInv, OutboxKept
<1>12. ASSUME NEW p \in DOMAIN orders', NEW i \in 1..Len(events'[p]),
              events'[p][i].type \in PaymentEvents
       PROVE  \E x \in outbox' : x.order = p /\ x.version = i
  <2>1. CASE p = o /\ i = v
    BY <1>4, <1>5, <2>1
  <2>2. CASE ~(p = o /\ i = v)
    <3>1. p \in DOMAIN orders /\ i \in 1..Len(events[p])
      BY <1>3, <2>2
    <3>2. events'[p][i] = events[p][i]
      BY <1>3, <3>1 DEF EventsKeep
    <3>3. QED
      BY <1>4, <1>12, <3>1, <3>2 DEF VInv, OutboxKept
  <2>3. QED
    BY <2>1, <2>2
<1>13. \A x \in outbox' : OutboxRow(x)'
  BY <1>4, <1>7, <1>8
<1>14. QED
  BY <1>3, <1>10, <1>11, <1>12, <1>13 DEF OutboxKept

LEMMA InitVInv == RInit => VInv
<1> SUFFICES ASSUME RInit PROVE VInv
  OBVIOUS
<1>1. BInv /\ DOMAIN operations = {} /\ outbox = {} /\ DOMAIN orders = {}
  BY InitBInv DEF RInit, Init
<1>2. QED
  BY <1>1 DEF VInv, OutboxKept, OrderEventsAccepted

LEMMA StepVInv == VInv /\ [RNext]_rvars => VInv'
<1> SUFFICES ASSUME VInv, [RNext]_rvars PROVE (OutboxKept /\ OrderEventsAccepted)'
  BY StepBInv DEF VInv
<1>1. OInv
  BY DEF VInv, BInv
<1>2. QED
  BY <1>1, RecordKinds, CheckoutsKeepOutbox, PayingKeepsOutbox

LEMMA VInvariance == RSpec => []VInv
BY InitVInv, StepVInv, PTL DEF RSpec

LEMMA OutboxKeptFollows ==
    ASSUME VInv PROVE OutboxFollowsOrders
<1> SUFFICES ASSUME NEW o \in DOMAIN orders
             PROVE  LET sent == {x \in outbox : x.order = o}
                    IN  /\ {<<x.version, x.type>> : x \in sent} =
                             {<<i, events[o][i].type>> :
                                 i \in {j \in DOMAIN events[o] :
                                          events[o][j].type \in PaymentEvents}}
                        /\ \A x, y \in sent : x.version = y.version => x = y
  BY DEF OutboxFollowsOrders, PaymentEvents
<1> DEFINE sent == {x \in outbox : x.order = o}
           paid == {j \in DOMAIN events[o] : events[o][j].type \in PaymentEvents}
<1>1. events[o] \in Seq(Event)
  BY EventsAreSequences DEF VInv, BInv
<1>2. DOMAIN events[o] = 1..Len(events[o])
  BY <1>1
<1>3. ASSUME NEW x \in sent
      PROVE  x.version \in paid /\ x.type = events[o][x.version].type
  <2>1. OutboxRow(x)
    BY DEF VInv, OutboxKept
  <2>2. QED
    BY <1>2, <2>1 DEF OutboxRow, PaymentEventType, PaymentEvents
<1>4. ASSUME NEW i \in paid
      PROVE  \E x \in sent : x.version = i /\ x.type = events[o][i].type
  <2>1. PICK x \in outbox : x.order = o /\ x.version = i
    BY <1>2 DEF VInv, OutboxKept
  <2>2. QED
    BY <1>3, <2>1
<1>5. {<<x.version, x.type>> : x \in sent} = {<<i, events[o][i].type>> : i \in paid}
  <2> HIDE DEF sent, paid
  <2>1. QED
    BY <1>3, <1>4
<1>6. \A x, y \in sent : x.version = y.version => x = y
  BY DEF VInv, OutboxKept
<1>7. QED
  BY <1>5, <1>6

(* The outbox always carries one event for every payment event of an order *)
(* and no other, under the version the order had after it: a receiver that *)
(* keeps the highest version it has seen never takes an older payment      *)
(* state for the current one (insertOutboxEvent, updateOrderPayment).      *)
THEOREM OutboxAlwaysFollows == RSpec => []OutboxFollowsOrders
BY VInvariance, OutboxKeptFollows, PTL

-----------------------------------------------------------------------------
(* The generations of the slots.                                           *)

Earlier(o) == {p \in SlotsAt(orders[o].account, orders[o].payable) :
                  orders[p].generation < orders[o].generation}

GenerationsCount ==
    \A o \in DOMAIN orders : orders[o].generation = Cardinality(Earlier(o)) + 1

EarlierReleased ==
    \A o \in DOMAIN orders : \A p \in Earlier(o) :
        orders[p].released # NoTime /\ orders[p].released <= orders[o].created

ReleasedByNow == \A o \in DOMAIN orders : orders[o].released <= clock

GInv == /\ RInv
        /\ IsFiniteSet(DOMAIN orders)
        /\ ReleasedByNow
        /\ GenerationsCount
        /\ EarlierReleased

(* A step of the reconciliation, seen from the slots.                      *)
SlotsStay ==
    /\ clock <= clock' /\ clock' \in Nat
    /\ DOMAIN orders' = DOMAIN orders
    /\ \A o \in DOMAIN orders : /\ orders'[o].account = orders[o].account
                                /\ orders'[o].payable = orders[o].payable
                                /\ orders'[o].generation = orders[o].generation
                                /\ orders'[o].created = orders[o].created
                                /\ orders'[o].released = orders[o].released

LEMMA SlotsStayWhenKept ==
    ASSUME RestTyped, orders' = orders, clock' = clock \/ AdvanceClock PROVE SlotsStay
BY LogicalNowType DEF SlotsStay, AdvanceClock, RestTyped

LEMMA SlotsStayWhenPaid ==
    ASSUME RestTyped, RowsTyped, AdvanceClock, NEW key, NEW o \in DOMAIN orders, NEW status,
           NEW basis, NEW amount, NEW type, NEW now,
           RecordPayment(key, o, status, basis, amount, type, now)
    PROVE  SlotsStay
<1>1. clock' = LogicalNow /\ clock <= clock' /\ clock' \in Nat
  BY LogicalNowType DEF AdvanceClock
<1>2. orders' = [orders EXCEPT ![o] = PaidRow(orders[o], status, basis, amount, now)]
  BY DEF RecordPayment
<1>3. orders[o] \in Row
  BY DEF RowsTyped
<1>4. LET s == PaidRow(orders[o], status, basis, amount, now)
      IN  /\ s.account = orders[o].account /\ s.payable = orders[o].payable
          /\ s.generation = orders[o].generation /\ s.created = orders[o].created
          /\ s.released = orders[o].released
  BY <1>3 DEF PaidRow, Row
<1> DEFINE s == PaidRow(orders[o], status, basis, amount, now)
<1>5. orders' = [orders EXCEPT ![o] = s]
  BY <1>2
<1>6. /\ s.account = orders[o].account /\ s.payable = orders[o].payable
      /\ s.generation = orders[o].generation /\ s.created = orders[o].created
      /\ s.released = orders[o].released
  BY <1>4
<1> HIDE DEF s
<1>7. QED
  BY <1>1, <1>5, <1>6 DEF SlotsStay

LEMMA SlotKinds ==
    ASSUME SInv, [RNext]_rvars PROVE [Next]_vars \/ SlotsStay
<1>1. RestTyped /\ RowsTyped
  BY DEF SInv, RInv, IInv
<1>2. CASE OrderStep
  BY <1>2 DEF OrderStep
<1>3. CASE UNCHANGED rvars
  BY <1>3 DEF rvars
<1>4. ASSUME NEW e \in Entries \ DOMAIN entries, NEW s \in Statements, RecordEntry(e, s)
      PROVE  SlotsStay
  BY <1>1, <1>4, SlotsStayWhenKept DEF RecordEntry, vars
<1>5. ASSUME NEW e \in DOMAIN entries, FindConflict(e) \/ ResolveConflict(e)
      PROVE  SlotsStay
  BY <1>1, <1>5, SlotsStayWhenKept DEF FindConflict, ResolveConflict, vars
<1>6. ASSUME NEW e \in DOMAIN entries, ReconcileEntry(e) PROVE SlotsStay
  <2>1. AdvanceClock
    BY <1>6 DEF ReconcileEntry
  <2>2. ASSUME NEW o \in DOMAIN orders, AutoSettle(e, o, LogicalNow) PROVE SlotsStay
    <3>1. RecordPayment(AutoKey(e, o), o, "CONFIRMED", "INFERRED", entries[e].report.amount,
                        "PAYMENT_CONFIRMED", LogicalNow)
      BY <2>2 DEF AutoSettle, WriteSettlement
    <3>2. QED
      BY <1>1, <2>1, <3>1, SlotsStayWhenPaid
  <2>3. CASE orders' = orders
    BY <1>1, <2>1, <2>3, SlotsStayWhenKept
  <2>4. QED
    BY <1>6, <2>2, <2>3 DEF ReconcileEntry, LeaveUnmatched, LeaveAmbiguous, KeepOrders
<1>7. ASSUME NEW d \in Decisions, NEW e \in DOMAIN entries, NEW o \in DOMAIN orders,
             SettleManually(d, e, o)
      PROVE  SlotsStay
  <2>1. AdvanceClock
    BY <1>7 DEF SettleManually
  <2>2. CASE RecordPayment(AdminKey(d), o, "CONFIRMED", "MANUAL", entries[e].report.amount,
                           "PAYMENT_CONFIRMED", LogicalNow)
    BY <1>1, <2>1, <2>2, SlotsStayWhenPaid
  <2>3. CASE orders' = orders
    BY <1>1, <2>1, <2>3, SlotsStayWhenKept
  <2>4. QED
    BY <1>7, <2>2, <2>3 DEF SettleManually, WriteSettlement, KeepOrders
<1>8. ASSUME NEW d \in Decisions, NEW m \in matches, ReverseSettlement(d, m)
      PROVE  SlotsStay
  <2>1. AdvanceClock /\ m.order \in DOMAIN orders
    BY <1>8 DEF ReverseSettlement, SInv, MatchRows
  <2>2. CASE RecordPayment(AdminKey(d), m.order, "DISPUTED", orders[m.order].basis,
                           orders[m.order].received, "PAYMENT_DISPUTED", LogicalNow)
    BY <1>1, <2>1, <2>2, SlotsStayWhenPaid
  <2>3. CASE orders' = orders
    BY <1>1, <2>1, <2>3, SlotsStayWhenKept
  <2>4. QED
    BY <1>8, <2>2, <2>3 DEF ReverseSettlement, KeepOrders
<1>9. QED
  BY <1>2, <1>3, <1>4, <1>5, <1>6, <1>7, <1>8 DEF RNext

LEMMA SlotsStayKeeps ==
    ASSUME GInv, SlotsStay
    PROVE  (ReleasedByNow /\ GenerationsCount /\ EarlierReleased)' /\ IsFiniteSet(DOMAIN orders')
<1>1. \A o \in DOMAIN orders : /\ orders'[o].account = orders[o].account
                               /\ orders'[o].payable = orders[o].payable
                               /\ orders'[o].generation = orders[o].generation
                               /\ orders'[o].created = orders[o].created
                               /\ orders'[o].released = orders[o].released
  BY DEF SlotsStay
<1>2. DOMAIN orders' = DOMAIN orders /\ clock <= clock' /\ clock \in Nat /\ clock' \in Nat
  BY DEF SlotsStay, GInv, RInv, IInv, RestTyped
<1>3. ASSUME NEW o \in DOMAIN orders
      PROVE  Earlier(o)' = Earlier(o) /\ orders[o].released \in Int
  <2>1. Earlier(o)' = Earlier(o)
    BY <1>1, <1>2 DEF Earlier, SlotsAt
  <2>2. QED
    BY <2>1, RowNumbers DEF GInv, RInv, IInv, RowsTyped
<1>4. GenerationsCount'
  BY <1>1, <1>2, <1>3 DEF GInv, GenerationsCount
<1>5. EarlierReleased'
  <2>1. \A o \in DOMAIN orders : Earlier(o) \subseteq DOMAIN orders
    BY DEF Earlier, SlotsAt
  <2>2. QED
    BY <1>1, <1>2, <1>3, <2>1 DEF GInv, EarlierReleased
<1>6. ReleasedByNow'
  BY <1>1, <1>2, <1>3 DEF GInv, ReleasedByNow
<1>7. QED
  BY <1>2, <1>4, <1>5, <1>6 DEF GInv

(* The earlier slots of an order have ended.                               *)
LEMMA EarlierHasEnded ==
    ASSUME IInv, NEW o \in DOMAIN orders, NEW p \in Earlier(o)
    PROVE  p \in DOMAIN orders /\ p # o /\ orders[p].checkout # "OPEN"
<1>1. /\ p \in DOMAIN orders /\ orders[p].account = orders[o].account
      /\ orders[p].payable = orders[o].payable
      /\ orders[p].generation < orders[o].generation
  BY DEF Earlier, SlotsAt
<1>2. orders[o].generation \in Nat /\ orders[p].generation \in Nat
  BY <1>1, RowNumbers DEF IInv, RowsTyped
<1>3. p # o
  BY <1>1, <1>2
<1>4. QED
  BY <1>1, <1>3 DEF IInv, PaymentWindowsSeparated

LEMMA EndedIsReleased ==
    ASSUME IInv, NEW o \in DOMAIN orders, orders[o].checkout # "OPEN"
    PROVE  orders[o].released \in Nat /\ orders[o].released # NoTime
<1>1. orders[o] \in Row
  BY DEF IInv, RowsTyped
<1>2. /\ orders[o].created \in Nat /\ orders[o].expires \in Nat
      /\ orders[o].closed \in Int /\ orders[o].released = orders[o].closed
      /\ orders[o].checkout \in {"CLOSED", "EXPIRED"}
  <2>1. orders[o].released = orders[o].closed
    BY DEF IInv, EndTimesConsistent
  <2>2. orders[o].checkout \in {"CLOSED", "EXPIRED"}
    BY <1>1 DEF Row, CheckoutStatuses
  <2>3. QED
    BY <1>1, <2>1, <2>2, RowNumbers
<1>3. orders[o].created <= orders[o].closed \/ orders[o].expires <= orders[o].closed
  BY <1>2 DEF IInv, EndTimesConsistent
<1>4. QED
  BY <1>2, <1>3 DEF NoTime

LEMMA ReleasedByStep ==
    ASSUME GInv, RowsStep, NEW o \in DOMAIN orders
    PROVE  orders'[o].released <= clock'
<1>1. orders[o] \in Row /\ clock \in Nat /\ clock' \in Nat /\ clock <= clock'
      /\ RowStep(orders[o], orders'[o], clock')
  BY DEF RowsStep, GInv, RInv, IInv, RowsTyped, RestTyped
<1>2. orders[o].released \in Int /\ orders[o].released <= clock
  BY <1>1, RowNumbers DEF GInv, ReleasedByNow
<1>3. orders'[o] = orders[o] \/ orders'[o].released = clock'
  BY <1>1, RowStepFacts
<1>4. QED
  BY <1>1, <1>2, <1>3

LEMMA UpdateKeepsGenerations ==
    ASSUME GInv, UpdateStep
    PROVE  (ReleasedByNow /\ GenerationsCount /\ EarlierReleased)' /\ IsFiniteSet(DOMAIN orders')
<1>1. IInv /\ RowsStep /\ DOMAIN orders' = DOMAIN orders
  BY DEF GInv, RInv, UpdateStep
<1>2. \A o \in DOMAIN orders :
               /\ orders'[o].account = orders[o].account
               /\ orders'[o].payable = orders[o].payable
               /\ orders'[o].generation = orders[o].generation
               /\ orders'[o].created = orders[o].created
               /\ orders[o].checkout # "OPEN" => orders'[o] = orders[o]
  BY <1>1, SlotFieldsKept
<1>3. ASSUME NEW o \in DOMAIN orders PROVE Earlier(o)' = Earlier(o)
  BY <1>1, <1>2 DEF Earlier, SlotsAt
<1>4. GenerationsCount'
  BY <1>1, <1>2, <1>3 DEF GInv, GenerationsCount
<1>5. EarlierReleased'
  BY <1>1, <1>2, <1>3, EarlierHasEnded DEF GInv, EarlierReleased
<1>6. ReleasedByNow'
  BY <1>1, ReleasedByStep DEF ReleasedByNow
<1>7. QED
  BY <1>1, <1>4, <1>5, <1>6 DEF GInv

(* The next generation counts the slots there were.                        *)
LEMMA NextGenerationCounts ==
    ASSUME GInv, NEW a \in Accounts, NEW m \in Nat
    PROVE  NextGeneration(a, m) = Cardinality(SlotsAt(a, m)) + 1
<1>1. CASE SlotsAt(a, m) = {}
  BY <1>1, FS_EmptySet DEF NextGeneration
<1>2. CASE SlotsAt(a, m) # {}
  <2> DEFINE l == CHOOSE o \in SlotsAt(a, m) : IsLatestSlot(o, a, m)
  <2>1. l \in SlotsAt(a, m) /\ IsLatestSlot(l, a, m)
    BY <1>2 DEF GInv, RInv, IInv, LatestSlotExists
  <2>2. NextGeneration(a, m) = orders[l].generation + 1
    BY <1>2 DEF NextGeneration
  <2> HIDE DEF l
  <2>3. /\ l \in DOMAIN orders /\ orders[l].account = a /\ orders[l].payable = m
        /\ SlotsAt(a, m) \subseteq DOMAIN orders
    BY <2>1 DEF SlotsAt
  <2>4. Earlier(l) = SlotsAt(a, m) \ {l}
    <3>1. ASSUME NEW p \in SlotsAt(a, m), p # l
          PROVE  orders[p].generation < orders[l].generation
      <4>1. /\ p \in DOMAIN orders /\ orders[p].account = a /\ orders[p].payable = m
        BY DEF SlotsAt
      <4>2. orders[p].generation # orders[l].generation
        BY <2>3, <3>1, <4>1 DEF GInv, RInv, IInv, PaymentWindowsSeparated
      <4>3. orders[p].generation <= orders[l].generation
        BY <2>1 DEF IsLatestSlot
      <4>4. orders[p].generation \in Nat /\ orders[l].generation \in Nat
        BY <2>3, <4>1, RowNumbers DEF GInv, RInv, IInv, RowsTyped
      <4>5. QED
        BY <4>2, <4>3, <4>4
    <3>2. l \notin Earlier(l)
      BY <2>3, EarlierHasEnded DEF GInv, RInv
    <3>3. QED
      BY <2>3, <3>1, <3>2 DEF Earlier
  <2>5. /\ Cardinality(SlotsAt(a, m) \ {l}) = Cardinality(SlotsAt(a, m)) - 1
        /\ Cardinality(SlotsAt(a, m)) \in Nat
    BY <2>1, <2>3, FS_Subset, FS_RemoveElement, FS_CardinalityType DEF GInv
  <2>6. orders[l].generation = Cardinality(Earlier(l)) + 1
    BY <2>3 DEF GInv, GenerationsCount
  <2>7. QED
    BY <2>2, <2>4, <2>5, <2>6
<1>3. QED
  BY <1>1, <1>2

LEMMA InsertKeepsGenerations ==
    ASSUME GInv, NEW n \in Orders \ DOMAIN orders, NEW q \in Requests, NEW a \in Accounts,
           NEW ttl \in Ttls, NEW cooldown \in Cooldowns, NEW d \in 1..MaxOffset,
           InsertStep(n, q, a, d, ttl, cooldown)
    PROVE  (ReleasedByNow /\ GenerationsCount /\ EarlierReleased)' /\ IsFiniteSet(DOMAIN orders')
<1> DEFINE m == q.amount + d
<1>1. /\ IInv /\ RowsStep /\ DOMAIN orders' = DOMAIN orders \cup {n}
      /\ orders'[n] = NewRow(q, a, d, ttl, cooldown, clock')
      /\ AmountIsFree(a, m, clock')
      /\ \A o \in SlotsAt(a, m) :
            orders[o].checkout = "OPEN" => orders'[o] = ExpiredRow(orders[o], clock')
      /\ clock \in Nat /\ clock' \in Nat /\ clock <= clock' /\ m \in Nat
  BY AmountAssumption, RequestAssumption DEF GInv, RInv, InsertStep, Allocates, RowsStep, IInv, RestTyped
<1>2. \A o \in DOMAIN orders :
               /\ orders[o] \in Row
               /\ orders'[o].account = orders[o].account
               /\ orders'[o].payable = orders[o].payable
               /\ orders'[o].generation = orders[o].generation
               /\ orders'[o].created = orders[o].created
               /\ orders[o].checkout # "OPEN" => orders'[o] = orders[o]
  BY <1>1, SlotFieldsKept
<1>3. /\ orders'[n].account = a /\ orders'[n].payable = m
      /\ orders'[n].generation = NextGeneration(a, m)
      /\ orders'[n].created = clock' /\ orders'[n].released = NoTime
  BY <1>1 DEF NewRow
<1> HIDE DEF m
<1>4. /\ NextGeneration(a, m) \in Nat
      /\ \A o \in SlotsAt(a, m) : orders[o].generation < NextGeneration(a, m)
  <2>1. CASE SlotsAt(a, m) = {}
    BY <2>1 DEF NextGeneration
  <2>2. CASE SlotsAt(a, m) # {}
    BY <1>1, <2>2, FreeAmountHasCooledDown
  <2>3. QED
    BY <2>1, <2>2
<1>5. ASSUME NEW o \in DOMAIN orders PROVE Earlier(o)' = Earlier(o)
  <2>1. ~(n \in Earlier(o)')
    <3>1. CASE orders[o].account = a /\ orders[o].payable = m
      <4>1. orders[o].generation < NextGeneration(a, m) /\ orders[o].generation \in Nat
        BY <1>2, <1>4, <3>1, RowNumbers DEF SlotsAt
      <4>2. QED
        BY <1>2, <1>3, <1>4, <4>1 DEF Earlier
    <3>2. CASE ~(orders[o].account = a /\ orders[o].payable = m)
      BY <1>2, <1>3, <3>2 DEF Earlier, SlotsAt
    <3>3. QED
      BY <3>1, <3>2
  <2>2. ASSUME NEW p \in DOMAIN orders PROVE p \in Earlier(o)' <=> p \in Earlier(o)
    BY <1>1, <1>2 DEF Earlier, SlotsAt
  <2>3. Earlier(o) \subseteq DOMAIN orders /\ Earlier(o)' \subseteq DOMAIN orders'
    BY DEF Earlier, SlotsAt
  <2>4. QED
    BY <1>1, <2>1, <2>2, <2>3
<1>6. Earlier(n)' = SlotsAt(a, m)
  <2>1. ~(n \in Earlier(n)') /\ Earlier(n)' \subseteq DOMAIN orders'
    BY <1>3, <1>4 DEF Earlier, SlotsAt
  <2>2. ASSUME NEW p \in DOMAIN orders PROVE p \in Earlier(n)' <=> p \in SlotsAt(a, m)
    BY <1>1, <1>2, <1>3, <1>4 DEF Earlier, SlotsAt
  <2>3. SlotsAt(a, m) \subseteq DOMAIN orders
    BY DEF SlotsAt
  <2>4. QED
    BY <1>1, <2>1, <2>2, <2>3
<1>7. GenerationsCount'
  <2>1. orders'[n].generation = Cardinality(Earlier(n)') + 1
    BY <1>1, <1>3, <1>6, NextGenerationCounts
  <2>2. ASSUME NEW o \in DOMAIN orders
        PROVE  orders'[o].generation = Cardinality(Earlier(o)') + 1
    BY <1>2, <1>5 DEF GInv, GenerationsCount
  <2>3. QED
    BY <1>1, <2>1, <2>2 DEF GenerationsCount
<1>8. ASSUME NEW p \in SlotsAt(a, m)
      PROVE  orders'[p].released # NoTime /\ orders'[p].released <= clock'
  <2>1. p \in DOMAIN orders
    BY DEF SlotsAt
  <2>2. CASE orders[p].checkout = "OPEN"
    <3>1. orders'[p] = ExpiredRow(orders[p], clock') /\ orders[p] \in Row
      BY <1>1, <1>2, <2>1, <2>2
    <3>2. orders'[p].released = clock'
      BY <3>1 DEF ExpiredRow, Row
    <3>3. QED
      BY <1>1, <3>2 DEF NoTime
  <2>3. CASE orders[p].checkout # "OPEN"
    <3>1. orders'[p] = orders[p]
      BY <1>2, <2>1, <2>3
    <3>2. orders[p].released # NoTime
      BY <1>1, <2>1, <2>3, EndedIsReleased
    <3>3. QED
      BY <1>1, <2>1, <3>1, <3>2, ReleasedByStep
  <2>4. QED
    BY <2>2, <2>3
<1>9. EarlierReleased'
  <2>1. ASSUME NEW o \in DOMAIN orders, NEW p \in Earlier(o)
        PROVE  orders'[p].released # NoTime /\ orders'[p].released <= orders'[o].created
    BY <1>1, <1>2, EarlierHasEnded DEF GInv, EarlierReleased
  <2>2. QED
    BY <1>1, <1>3, <1>5, <1>6, <1>8, <2>1 DEF EarlierReleased
<1>10. ReleasedByNow'
  <2>1. orders'[n].released <= clock'
    BY <1>1, <1>3 DEF NoTime
  <2>2. QED
    BY <1>1, <2>1, ReleasedByStep DEF ReleasedByNow
<1>11. IsFiniteSet(DOMAIN orders')
  BY <1>1, FS_AddElement DEF GInv
<1>12. QED
  BY <1>7, <1>9, <1>10, <1>11

LEMMA InitGInv == RInit => GInv
<1> SUFFICES ASSUME RInit PROVE GInv
  OBVIOUS
<1>1. RInv /\ DOMAIN orders = {}
  BY InitRInv DEF RInit, Init
<1>2. QED
  BY <1>1, FS_EmptySet DEF GInv, ReleasedByNow, GenerationsCount, EarlierReleased

LEMMA StepGInv == GInv /\ SInv /\ [RNext]_rvars => GInv'
<1> SUFFICES ASSUME GInv, SInv, [RNext]_rvars
             PROVE  /\ (ReleasedByNow /\ GenerationsCount /\ EarlierReleased)'
                    /\ IsFiniteSet(DOMAIN orders')
  BY StepRInv DEF GInv
<1>1. CASE SlotsStay
  BY <1>1, SlotsStayKeeps
<1>2. CASE [Next]_vars
  <2>1. UpdateStep \/ \E n \in Orders \ DOMAIN orders, q \in Requests, a \in Accounts,
                        ttl \in Ttls, cooldown \in Cooldowns, d \in 1..MaxOffset :
                        InsertStep(n, q, a, d, ttl, cooldown)
    <3>1. RestTyped /\ RowsTyped
      BY DEF GInv, RInv, IInv
    <3>2. CASE Next
      BY <3>1, <3>2, NextKinds
    <3>3. CASE UNCHANGED vars
      BY <3>1, <3>3, StutterIsUpdate DEF vars
    <3>4. QED
      BY <1>2, <3>2, <3>3
  <2>2. QED
    BY <2>1, UpdateKeepsGenerations, InsertKeepsGenerations
<1>3. QED
  BY <1>1, <1>2, SlotKinds

(* What the startup check counts in the order tables is there.             *)
LEMMA SlotsAreAccepted ==
    ASSUME GInv PROVE SlotsAccepted
<1>1. ASSUME NEW o \in DOMAIN orders
      PROVE  orders[o].released = IF orders[o].checkout = "OPEN" THEN NoTime ELSE orders[o].closed
  BY DEF GInv, RInv, IInv, EndTimesConsistent
<1>2. ASSUME NEW o \in DOMAIN orders
      PROVE  LET peers == SlotsAt(orders[o].account, orders[o].payable)
                 before == {p \in peers : orders[p].generation < orders[o].generation}
             IN  /\ orders[o].generation = Cardinality(before) + 1
                 /\ \A p \in before : /\ SlotReleasedAt(orders[p]) # NoTime
                                      /\ SlotReleasedAt(orders[p]) <= orders[o].created
  <2>1. /\ orders[o].generation = Cardinality(Earlier(o)) + 1
        /\ \A p \in Earlier(o) : /\ orders[p].released # NoTime
                                 /\ orders[p].released <= orders[o].created
    BY DEF GInv, GenerationsCount, EarlierReleased
  <2>2. QED
    BY <2>1 DEF Earlier, SlotReleasedAt
<1>3. QED
  BY <1>1, <1>2 DEF SlotsAccepted

-----------------------------------------------------------------------------
(* The issues that were resolved.                                          *)

ResolvedIssues ==
    \A x \in exceptions :
        x.status = "RESOLVED" =>
            /\ x.by \in DOMAIN operations
            /\ operations[x.by].type \in {"AUTO_SETTLEMENT", "MANUAL_SETTLEMENT"}
            /\ operations[x.by].entry = x.entry

LEMMA OperationsStay ==
    ASSUME OInv, [RNext]_rvars PROVE OperationsKept /\ FixedColumns
BY RecordKinds DEF NothingBooked, Paying, Books

LEMMA OnlyOpens ==
    ASSUME NEW e, NEW type, NEW order, NEW context, EnsureException(e, type, order, context)
    PROVE  \A x \in exceptions' : x \in exceptions \/ x.status = "OPEN"
BY DEF EnsureException

LEMMA SettlingResolves ==
    ASSUME XInv, ResolvedIssues, OperationsKept, NEW e, NEW o, NEW key, NEW evidence, NEW basis,
           NEW type \in {"AUTO_SETTLEMENT", "MANUAL_SETTLEMENT"},
           WriteSettlement(key, e, o, evidence, basis, LogicalNow),
           key \in DOMAIN operations', operations'[key] = OperationRow(type, e, o, key)
    PROVE  ResolvedIssues'
<1> SUFFICES ASSUME NEW y \in exceptions', y.status = "RESOLVED"
             PROVE  /\ y.by \in DOMAIN operations'
                    /\ operations'[y.by].type \in {"AUTO_SETTLEMENT", "MANUAL_SETTLEMENT"}
                    /\ operations'[y.by].entry = y.entry
  BY DEF ResolvedIssues
<1>1. PICK x \in exceptions :
         y = IF x.entry = e /\ x.status = "OPEN"
             THEN [x EXCEPT !.status = "RESOLVED", !.by = key] ELSE x
  BY DEF WriteSettlement, WithExceptionsResolved
<1>2. x \in Exception
  BY DEF XInv, ExceptionRows
<1>3. CASE x.entry = e /\ x.status = "OPEN"
  <2>1. y.by = key /\ y.entry = e
    BY <1>1, <1>2, <1>3 DEF Exception
  <2>2. QED
    BY <2>1 DEF OperationRow
<1>4. CASE ~(x.entry = e /\ x.status = "OPEN")
  BY <1>1, <1>4 DEF ResolvedIssues, OperationsKept
<1>5. QED
  BY <1>3, <1>4

LEMMA StepResolvedIssues ==
    ASSUME XInv, OInv, ResolvedIssues, [RNext]_rvars PROVE ResolvedIssues'
<1>1. OperationsKept
  BY OperationsStay
<1>2. SInv /\ CInv
  BY DEF XInv, OInv
<1>3. ASSUME \A x \in exceptions' : x \in exceptions \/ x.status = "OPEN" PROVE ResolvedIssues'
  BY <1>1, <1>3 DEF ResolvedIssues, OperationsKept
<1>4. CASE Quiet
  BY <1>3, <1>4 DEF Quiet
<1>5. ASSUME NEW e \in DOMAIN entries, Leaves(e) PROVE ResolvedIssues'
  BY <1>3, <1>5, OnlyOpens DEF Leaves, LeaveUnmatched, LeaveAmbiguous
<1>6. ASSUME NEW e \in DOMAIN entries, NEW o \in DOMAIN orders, AutoSettles(e, o)
      PROVE  ResolvedIssues'
  <2>1. AutoSettling(e, o)
    BY <1>2, <1>6, AutoSettlesIsAutoSettling
  <2>2. /\ AutoKey(e, o) \in DOMAIN operations'
        /\ operations'[AutoKey(e, o)] = OperationRow("AUTO_SETTLEMENT", e, o, AutoKey(e, o))
        /\ WriteSettlement(AutoKey(e, o), e, o, "AMOUNT_INFERRED", "INFERRED", LogicalNow)
    BY <2>1 DEF AutoSettling, Settling, Settles, OperationsGrow
  <2>3. QED
    BY <1>1, <2>2, SettlingResolves
<1>7. ASSUME NEW d \in Decisions, NEW e \in DOMAIN entries, NEW o \in DOMAIN orders,
             ManuallySettles(d, e, o)
      PROVE  ResolvedIssues'
  <2>1. HandSettling(d, e, o)
    BY <1>7, ManuallySettlesIsHandSettling
  <2>2. /\ AdminKey(d) \in DOMAIN operations'
        /\ operations'[AdminKey(d)] = OperationRow("MANUAL_SETTLEMENT", e, o, AdminKey(d))
        /\ WriteSettlement(AdminKey(d), e, o, "MANUAL", "MANUAL", LogicalNow)
    BY <2>1 DEF HandSettling, Settling, Settles, OperationsGrow
  <2>3. QED
    BY <1>1, <2>2, SettlingResolves
<1>8. ASSUME NEW d \in Decisions, NEW m \in matches, Reverses(d, m) PROVE ResolvedIssues'
  BY <1>3, <1>8, OnlyOpens DEF Reverses
<1>9. QED
  BY <1>2, <1>4, <1>5, <1>6, <1>7, <1>8, StepKinds

-----------------------------------------------------------------------------
(* An ambiguous entry has two candidates.                                  *)

AmbiguousHasTwo ==
    \A e \in DOMAIN entries :
        entries[e].state = "CANDIDATE" =>
            \E x, y \in DOMAIN orders : /\ x # y
                                        /\ <<e, x>> \in EligibleOf(e)
                                        /\ <<e, y>> \in EligibleOf(e)

LEMMA TwoOfMany ==
    ASSUME NEW S, Cardinality(S) > 1
    PROVE  \E x, y \in S : x # y
<1>1. S # {}
  BY FS_EmptySet
<1>2. PICK x \in S : TRUE
  BY <1>1
<1>3. S # {x}
  BY FS_Singleton
<1>4. QED
  BY <1>2, <1>3

(* The candidates of the other entries stay.                               *)
LEMMA OthersStayEligible ==
    ASSUME CInv, NEW e, NEW stale, NEW selected, CandidatesGrow(e, stale, selected),
           \A p \in selected : p[1] = e, NEW f, f # e
    PROVE  EligibleOf(f) \subseteq EligibleOf(f)'
<1> SUFFICES ASSUME NEW p \in EligibleOf(f) PROVE p \in EligibleOf(f)'
  OBVIOUS
<1>1. p \in DOMAIN candidates /\ p[1] = f /\ candidates[p] = "ELIGIBLE"
  BY DEF EligibleOf
<1>2. p \notin stale /\ p \notin selected
  BY <1>1 DEF CandidatesGrow, EligibleOf
<1>3. p \in DOMAIN candidates' /\ candidates'[p] = "ELIGIBLE"
  BY <1>1, <1>2 DEF CandidatesGrow
<1>4. QED
  BY <1>1, <1>3 DEF EligibleOf

LEMMA StepAmbiguous ==
    ASSUME OInv, AmbiguousHasTwo, [RNext]_rvars PROVE AmbiguousHasTwo'
<1>1. SInv /\ CInv /\ CandidateRows
  BY DEF OInv, CInv
<1>2. FixedColumns
  BY OperationsStay
<1>3. ASSUME NEW f \in DOMAIN entries, entries[f].state = "CANDIDATE",
             EligibleOf(f) \subseteq EligibleOf(f)'
      PROVE  \E x, y \in DOMAIN orders' : /\ x # y
                                          /\ <<f, x>> \in EligibleOf(f)'
                                          /\ <<f, y>> \in EligibleOf(f)'
  BY <1>2, <1>3 DEF AmbiguousHasTwo, FixedColumns
<1>4. ASSUME NEW e \in DOMAIN entries, NEW stale, NEW selected,
             CandidatesGrow(e, stale, selected), \A p \in selected : p[1] = e,
             DOMAIN entries' = DOMAIN entries, entries'[e].state # "CANDIDATE",
             \A f \in DOMAIN entries : f # e => entries'[f] = entries[f]
      PROVE  AmbiguousHasTwo'
  <2>1. ASSUME NEW f \in DOMAIN entries', entries'[f].state = "CANDIDATE"
        PROVE  \E x, y \in DOMAIN orders' : /\ x # y
                                            /\ <<f, x>> \in EligibleOf(f)'
                                            /\ <<f, y>> \in EligibleOf(f)'
    <3>1. f # e /\ f \in DOMAIN entries /\ entries[f].state = "CANDIDATE"
      BY <1>4, <2>1
    <3>2. EligibleOf(f) \subseteq EligibleOf(f)'
      BY <1>1, <1>4, <3>1, OthersStayEligible
    <3>3. QED
      BY <1>3, <3>1, <3>2
  <2>2. QED
    BY <2>1 DEF AmbiguousHasTwo
<1>5. CASE Quiet
  <2>1. \A f : EligibleOf(f)' = EligibleOf(f)
    BY <1>5 DEF Quiet, EligibleOf
  <2>2. ASSUME NEW f \in DOMAIN entries', entries'[f].state = "CANDIDATE"
        PROVE  f \in DOMAIN entries /\ entries[f].state = "CANDIDATE"
    BY <1>5, <2>2 DEF Quiet, EntriesOnly
  <2>3. QED
    BY <1>3, <2>1, <2>2 DEF AmbiguousHasTwo
<1>6. ASSUME NEW e \in DOMAIN entries, Leaves(e) PROVE AmbiguousHasTwo'
  <2>1. Leaving(e)
    BY <1>1, <1>6, LeavesIsLeaving
  <2>2. CASE LeaveUnmatched(e)
    <3>1. entries'[e].state # "CANDIDATE"
      <4>1. entries' = [entries EXCEPT ![e].state = "UNALLOCATED"]
        BY <2>2 DEF LeaveUnmatched
      <4>2. QED
        BY <1>1, <4>1, NewStateFacts DEF SInv, EntryStates
    <3>2. QED
      BY <1>4, <2>1, <3>1 DEF Leaving
  <2>3. CASE LeaveAmbiguous(e)
    <3>1. PICK x \in EligibleOrders(e), y \in EligibleOrders(e) : x # y
      BY <2>3, TwoOfMany DEF LeaveAmbiguous
    <3>2. ASSUME NEW z \in EligibleOrders(e)
          PROVE  <<e, z>> \in EligibleOf(e)' /\ z \in DOMAIN orders'
      <4>1. candidates' = CandidatesNow(e) /\ orders' = orders
        BY <2>3 DEF LeaveAmbiguous, KeepOrders
      <4>2. <<e, z>> \in DOMAIN candidates' /\ candidates'[<<e, z>>] = "ELIGIBLE"
        BY <1>1, <4>1, CandidatesNowFacts
      <4>3. z \in DOMAIN orders
        BY DEF EligibleOrders, CandidateFacts, SameAmountInWindow
      <4>4. QED
        BY <4>1, <4>2, <4>3 DEF EligibleOf
    <3>3. ASSUME NEW f \in DOMAIN entries', entries'[f].state = "CANDIDATE"
          PROVE  \E v, w \in DOMAIN orders' : /\ v # w
                                              /\ <<f, v>> \in EligibleOf(f)'
                                              /\ <<f, w>> \in EligibleOf(f)'
      <4>1. CASE f = e
        BY <3>1, <3>2, <4>1
      <4>2. CASE f # e
        <5>1. f \in DOMAIN entries /\ entries[f].state = "CANDIDATE"
          BY <2>1, <3>3, <4>2 DEF Leaving
        <5>2. EligibleOf(f) \subseteq EligibleOf(f)'
          BY <1>1, <2>1, <4>2, OthersStayEligible DEF Leaving
        <5>3. QED
          BY <1>3, <5>1, <5>2
      <4>3. QED
        BY <4>1, <4>2
    <3>4. QED
      BY <3>3 DEF AmbiguousHasTwo
  <2>4. QED
    BY <1>6, <2>2, <2>3 DEF Leaves
<1>7. ASSUME NEW e \in DOMAIN entries, NEW o \in DOMAIN orders, NEW key, NEW evidence, NEW basis,
             NEW type, NEW stale, NEW selected,
             Settling(key, e, o, evidence, basis, type, stale, selected),
             \A p \in selected : p[1] = e
      PROVE  AmbiguousHasTwo'
  <2>1. /\ DOMAIN entries' = DOMAIN entries /\ entries'[e].state = "ALLOCATED"
        /\ \A f \in DOMAIN entries : f # e => entries'[f] = entries[f]
    BY <1>1, <1>7, SettlesFacts DEF Settling
  <2>2. QED
    BY <1>4, <1>7, <2>1 DEF Settling
<1>8. ASSUME NEW d \in Decisions, NEW m \in matches, Reverses(d, m) PROVE AmbiguousHasTwo'
  <2>1. /\ DOMAIN entries' = DOMAIN entries /\ entries'[m.entry].state = "CONFLICT"
        /\ \A f \in DOMAIN entries : f # m.entry => entries'[f] = entries[f]
        /\ candidates' = candidates
    BY <1>1, <1>8, ReversesFacts
  <2>2. \A f : EligibleOf(f)' = EligibleOf(f)
    BY <2>1 DEF EligibleOf
  <2>3. ASSUME NEW f \in DOMAIN entries', entries'[f].state = "CANDIDATE"
        PROVE  f \in DOMAIN entries /\ entries[f].state = "CANDIDATE"
    BY <2>1, <2>3
  <2>4. QED
    BY <1>3, <2>2, <2>3 DEF AmbiguousHasTwo
<1>9. ASSUME NEW e \in DOMAIN entries, NEW o \in DOMAIN orders, AutoSettles(e, o)
      PROVE  AmbiguousHasTwo'
  <2>1. Settling(AutoKey(e, o), e, o, "AMOUNT_INFERRED", "INFERRED", "AUTO_SETTLEMENT",
                 StaleCandidates(e), {<<e, o>>})
    BY <1>1, <1>9, AutoSettlesIsAutoSettling DEF AutoSettling
  <2>2. \A p \in {<<e, o>>} : p[1] = e
    OBVIOUS
  <2>3. QED
    BY <1>7, <2>1, <2>2
<1>10. ASSUME NEW d \in Decisions, NEW e \in DOMAIN entries, NEW o \in DOMAIN orders,
              ManuallySettles(d, e, o)
       PROVE  AmbiguousHasTwo'
  BY <1>7, <1>10, ManuallySettlesIsHandSettling DEF HandSettling
<1>11. QED
  BY <1>1, <1>5, <1>6, <1>8, <1>9, <1>10, StepKinds

-----------------------------------------------------------------------------
(* The history of the matches.                                             *)

SettledEvent(key) == [operation |-> key, status |-> "SETTLED"]
ReversedEvent(key) == [operation |-> key, status |-> "REVERSED"]

EventIndices == 1..Len(matchEvents)

(* A match was settled, then perhaps reversed, and nothing else.           *)
HistoryOf(m) ==
    \E i \in EventIndices :
        /\ matchEvents[i] = SettledEvent(m.operation)
        /\ m.status = "SETTLED" => MatchEventsOf(m) = {i}
        /\ m.status = "REVERSED" =>
              \E j \in EventIndices : i < j /\ MatchEventsOf(m) = {i, j}

MatchHistory ==
    /\ matchEvents \in Seq(MatchEvent)
    /\ \A i \in EventIndices : matchEvents[i].operation \in DOMAIN operations
    /\ \A m \in matches : HistoryOf(m)

(* No automatic settlement was made while another order could have been    *)
(* meant that was settled before it.                                       *)
NoOverlapEver ==
    \A m, n \in matches :
        ~ /\ m # n
          /\ m.evidence = "AMOUNT_INFERRED"
          /\ SettledEarlier(n, m)
          /\ n.order \in SameAmountInWindow(entries[m.entry].report)

HistoryKept == UNCHANGED <<matches, matchEvents>>

HistorySettles(key, new) ==
    /\ key \in Keys /\ key \notin DOMAIN operations /\ key \in DOMAIN operations'
    /\ new.operation = key /\ new.status = "SETTLED" /\ new.entry \in DOMAIN entries
    /\ matches' = matches \cup {new}
    /\ matchEvents' = Append(matchEvents, SettledEvent(key))
    /\ new.evidence = "AMOUNT_INFERRED" =>
          \A n \in matches : n.order \notin SameAmountInWindow(entries[new.entry].report)

HistoryReverses(m, new) ==
    /\ m \in matches /\ m.status = "SETTLED"
    /\ new.operation = m.operation /\ new.status = "REVERSED"
    /\ new.entry = m.entry /\ new.order = m.order /\ new.evidence = m.evidence
    /\ matches' = (matches \ {m}) \cup {new}
    /\ matchEvents' = Append(matchEvents, ReversedEvent(m.operation))

LEMMA SettlingIsHistory ==
    ASSUME OInv, NEW e \in DOMAIN entries, NEW o \in DOMAIN orders, NEW key, NEW evidence,
           NEW basis, NEW type, NEW stale, NEW selected,
           Settling(key, e, o, evidence, basis, type, stale, selected),
           evidence = "AMOUNT_INFERRED" =>
              \A n \in matches : n.order \notin SameAmountInWindow(entries[e].report)
    PROVE  \E new : HistorySettles(key, new)
<1>1. PICK new : new = NewMatch(key, e, o, evidence)
  OBVIOUS
<1>2. /\ new.operation = key /\ new.status = "SETTLED" /\ new.entry = e
      /\ new.evidence = evidence
  BY <1>1 DEF NewMatch
<1>3. matches' = matches \cup {new}
  BY <1>1, SettlesWrites DEF Settling
<1>4. matchEvents' = Append(matchEvents, SettledEvent(key))
  BY DEF Settling, Settles, WriteSettlement, SettledEvent
<1>5. key \in Keys /\ key \notin DOMAIN operations /\ key \in DOMAIN operations'
  BY DEF Settling, Settles, OperationsGrow
<1>6. QED
  BY <1>2, <1>3, <1>4, <1>5 DEF HistorySettles

LEMMA ReversesIsHistory ==
    ASSUME OInv, NEW d \in Decisions, NEW m \in matches, Reverses(d, m)
    PROVE  \E new : HistoryReverses(m, new)
<1>1. PICK new : new = ReversedMatch(m, AdminKey(d))
  OBVIOUS
<1>2. m \in Match
  BY DEF OInv, CInv, SInv, MatchRows
<1>3. /\ new.operation = m.operation /\ new.status = "REVERSED"
      /\ new.entry = m.entry /\ new.order = m.order /\ new.evidence = m.evidence
  BY <1>1, <1>2 DEF ReversedMatch, Match
<1>4. matches' = (matches \ {m}) \cup {new}
  BY <1>1, ReversesWrites
<1>5. m.status = "SETTLED" /\ matchEvents' = Append(matchEvents, ReversedEvent(m.operation))
  BY DEF Reverses, ReversedEvent
<1>6. QED
  BY <1>3, <1>4, <1>5 DEF HistoryReverses

LEMMA HistoryKinds ==
    ASSUME OInv, [RNext]_rvars
    PROVE  \/ HistoryKept
           \/ \E key, new : HistorySettles(key, new)
           \/ \E m, new : HistoryReverses(m, new)
<1>1. SInv /\ CInv
  BY DEF OInv, CInv
<1>2. CASE Quiet
  BY <1>2 DEF Quiet, HistoryKept
<1>3. ASSUME NEW e \in DOMAIN entries, Leaves(e) PROVE HistoryKept
  BY <1>3 DEF Leaves, LeaveUnmatched, LeaveAmbiguous, HistoryKept
<1>4. ASSUME NEW e \in DOMAIN entries, NEW o \in DOMAIN orders, AutoSettles(e, o)
      PROVE  \E key, new : HistorySettles(key, new)
  <2>1. Settling(AutoKey(e, o), e, o, "AMOUNT_INFERRED", "INFERRED", "AUTO_SETTLEMENT",
                 StaleCandidates(e), {<<e, o>>})
    BY <1>1, <1>4, AutoSettlesIsAutoSettling DEF AutoSettling
  <2>2. \A n \in matches : n.order \notin SameAmountInWindow(entries[e].report)
    BY <1>1, <1>4, AutoSettlesUnambiguously
  <2>3. \E new : HistorySettles(AutoKey(e, o), new)
    BY <2>1, <2>2, SettlingIsHistory
  <2>4. QED
    BY <2>3
<1>5. ASSUME NEW d \in Decisions, NEW e \in DOMAIN entries, NEW o \in DOMAIN orders,
             ManuallySettles(d, e, o)
      PROVE  \E key, new : HistorySettles(key, new)
  <2>1. Settling(AdminKey(d), e, o, "MANUAL", "MANUAL", "MANUAL_SETTLEMENT", EligibleOf(e), {})
    BY <1>5, ManuallySettlesIsHandSettling DEF HandSettling
  <2>2. \E new : HistorySettles(AdminKey(d), new)
    BY <2>1, SettlingIsHistory
  <2>3. QED
    BY <2>2
<1>6. QED
  BY <1>1, <1>2, <1>3, <1>4, <1>5, StepKinds, ReversesIsHistory

(* What one more event does to the events of a match.                      *)
LEMMA OneMoreEvent ==
    ASSUME matchEvents \in Seq(MatchEvent), NEW x \in MatchEvent,
           matchEvents' = Append(matchEvents, x)
    PROVE  /\ matchEvents' \in Seq(MatchEvent)
           /\ Len(matchEvents) \in Nat /\ Len(matchEvents') = Len(matchEvents) + 1
           /\ \A i \in EventIndices : matchEvents'[i] = matchEvents[i]
           /\ matchEvents'[Len(matchEvents) + 1] = x
           /\ EventIndices' = EventIndices \cup {Len(matchEvents) + 1}
           /\ \A m : MatchEventsOf(m)' = IF x.operation = m.operation
                                 THEN MatchEventsOf(m) \cup {Len(matchEvents) + 1}
                                 ELSE MatchEventsOf(m)
<1>1. /\ Len(matchEvents') = Len(matchEvents) + 1 /\ Len(matchEvents) \in Nat
      /\ \A i \in EventIndices : matchEvents'[i] = matchEvents[i]
      /\ matchEvents'[Len(matchEvents) + 1] = x
  BY Appended DEF EventIndices
<1>2. matchEvents' \in Seq(MatchEvent)
  OBVIOUS
<1>3. DOMAIN matchEvents = EventIndices /\ DOMAIN matchEvents' = EventIndices'
  BY <1>2 DEF EventIndices
<1>4. EventIndices' = EventIndices \cup {Len(matchEvents) + 1}
  BY <1>1 DEF EventIndices
<1>5. ASSUME NEW m
      PROVE  MatchEventsOf(m)' = IF x.operation = m.operation
                                 THEN MatchEventsOf(m) \cup {Len(matchEvents) + 1}
                                 ELSE MatchEventsOf(m)
  BY <1>1, <1>3, <1>4 DEF MatchEventsOf
<1>6. QED
  BY <1>1, <1>2, <1>4, <1>5

LEMMA HistorySettlesKeeps ==
    ASSUME MatchHistory, MatchesMade, OperationsKept, NEW key, NEW new, HistorySettles(key, new)
    PROVE  MatchHistory'
<1> DEFINE last == Len(matchEvents) + 1
<1>1. SettledEvent(key) \in MatchEvent
  BY DEF HistorySettles, SettledEvent, MatchEvent
<1>1a. matchEvents \in Seq(MatchEvent) /\ matchEvents' = Append(matchEvents, SettledEvent(key))
  BY DEF MatchHistory, HistorySettles
<1>2. /\ matchEvents' \in Seq(MatchEvent) /\ last \in Nat
      /\ \A i \in EventIndices : matchEvents'[i] = matchEvents[i]
      /\ matchEvents'[last] = SettledEvent(key)
      /\ EventIndices' = EventIndices \cup {last}
      /\ \A m : MatchEventsOf(m)' = IF key = m.operation
                                 THEN MatchEventsOf(m) \cup {last}
                                 ELSE MatchEventsOf(m)
  <2>1. PICK x \in MatchEvent : x = SettledEvent(key)
    BY <1>1
  <2>2. matchEvents' = Append(matchEvents, x)
    BY <1>1a, <2>1
  <2> HIDE DEF last
  <2>3. x.operation = key
    BY <2>1 DEF SettledEvent
  <2>4. last = Len(matchEvents) + 1
    BY DEF last
  <2>5. matchEvents' \in Seq(MatchEvent) /\ Len(matchEvents) \in Nat
    BY <1>1a, <2>2, OneMoreEvent
  <2>6. /\ \A i \in EventIndices : matchEvents'[i] = matchEvents[i]
        /\ matchEvents'[last] = x
        /\ EventIndices' = EventIndices \cup {last}
    BY <1>1a, <2>2, <2>4, OneMoreEvent
  <2>7. \A m : MatchEventsOf(m)' = IF key = m.operation
                                  THEN MatchEventsOf(m) \cup {last}
                                  ELSE MatchEventsOf(m)
    BY <1>1a, <2>2, <2>3, <2>4, OneMoreEvent
  <2>8. QED
    BY <2>1, <2>4, <2>5, <2>6, <2>7
<1> HIDE DEF last
<1>4. \A i \in EventIndices' : matchEvents'[i].operation \in DOMAIN operations'
  <2>1. matchEvents'[last].operation = key /\ key \in DOMAIN operations'
    <3>1. SettledEvent(key).operation = key
      BY DEF SettledEvent
    <3>2. key \in DOMAIN operations'
      BY DEF HistorySettles
    <3>3. QED
      BY <1>2, <3>1, <3>2
  <2>2. \A i \in EventIndices : matchEvents'[i].operation \in DOMAIN operations'
    BY <1>2 DEF MatchHistory, OperationsKept
  <2>3. QED
    BY <1>2, <2>1, <2>2
<1>5. ASSUME NEW m \in matches PROVE HistoryOf(m)'
  <2>1. m.operation # key
    BY DEF MatchesMade, HistorySettles
  <2>2. MatchEventsOf(m)' = MatchEventsOf(m)
    BY <1>2, <2>1
  <2>3. HistoryOf(m)
    BY DEF MatchHistory
  <2>4. QED
    BY <1>2, <2>2, <2>3 DEF HistoryOf
<1>6. HistoryOf(new)'
  <2>1. new.operation = key /\ new.status = "SETTLED"
    BY DEF HistorySettles
  <2>2. MatchEventsOf(new) = {}
    BY <2>1 DEF MatchEventsOf, MatchHistory, EventIndices, HistorySettles
  <2>3. MatchEventsOf(new)' = {last}
    BY <1>2, <2>1, <2>2
  <2>4. QED
    BY <1>2, <2>1, <2>3 DEF HistoryOf
<1>7. QED
  BY <1>2, <1>4, <1>5, <1>6 DEF MatchHistory, HistorySettles

LEMMA HistoryReversesKeeps ==
    ASSUME SInv, MatchHistory, MatchesMade, OperationsKept, NEW m, NEW new,
           HistoryReverses(m, new)
    PROVE  MatchHistory'
<1> DEFINE last == Len(matchEvents) + 1
<1>1. m \in matches /\ ReversedEvent(m.operation) \in MatchEvent
  BY DEF HistoryReverses, ReversedEvent, MatchEvent, SInv, MatchRows, Match
<1>1a. /\ matchEvents \in Seq(MatchEvent)
       /\ matchEvents' = Append(matchEvents, ReversedEvent(m.operation))
  BY DEF MatchHistory, HistoryReverses
<1>2. /\ matchEvents' \in Seq(MatchEvent) /\ last \in Nat /\ last = Len(matchEvents) + 1
      /\ \A i \in EventIndices : matchEvents'[i] = matchEvents[i]
      /\ matchEvents'[last] = ReversedEvent(m.operation)
      /\ EventIndices' = EventIndices \cup {last}
      /\ \A n : MatchEventsOf(n)' = IF m.operation = n.operation
                                 THEN MatchEventsOf(n) \cup {last}
                                 ELSE MatchEventsOf(n)
  <2>1. PICK x \in MatchEvent : x = ReversedEvent(m.operation)
    BY <1>1
  <2>2. matchEvents' = Append(matchEvents, x)
    BY <1>1a, <2>1
  <2> HIDE DEF last
  <2>3. x.operation = m.operation
    BY <2>1 DEF ReversedEvent
  <2>4. last = Len(matchEvents) + 1
    BY DEF last
  <2>5. matchEvents' \in Seq(MatchEvent) /\ Len(matchEvents) \in Nat
    BY <1>1a, <2>2, OneMoreEvent
  <2>6. /\ \A i \in EventIndices : matchEvents'[i] = matchEvents[i]
        /\ matchEvents'[last] = x
        /\ EventIndices' = EventIndices \cup {last}
    BY <1>1a, <2>2, <2>4, OneMoreEvent
  <2>7. \A n : MatchEventsOf(n)' = IF m.operation = n.operation
                                  THEN MatchEventsOf(n) \cup {last}
                                  ELSE MatchEventsOf(n)
    BY <1>1a, <2>2, <2>3, <2>4, OneMoreEvent
  <2>8. QED
    BY <2>1, <2>4, <2>5, <2>6, <2>7
<1> HIDE DEF last
<1>4. \A i \in EventIndices' : matchEvents'[i].operation \in DOMAIN operations'
  BY <1>1, <1>2 DEF ReversedEvent, MatchHistory, OperationsKept, MatchesMade
<1>5. ASSUME NEW n \in matches, n # m PROVE HistoryOf(n)'
  <2>1. n.operation # m.operation
    BY <1>1, <1>5, MatchOfOperation
  <2>2. MatchEventsOf(n)' = MatchEventsOf(n)
    BY <1>2, <2>1
  <2>3. HistoryOf(n)
    BY DEF MatchHistory
  <2>4. QED
    BY <1>2, <2>2, <2>3 DEF HistoryOf
<1>6. HistoryOf(new)'
  <2>1. new.operation = m.operation /\ new.status = "REVERSED" /\ m.status = "SETTLED"
    BY DEF HistoryReverses
  <2>2. PICK i \in EventIndices : /\ matchEvents[i] = SettledEvent(m.operation)
                                  /\ MatchEventsOf(m) = {i}
    BY <1>1, <2>1 DEF MatchHistory, HistoryOf
  <2>3. MatchEventsOf(new) = {i}
    BY <2>1, <2>2 DEF MatchEventsOf
  <2>4. MatchEventsOf(new)' = {i, last}
    BY <1>2, <2>1, <2>3
  <2>5. i < last
    BY <1>2 DEF EventIndices
  <2>6. QED
    BY <1>2, <2>1, <2>2, <2>4, <2>5 DEF HistoryOf
<1>7. QED
  BY <1>2, <1>4, <1>5, <1>6 DEF MatchHistory, HistoryReverses

LEMMA StepMatchHistory ==
    ASSUME BInv, MatchHistory, [RNext]_rvars PROVE MatchHistory'
<1>1. OInv /\ SInv /\ MatchesMade
  BY DEF BInv, OInv, CInv
<1>2. OperationsKept
  BY <1>1, OperationsStay
<1>3. CASE HistoryKept
  BY <1>2, <1>3 DEF HistoryKept, MatchHistory, HistoryOf, MatchEventsOf, EventIndices, OperationsKept
<1>4. QED
  BY <1>1, <1>2, <1>3, HistoryKinds, HistorySettlesKeeps, HistoryReversesKeeps

-----------------------------------------------------------------------------
(* The windows, and the order in which overlapping orders were settled.    *)

LEMMA WindowsNeverGrow ==
    ASSUME SInv, [RNext]_rvars, NEW s, NEW o \in DOMAIN orders, (o \in SameAmountInWindow(s))'
    PROVE  o \in SameAmountInWindow(s)
<1>1. RowsTyped
  BY DEF SInv, RInv, IInv
<1>2. CASE OrdersOnly
  BY <1>2, WindowsShrink
<1>3. ASSUME NEW key, NEW p \in DOMAIN orders, NEW status, NEW basis, NEW amount, NEW type,
             RecordPayment(key, p, status, basis, amount, type, LogicalNow)
      PROVE  o \in SameAmountInWindow(s)
  BY <1>1, <1>3, PaymentKeepsWindows
<1>4. CASE Quiet
  BY <1>2, <1>4 DEF Quiet
<1>5. ASSUME NEW e \in DOMAIN entries, Leaves(e) PROVE o \in SameAmountInWindow(s)
  BY <1>2, <1>5, OrdersSame DEF Leaves, LeaveUnmatched, LeaveAmbiguous, KeepOrders
<1>6. ASSUME NEW e \in DOMAIN entries, NEW p \in DOMAIN orders, AutoSettles(e, p)
      PROVE  o \in SameAmountInWindow(s)
  BY <1>3, <1>6 DEF AutoSettles, AutoSettle, WriteSettlement
<1>7. ASSUME NEW d \in Decisions, NEW e \in DOMAIN entries, NEW p \in DOMAIN orders,
             ManuallySettles(d, e, p)
      PROVE  o \in SameAmountInWindow(s)
  BY <1>3, <1>7 DEF ManuallySettles, WriteSettlement
<1>8. ASSUME NEW d \in Decisions, NEW m \in matches, Reverses(d, m)
      PROVE  o \in SameAmountInWindow(s)
  <2>1. m.order \in DOMAIN orders
    BY DEF SInv, MatchRows
  <2>2. RecordPayment(AdminKey(d), m.order, "DISPUTED", orders[m.order].basis,
                      orders[m.order].received, "PAYMENT_DISPUTED", LogicalNow)
    BY <1>8 DEF Reverses
  <2>3. QED
    BY <1>3, <2>1, <2>2
<1>9. QED
  BY <1>4, <1>5, <1>6, <1>7, <1>8, StepKinds

LEMMA StepNoOverlap ==
    ASSUME BInv, MatchHistory, NoOverlapEver, [RNext]_rvars PROVE NoOverlapEver'
<1>1. OInv /\ SInv /\ MatchesMade /\ MatchRows
  BY DEF BInv, OInv, CInv, SInv
<1>2. FixedColumns
  BY <1>1, OperationsStay
<1>3. ASSUME NEW m \in matches, NEW n \in matches,
             (n.order \in SameAmountInWindow(entries[m.entry].report))'
      PROVE  n.order \in SameAmountInWindow(entries[m.entry].report)
  <2>1. n.order \in DOMAIN orders /\ m.entry \in DOMAIN entries
    BY <1>1 DEF MatchRows
  <2>2. PICK s : s = entries[m.entry].report
    OBVIOUS
  <2>3. entries'[m.entry].report = s
    BY <1>2, <2>1, <2>2 DEF FixedColumns
  <2>4. (n.order \in SameAmountInWindow(s))'
    BY <1>3, <2>3
  <2>5. QED
    BY <1>1, <2>1, <2>2, <2>4, WindowsNeverGrow
<1>4. ASSUME NEW m, NEW n, SettledEarlier(n, m)', NEW x \in MatchEvent,
             matchEvents' = Append(matchEvents, x), x # SettledEvent(m.operation)
      PROVE  SettledEarlier(n, m)
  <2>1. /\ Len(matchEvents) \in Nat /\ DOMAIN matchEvents' = EventIndices'
        /\ DOMAIN matchEvents = EventIndices
        /\ \A i \in EventIndices : matchEvents'[i] = matchEvents[i]
        /\ matchEvents'[Len(matchEvents) + 1] = x
        /\ EventIndices' = EventIndices \cup {Len(matchEvents) + 1}
    BY <1>4, OneMoreEvent DEF MatchHistory, EventIndices
  <2>2. PICK i \in EventIndices', j \in EventIndices' :
           /\ i < j
           /\ matchEvents'[i] = SettledEvent(n.operation)
           /\ matchEvents'[j] = SettledEvent(m.operation)
    BY <1>4, <2>1 DEF SettledEarlier, SettledEvent
  <2>3. j \in EventIndices
    BY <1>4, <2>1, <2>2
  <2>4. i \in EventIndices
    BY <2>1, <2>2, <2>3 DEF EventIndices
  <2>5. QED
    BY <2>1, <2>2, <2>3, <2>4 DEF SettledEarlier, SettledEvent
<1>5. CASE HistoryKept
  <2>1. \A m, n : SettledEarlier(n, m)' = SettledEarlier(n, m)
    BY <1>5 DEF HistoryKept, SettledEarlier
  <2>2. QED
    BY <1>3, <1>5, <2>1 DEF HistoryKept, NoOverlapEver
<1>6. ASSUME NEW key, NEW new, HistorySettles(key, new) PROVE NoOverlapEver'
  <2>1. /\ SettledEvent(key) \in MatchEvent
        /\ matchEvents' = Append(matchEvents, SettledEvent(key))
        /\ matches' = matches \cup {new} /\ new.operation = key
        /\ key \notin DOMAIN operations
    BY <1>6 DEF HistorySettles, SettledEvent, MatchEvent
  <2>2. \A m \in matches : m.operation # key
    BY <1>1, <2>1 DEF MatchesMade
  <2>3. ASSUME NEW m \in matches, NEW n, SettledEarlier(n, m)'
        PROVE  SettledEarlier(n, m)
    <3>1. SettledEvent(key) # SettledEvent(m.operation)
      BY <2>2 DEF SettledEvent
    <3>2. QED
      BY <1>4, <2>1, <2>3, <3>1
  <2>4. ASSUME NEW m \in matches, SettledEarlier(new, m) PROVE FALSE
    <3>1. PICK i \in DOMAIN matchEvents : matchEvents[i] = SettledEvent(key)
      BY <2>1, <2>4 DEF SettledEarlier, SettledEvent
    <3>2. i \in EventIndices /\ SettledEvent(key).operation = key
      BY <3>1 DEF MatchHistory, EventIndices, SettledEvent
    <3>3. QED
      BY <2>1, <3>1, <3>2 DEF MatchHistory
  <2>5. ASSUME NEW n \in matches, new.evidence = "AMOUNT_INFERRED",
               (n.order \in SameAmountInWindow(entries[new.entry].report))'
        PROVE  FALSE
    <3>1. n.order \in DOMAIN orders /\ new.entry \in DOMAIN entries
      BY <1>1, <1>6 DEF MatchRows, HistorySettles
    <3>2. PICK s : s = entries[new.entry].report
      OBVIOUS
    <3>3. entries'[new.entry].report = s
      BY <1>2, <3>1, <3>2 DEF FixedColumns
    <3>4. (n.order \in SameAmountInWindow(s))'
      BY <2>5, <3>3
    <3>5. n.order \in SameAmountInWindow(s)
      BY <1>1, <3>1, <3>4, WindowsNeverGrow
    <3>6. QED
      BY <1>6, <2>5, <3>2, <3>5 DEF HistorySettles
  <2>6. ASSUME NEW m \in matches', NEW n \in matches', m # n, m.evidence = "AMOUNT_INFERRED",
               SettledEarlier(n, m)',
               (n.order \in SameAmountInWindow(entries[m.entry].report))'
        PROVE  FALSE
    <3>1. CASE m = new
      BY <2>1, <2>5, <2>6, <3>1
    <3>2. CASE m \in matches
      <4>1. SettledEarlier(n, m)
        BY <2>3, <2>6, <3>2
      <4>2. n \in matches
        BY <2>1, <2>4, <3>2, <4>1
      <4>3. QED
        BY <1>3, <2>6, <3>2, <4>1, <4>2 DEF NoOverlapEver
    <3>3. QED
      BY <2>1, <3>1, <3>2
  <2>7. QED
    BY <2>6 DEF NoOverlapEver
<1>7. ASSUME NEW r, NEW new, HistoryReverses(r, new) PROVE NoOverlapEver'
  <2>1. /\ r \in matches /\ matches' = (matches \ {r}) \cup {new}
        /\ new.operation = r.operation /\ new.entry = r.entry /\ new.order = r.order
        /\ new.evidence = r.evidence
        /\ matchEvents' = Append(matchEvents, ReversedEvent(r.operation))
    BY <1>7 DEF HistoryReverses
  <2>2. ReversedEvent(r.operation) \in MatchEvent
    BY <1>1, <2>1 DEF ReversedEvent, MatchEvent, MatchRows, Match
  <2>3. \A key : ReversedEvent(r.operation) # SettledEvent(key)
    BY DEF ReversedEvent, SettledEvent
  <2>4. ASSUME NEW m \in matches' PROVE \E b \in matches :
            /\ b.operation = m.operation /\ b.entry = m.entry /\ b.order = m.order
            /\ b.evidence = m.evidence
            /\ b = IF m = new THEN r ELSE m
    BY <2>1
  <2>5. ASSUME NEW m \in matches', NEW n \in matches', m # n, m.evidence = "AMOUNT_INFERRED",
               SettledEarlier(n, m)',
               (n.order \in SameAmountInWindow(entries[m.entry].report))'
        PROVE  FALSE
    <3>1. PICK b \in matches : /\ b.operation = m.operation /\ b.entry = m.entry
                               /\ b.order = m.order /\ b.evidence = m.evidence
                               /\ b = IF m = new THEN r ELSE m
      BY <2>4
    <3>2. PICK c \in matches : /\ c.operation = n.operation /\ c.entry = n.entry
                               /\ c.order = n.order /\ c.evidence = n.evidence
                               /\ c = IF n = new THEN r ELSE n
      BY <2>4
    <3>3. b # c
      BY <2>1, <2>5, <3>1, <3>2
    <3>4. SettledEarlier(n, m)
      BY <1>4, <2>1, <2>2, <2>3, <2>5
    <3>5. SettledEarlier(c, b)
      BY <3>1, <3>2, <3>4 DEF SettledEarlier
    <3>6. (c.order \in SameAmountInWindow(entries[b.entry].report))'
      BY <2>5, <3>1, <3>2
    <3>7. c.order \in SameAmountInWindow(entries[b.entry].report)
      BY <1>3, <3>6
    <3>8. QED
      BY <2>5, <3>1, <3>3, <3>5, <3>7 DEF NoOverlapEver
  <2>6. QED
    BY <2>5 DEF NoOverlapEver
<1>8. QED
  BY <1>1, <1>5, <1>6, <1>7, HistoryKinds

-----------------------------------------------------------------------------
(* The startup check.                                                      *)

HInv == /\ VInv /\ GInv /\ XInv
        /\ MatchHistory /\ NoOverlapEver
        /\ AmbiguousHasTwo /\ ResolvedIssues

LEMMA InitHInv == RInit => HInv
<1> SUFFICES ASSUME RInit PROVE HInv
  OBVIOUS
<1>1. VInv /\ GInv /\ XInv
  BY InitVInv, InitGInv, InitXInv
<1>2. /\ matches = {} /\ exceptions = {} /\ DOMAIN entries = {}
      /\ matchEvents = <<>>
  BY DEF RInit
<1>3. matchEvents \in Seq(MatchEvent) /\ Len(matchEvents) = 0
  BY <1>2
<1>4. MatchHistory
  BY <1>2, <1>3 DEF MatchHistory, EventIndices
<1>5. QED
  BY <1>1, <1>2, <1>4 DEF HInv, NoOverlapEver, AmbiguousHasTwo, ResolvedIssues

LEMMA StepHInv == HInv /\ [RNext]_rvars => HInv'
<1> SUFFICES ASSUME HInv, [RNext]_rvars PROVE HInv'
  OBVIOUS
<1>1. VInv /\ BInv /\ OInv /\ SInv /\ GInv /\ XInv
  BY DEF HInv, VInv, BInv, OInv, CInv
<1>2. VInv' /\ GInv' /\ XInv'
  BY <1>1, StepVInv, StepGInv, StepXInv
<1>3. MatchHistory' /\ NoOverlapEver'
  BY <1>1, StepMatchHistory, StepNoOverlap DEF HInv
<1>4. AmbiguousHasTwo'
  BY <1>1, StepAmbiguous DEF HInv
<1>5. ResolvedIssues'
  BY <1>1, StepResolvedIssues DEF HInv
<1>6. QED
  BY <1>2, <1>3, <1>4, <1>5 DEF HInv

LEMMA HInvariance == RSpec => []HInv
BY InitHInv, StepHInv, PTL DEF RSpec

LEMMA OneIs ==
    ASSUME NEW S, NEW x \in S, \A y \in S : y = x PROVE One(S) /\ Cardinality(S) = 1
<1>1. S = {x}
  OBVIOUS
<1>2. QED
  BY <1>1, FS_Singleton DEF One

LEMMA TwoAre ==
    ASSUME NEW x, NEW y, x # y
    PROVE  Cardinality({x, y}) = 2 /\ IsFiniteSet({x, y})
<1>1. IsFiniteSet({x}) /\ Cardinality({x}) = 1
  BY FS_Singleton
<1>2. Cardinality({x} \cup {y}) = Cardinality({x}) + 1 /\ IsFiniteSet({x} \cup {y})
  BY <1>1, FS_AddElement
<1>3. {x, y} = {x} \cup {y}
  OBVIOUS
<1>4. QED
  BY <1>1, <1>2, <1>3

(* One candidate, one decision.                                            *)
LEMMA CandidatesAreAccepted ==
    ASSUME OInv, NEW p \in DOMAIN candidates
    PROVE  CandidateInWindow(entries[p[1]].report, orders[p[2]]) /\ CandidateDecided(p)
<1>1. /\ p = <<p[1], p[2]>> /\ p[1] \in Entries /\ p[2] \in Orders
      /\ candidates[p] \in {"ELIGIBLE", "SUPERSEDED", "SELECTED"}
  BY DEF OInv, CInv, CandidateRows, SInv, EntryRows, RInv, IInv, RowsTyped
<1>2. PICK e \in Entries, o \in Orders : e = p[1] /\ o = p[2] /\ p = <<e, o>>
  BY <1>1
<1>3. /\ AutoKey(e, o) \in DOMAIN operations <=> candidates[p] = "SELECTED"
      /\ SupersedeKey(e, o) \in DOMAIN operations <=> candidates[p] = "SUPERSEDED"
      /\ AutoKey(e, o) \in DOMAIN operations =>
            operations[AutoKey(e, o)] = OperationRow("AUTO_SETTLEMENT", e, o, AutoKey(e, o))
      /\ SupersedeKey(e, o) \in DOMAIN operations =>
            operations[SupersedeKey(e, o)] = SupersedeOperation(<<e, o>>)
  BY <1>2 DEF OInv, OperationsDecide, HasStatus
<1>4. ASSUME candidates[p] = "ELIGIBLE" PROVE CandidateDecided(p)
  BY <1>2, <1>3, <1>4 DEF CandidateDecided
<1>5. ASSUME candidates[p] = "SELECTED" PROVE CandidateDecided(p)
  <2>1. DecisionKey(p) = AutoKey(e, o)
    BY <1>2, <1>5 DEF DecisionKey
  <2>2. /\ operations[AutoKey(e, o)].entry = e /\ operations[AutoKey(e, o)].order = o
        /\ operations[AutoKey(e, o)].type = "AUTO_SETTLEMENT"
    BY <1>3, <1>5 DEF OperationRow
  <2>3. QED
    BY <1>2, <1>3, <1>5, <2>1, <2>2 DEF CandidateDecided
<1>6. ASSUME candidates[p] = "SUPERSEDED" PROVE CandidateDecided(p)
  <2>1. DecisionKey(p) = SupersedeKey(e, o)
    BY <1>2, <1>6 DEF DecisionKey
  <2>2. /\ operations[SupersedeKey(e, o)].entry = e /\ operations[SupersedeKey(e, o)].order = o
        /\ operations[SupersedeKey(e, o)].type = "SUPERSEDE_CANDIDATE"
    BY <1>3, <1>6 DEF SupersedeOperation
  <2>3. QED
    BY <1>2, <1>3, <1>6, <2>1, <2>2 DEF CandidateDecided
<1>7. QED
  BY <1>1, <1>4, <1>5, <1>6 DEF OInv, CandidatesInWindow

LEMMA MatchesAreAccepted ==
    ASSUME BInv, NEW m \in matches PROVE MatchAccepted(m)
<1>1. SInv /\ OInv /\ MatchesMade /\ SettlementsAgree
  BY DEF BInv, OInv, CInv, SInv
<1>2. PICK e, o, k : e = m.entry /\ o = m.order /\ k = m.operation
  OBVIOUS
<1>3. /\ e \in DOMAIN entries /\ o \in DOMAIN orders /\ e \in Entries /\ o \in Orders
      /\ m.evidence \in {"AMOUNT_INFERRED", "MANUAL"} /\ m.status \in {"SETTLED", "REVERSED"}
  BY <1>1, <1>2 DEF SInv, MatchRows, Match
<1>4. /\ k \in DOMAIN operations
      /\ operations[k] = OperationRow(SettlementType(m.evidence), e, o, k)
  BY <1>1, <1>2 DEF MatchesMade
<1>5. /\ operations[k].entry = e /\ operations[k].order = o
      /\ operations[k].type = SettlementType(m.evidence)
  BY <1>4 DEF OperationRow
<1>6. m.evidence = "AMOUNT_INFERRED" =>
         <<e, o>> \in DOMAIN candidates /\ candidates[<<e, o>>] = "SELECTED"
  <2>1. SUFFICES ASSUME m.evidence = "AMOUNT_INFERRED"
                 PROVE  <<e, o>> \in DOMAIN candidates /\ candidates[<<e, o>>] = "SELECTED"
    OBVIOUS
  <2>2. operations[k].type = "AUTO_SETTLEMENT"
    BY <1>5, <2>1 DEF SettlementType
  <2>3. k = AutoKey(e, o)
    BY <1>1, <1>4, <1>5, <2>2 DEF OInv, OperationRows
  <2>4. QED
    BY <1>1, <1>3, <1>4, <2>3 DEF OInv, OperationsDecide, HasStatus
<1>7. m.status = "SETTLED" =>
         /\ entries[e].state = "ALLOCATED" /\ orders[o].payment = "CONFIRMED"
         /\ orders[o].basis \in {"INFERRED", "MANUAL"}
         /\ orders[o].received = entries[e].report.amount
         /\ m.resolution = k
  <2>1. SUFFICES ASSUME m.status = "SETTLED"
                 PROVE  /\ entries[e].state = "ALLOCATED" /\ orders[o].payment = "CONFIRMED"
                        /\ orders[o].basis \in {"INFERRED", "MANUAL"}
                        /\ orders[o].received = entries[e].report.amount
                        /\ m.resolution = k
    OBVIOUS
  <2>2. m \in ActiveMatches(e) /\ m \in ActiveMatchesOfOrder(o)
    BY <1>2, <2>1 DEF ActiveMatches, ActiveMatchesOfOrder
  <2>3. entries[e].state = "ALLOCATED" /\ orders[o].payment = "CONFIRMED"
    BY <1>1, <1>3, <2>2 DEF SettlementsAgree
  <2>4. QED
    BY <1>1, <1>2, <2>1, <2>3 DEF MatchesMade
<1>8. m.status = "REVERSED" =>
         /\ operations[m.resolution].type = "REVERSE_SETTLEMENT"
         /\ entries[e].state = "CONFLICT" \/ ActiveMatches(e) # {}
         /\ orders[o].payment = "DISPUTED"
  <2>1. SUFFICES ASSUME m.status = "REVERSED"
                 PROVE  /\ operations[m.resolution].type = "REVERSE_SETTLEMENT"
                        /\ entries[e].state = "CONFLICT" \/ ActiveMatches(e) # {}
                        /\ orders[o].payment = "DISPUTED"
    OBVIOUS
  <2>2. operations[m.resolution].type = "REVERSE_SETTLEMENT"
    <3>1. operations[m.resolution] = OperationRow("REVERSE_SETTLEMENT", e, o, k)
      BY <1>1, <1>2, <2>1 DEF MatchesMade
    <3>2. QED
      BY <3>1 DEF OperationRow
  <2>3. entries[e].state = "CONFLICT" \/ ActiveMatches(e) # {}
    BY <1>1, <1>2, <1>3 DEF SettlementsAgree
  <2>4. ActiveMatchesOfOrder(o) = {}
    BY <1>1, <1>2, <2>1, OnlyMatchOfOrder DEF ActiveMatchesOfOrder
  <2>5. orders[o].payment # "CONFIRMED"
    BY <1>1, <1>3, <2>4 DEF SettlementsAgree
  <2>6. orders[o].payment # "UNPAID"
    BY <1>1, <1>2, <1>3, UnpaidHasNoMatch
  <2>7. orders[o].payment \in {"UNPAID", "CONFIRMED", "DISPUTED"}
    BY <1>1, <1>3 DEF SInv, RInv, IInv, RowsTyped, Row, PaymentStatuses
  <2>8. QED
    BY <2>2, <2>3, <2>5, <2>6, <2>7
<1>9. QED
  BY <1>2, <1>3, <1>4, <1>5, <1>6, <1>7, <1>8 DEF MatchAccepted, SettlementType

LEMMA MatchEventsAreAccepted ==
    ASSUME SInv, MatchHistory PROVE MatchEventsAccepted
<1> SUFFICES ASSUME NEW m \in matches
             PROVE  /\ Cardinality(MatchEventsOf(m)) = IF m.status = "SETTLED" THEN 1 ELSE 2
                    /\ \E first \in MatchEventsOf(m) :
                          /\ \A i \in MatchEventsOf(m) : first <= i
                          /\ matchEvents[first].status = "SETTLED"
  BY DEF MatchEventsAccepted
<1>1. m.status \in {"SETTLED", "REVERSED"}
  BY DEF SInv, MatchRows, Match
<1>2. PICK i \in EventIndices :
         /\ matchEvents[i] = SettledEvent(m.operation)
         /\ m.status = "SETTLED" => MatchEventsOf(m) = {i}
         /\ m.status = "REVERSED" =>
               \E j \in EventIndices : i < j /\ MatchEventsOf(m) = {i, j}
  BY DEF MatchHistory, HistoryOf
<1>3. matchEvents[i].status = "SETTLED" /\ i \in Int
  BY <1>2 DEF SettledEvent, EventIndices
<1>4. CASE m.status = "SETTLED"
  BY <1>2, <1>3, <1>4, FS_Singleton
<1>5. CASE m.status = "REVERSED"
  <2>1. PICK j \in EventIndices : i < j /\ MatchEventsOf(m) = {i, j}
    BY <1>2, <1>5
  <2>2. j \in Int
    BY DEF EventIndices
  <2>3. i # j /\ i <= j /\ i <= i
    BY <1>3, <2>1, <2>2
  <2>4. Cardinality(MatchEventsOf(m)) = 2
    <3>1. Cardinality({i, j}) = 2
      BY <2>3, TwoAre
    <3>2. QED
      BY <2>1, <3>1
  <2>5. QED
    BY <1>3, <1>5, <2>1, <2>3, <2>4
<1>6. QED
  BY <1>1, <1>4, <1>5

LEMMA NoOverlapIsAccepted ==
    ASSUME NoOverlapEver PROVE NoHistoricalOverlap
BY DEF NoOverlapEver, NoHistoricalOverlap, SettledOverlap

LEMMA StatesAgree ==
    ASSUME CInv, IsFiniteSet(DOMAIN orders), AmbiguousHasTwo PROVE EffectiveStatesAgree
<1>1. SInv /\ SettlementsAgree /\ CandidateRows
  BY DEF CInv, SInv
<1>2. ASSUME NEW e \in DOMAIN entries
      PROVE  /\ entries[e].state = "ALLOCATED" => Cardinality(ActiveMatches(e)) = 1
             /\ entries[e].state \in {"UNALLOCATED", "CONFLICT"} => ActiveMatches(e) = {}
  <2>1. /\ \A m, n \in ActiveMatches(e) : m = n
        /\ entries[e].state = "ALLOCATED" <=> ActiveMatches(e) # {}
    BY <1>1 DEF SettlementsAgree
  <2>2. CASE entries[e].state = "ALLOCATED"
    <3>1. PICK m \in ActiveMatches(e) : TRUE
      BY <2>1, <2>2
    <3>2. Cardinality(ActiveMatches(e)) = 1
      BY <2>1, <3>1, OneIs
    <3>3. QED
      BY <2>2, <3>2
  <2>3. CASE entries[e].state # "ALLOCATED"
    BY <2>1, <2>3
  <2>4. QED
    BY <2>2, <2>3
<1>3. ASSUME NEW e \in DOMAIN entries, entries[e].state = "CANDIDATE"
      PROVE  Cardinality(EligibleOf(e)) >= 2
  <2>1. PICK x \in DOMAIN orders, y \in DOMAIN orders :
           x # y /\ <<e, x>> \in EligibleOf(e) /\ <<e, y>> \in EligibleOf(e)
    BY <1>3 DEF AmbiguousHasTwo
  <2>2. EligibleOf(e) \subseteq {e} \X DOMAIN orders
    BY <1>1 DEF EligibleOf, CandidateRows
  <2>3. IsFiniteSet({e} \X DOMAIN orders)
    BY FS_Singleton, FS_Product
  <2>4. IsFiniteSet(EligibleOf(e))
    BY <2>2, <2>3, FS_Subset
  <2>5. PICK P : P = {<<e, x>>, <<e, y>>}
    OBVIOUS
  <2>6. Cardinality(P) = 2 /\ IsFiniteSet(P)
    BY <2>1, <2>5, TwoAre
  <2>7. Cardinality(P) <= Cardinality(EligibleOf(e))
    BY <2>1, <2>4, <2>5, FS_Subset
  <2>8. Cardinality(EligibleOf(e)) \in Nat
    BY <2>4, FS_CardinalityType
  <2>9. QED
    BY <2>6, <2>7, <2>8
<1>4. ASSUME NEW o \in DOMAIN orders
      PROVE  IF orders[o].payment = "CONFIRMED" THEN Cardinality(ActiveMatchesOfOrder(o)) = 1
                                                ELSE ActiveMatchesOfOrder(o) = {}
  <2>1. /\ \A m, n \in ActiveMatchesOfOrder(o) : m = n
        /\ orders[o].payment = "CONFIRMED" <=> ActiveMatchesOfOrder(o) # {}
    BY <1>1 DEF SettlementsAgree, ActiveMatchesOfOrder
  <2>2. CASE orders[o].payment = "CONFIRMED"
    <3>1. PICK m \in ActiveMatchesOfOrder(o) : TRUE
      BY <2>1, <2>2
    <3>2. Cardinality(ActiveMatchesOfOrder(o)) = 1
      BY <2>1, <3>1, OneIs
    <3>3. QED
      BY <2>2, <3>2
  <2>3. QED
    BY <2>1, <2>2
<1>5. QED
  BY <1>2, <1>3, <1>4 DEF EffectiveStatesAgree

LEMMA OperationsAreAccepted ==
    ASSUME VInv, NEW k \in DOMAIN operations PROVE OperationAccepted(k)
<1>1. SInv /\ OInv /\ BInv /\ MatchesMade /\ CandidateRows
  BY DEF VInv, BInv, OInv, CInv
<1>2. PICK type, e, o : type = operations[k].type /\ e = operations[k].entry
                        /\ o = operations[k].order
  OBVIOUS
<1>3. /\ e \in Entries /\ o \in Orders /\ type \in OperationTypes
      /\ type = "AUTO_SETTLEMENT" => k = AutoKey(e, o)
      /\ type = "SUPERSEDE_CANDIDATE" => k = SupersedeKey(e, o)
  BY <1>1, <1>2 DEF OInv, OperationRows, CInv, SInv, EntryRows, RInv, IInv, RowsTyped
<1>4. ASSUME type \in {"AUTO_SETTLEMENT", "SUPERSEDE_CANDIDATE"}
      PROVE  One({p \in DOMAIN candidates : candidates[p] # "ELIGIBLE" /\ DecisionKey(p) = k})
  <2>1. PICK c : c = <<e, o>>
    OBVIOUS
  <2>2. c[1] = e /\ c[2] = o
    BY <2>1
  <2>3. /\ c \in DOMAIN candidates /\ candidates[c] # "ELIGIBLE"
        /\ DecisionKey(c) = k
    <3>1. CASE type = "AUTO_SETTLEMENT"
      <4>1. k = AutoKey(e, o) /\ HasStatus(c, "SELECTED")
        BY <1>1, <1>3, <2>1, <3>1 DEF OInv, OperationsDecide
      <4>2. QED
        BY <2>2, <4>1 DEF HasStatus, DecisionKey
    <3>2. CASE type = "SUPERSEDE_CANDIDATE"
      <4>1. k = SupersedeKey(e, o) /\ HasStatus(c, "SUPERSEDED")
        BY <1>1, <1>3, <2>1, <3>2 DEF OInv, OperationsDecide
      <4>2. QED
        BY <2>2, <4>1 DEF HasStatus, DecisionKey
    <3>3. QED
      BY <1>4, <3>1, <3>2
  <2>4. ASSUME NEW p \in DOMAIN candidates, DecisionKey(p) = k
        PROVE  p = c
    <3>1. p = <<p[1], p[2]>>
      BY <1>1 DEF CandidateRows
    <3>2. \/ k = AutoKey(p[1], p[2]) \/ k = SupersedeKey(p[1], p[2])
      BY <2>4 DEF DecisionKey
    <3>3. p[1] = e /\ p[2] = o
      BY <1>3, <1>4, <3>2, KeysDiffer
    <3>4. QED
      BY <2>1, <3>1, <3>3
  <2>5. QED
    BY <2>3, <2>4, OneIs
<1>5. ASSUME type \in {"AUTO_SETTLEMENT", "MANUAL_SETTLEMENT"}
      PROVE  One({m \in matches : m.operation = k})
  <2>1. PICK m \in matches : m.operation = k
    BY <1>1, <1>2, <1>5 DEF BInv, OperationsMatched
  <2>2. \A n \in matches : n.operation = k => n = m
    BY <1>1, <2>1, MatchOfOperation
  <2>3. QED
    BY <2>1, <2>2, OneIs
<1>6. ASSUME type = "REVERSE_SETTLEMENT"
      PROVE  One({m \in matches : m.resolution = k})
  <2>1. PICK m \in matches : m.resolution = k
    BY <1>1, <1>2, <1>6 DEF BInv, OperationsMatched
  <2>2. \A n \in matches : n.resolution = k => n = m
    BY <1>1, <2>1, MatchOfOperation
  <2>3. QED
    BY <2>1, <2>2, OneIs
<1>7. ASSUME type # "SUPERSEDE_CANDIDATE"
      PROVE  One({x \in journal : x.operation = k}) /\ One({x \in outbox : x.operation = k})
  <2>1. One({x \in journal : x.operation = k})
    <3>1. PICK x \in journal : x.operation = k
      BY <1>1, <1>2, <1>7 DEF BInv, JournalKept
    <3>2. \A y \in journal : y.operation = k => y = x
      BY <1>1, <3>1 DEF BInv, JournalKept
    <3>3. QED
      BY <3>1, <3>2, OneIs
  <2>2. One({x \in outbox : x.operation = k})
    <3>1. PICK x \in outbox : x.operation = k
      BY <1>2, <1>7 DEF VInv, OutboxKept
    <3>2. \A y \in outbox : y.operation = k => y = x
      BY <3>1 DEF VInv, OutboxKept
    <3>3. QED
      BY <3>1, <3>2, OneIs
  <2>3. QED
    BY <2>1, <2>2
<1>8. QED
  BY <1>2, <1>4, <1>5, <1>6, <1>7 DEF OperationAccepted

LEMMA PaymentEventsAreAccepted ==
    ASSUME VInv PROVE PaymentEventsAccepted
<1>1. OInv /\ OutboxKept
  BY DEF VInv, BInv
<1>2. \A o \in DOMAIN orders : DOMAIN events[o] = 1..Len(events[o])
  BY <1>1, EventsAreSequences
<1>3. ASSUME NEW o \in DOMAIN orders, NEW i \in DOMAIN events[o],
             events[o][i].type \in {"PAYMENT_CONFIRMED", "PAYMENT_DISPUTED"}
      PROVE  One({x \in outbox : /\ x.order = o /\ x.version = i
                                 /\ x.type = events[o][i].type
                                 /\ x.type = PaymentEventType(operations[x.operation].type)})
  <2>1. PICK x \in outbox : x.order = o /\ x.version = i
    BY <1>1, <1>2, <1>3 DEF OutboxKept, PaymentEvents
  <2>2. x.type = events[o][i].type /\ x.type = PaymentEventType(operations[x.operation].type)
    BY <1>1, <2>1 DEF OutboxKept, OutboxRow
  <2>3. \A y \in outbox : y.order = o /\ y.version = i => y = x
    BY <1>1, <2>1 DEF OutboxKept
  <2>4. QED
    BY <2>1, <2>2, <2>3, OneIs
<1>4. ASSUME NEW k \in DOMAIN operations, operations[k].type # "SUPERSEDE_CANDIDATE",
             NEW o, o = operations[k].order
      PROVE  One({i \in DOMAIN events[o] :
                     /\ events[o][i].type = PaymentEventType(operations[k].type)
                     /\ \E x \in outbox : x.operation = k /\ x.version = i})
  <2>1. PICK x \in outbox : x.operation = k
    BY <1>1, <1>4 DEF OutboxKept
  <2>2. /\ x.order = o /\ o \in DOMAIN orders
        /\ x.type = PaymentEventType(operations[k].type)
        /\ x.version \in 1..Len(events[o]) /\ events[o][x.version].type = x.type
    BY <1>1, <1>4, <2>1 DEF OutboxKept, OutboxRow, OutboxAccepted
  <2>3. x.version \in DOMAIN events[o]
    BY <1>2, <2>2
  <2>4. \A y \in outbox : y.operation = k => y = x
    BY <1>1, <2>1 DEF OutboxKept
  <2>5. PICK S : S = {i \in DOMAIN events[o] :
                        /\ events[o][i].type = PaymentEventType(operations[k].type)
                        /\ \E y \in outbox : y.operation = k /\ y.version = i}
    OBVIOUS
  <2>6. x.version \in S
    BY <2>1, <2>2, <2>3, <2>5
  <2>7. \A i \in S : i = x.version
    BY <2>4, <2>5
  <2>8. QED
    BY <2>5, <2>6, <2>7, OneIs
<1>5. QED
  BY <1>3, <1>4 DEF PaymentEventsAccepted

LEMMA IssuesAreAccepted ==
    ASSUME BInv, ResolvedIssues, NEW x \in exceptions PROVE ExceptionAccepted(x)
<1>1. SUFFICES ASSUME x.status = "RESOLVED"
               PROVE  /\ x.by \in DOMAIN operations
                      /\ operations[x.by].type \in {"AUTO_SETTLEMENT", "MANUAL_SETTLEMENT"}
                      /\ operations[x.by].entry = x.entry
                      /\ \E m \in matches : /\ m.operation = x.by /\ m.entry = x.entry
                                            /\ m.order = operations[x.by].order
  BY DEF ExceptionAccepted
<1>2. /\ x.by \in DOMAIN operations
      /\ operations[x.by].type \in {"AUTO_SETTLEMENT", "MANUAL_SETTLEMENT"}
      /\ operations[x.by].entry = x.entry
  BY <1>1 DEF ResolvedIssues
<1>3. PICK m \in matches : m.operation = x.by
  BY <1>2 DEF BInv, OperationsMatched
<1>4. operations[x.by].entry = m.entry /\ operations[x.by].order = m.order
  <2>1. operations[x.by] =
           OperationRow(SettlementType(m.evidence), m.entry, m.order, m.operation)
    BY <1>3 DEF BInv, MatchesMade
  <2>2. QED
    BY <2>1 DEF OperationRow
<1>5. QED
  BY <1>2, <1>3, <1>4

LEMMA StartupFollows ==
    ASSUME HInv PROVE StartupAccepts
<1>1. VInv /\ BInv /\ OInv /\ CInv /\ SInv /\ GInv
  BY DEF HInv, VInv, BInv, OInv, CInv
<1>2. SlotsAccepted
  BY <1>1, SlotsAreAccepted
<1>3. OrderEventsAccepted
  BY <1>1 DEF VInv
<1>4. MatchEventsAccepted /\ NoHistoricalOverlap
  BY <1>1, MatchEventsAreAccepted, NoOverlapIsAccepted DEF HInv
<1>5. EffectiveStatesAgree
  BY <1>1, StatesAgree DEF HInv, GInv
<1>6. \A x \in journal : PostingAccepted(x)
  BY <1>1 DEF BInv, JournalKept
<1>7. \A x \in outbox : OutboxAccepted(x)
  BY <1>1 DEF VInv, OutboxKept, OutboxRow
<1>8. \A x \in exceptions : ExceptionAccepted(x)
  BY <1>1, IssuesAreAccepted DEF HInv
<1>9. PaymentEventsAccepted
  BY <1>1, PaymentEventsAreAccepted
<1>10. \A k \in DOMAIN operations : OperationAccepted(k)
  BY <1>1, OperationsAreAccepted
<1>11. \A m \in matches : MatchAccepted(m)
  BY <1>1, MatchesAreAccepted
<1>12. \A p \in DOMAIN candidates :
          /\ CandidateInWindow(entries[p[1]].report, orders[p[2]])
          /\ CandidateDecided(p)
  BY <1>1, CandidatesAreAccepted
<1>13. QED
  BY <1>2, <1>3, <1>4, <1>5, <1>6, <1>7, <1>8, <1>9, <1>10, <1>11, <1>12 DEF StartupAccepts

-----------------------------------------------------------------------------
(* The release of the slots under the candidates.  A movement is recorded  *)
(* SafetyLag after it happened, and a slot is released no earlier than the *)
(* wall clock says: the release comes first only when the wall clock was   *)
(* set back in between.                                                    *)

WallClockNeverSetBack == [][physical <= physical']_rvars

EntriesPast == \A e \in DOMAIN entries : entries[e].report.occurred < physical

PInv == EntriesPast /\ CandidatesStayAcceptable

(* Whatever ends a checkout uses the logical clock.                        *)
LEMMA EndsByWallClock ==
    ASSUME IInv, [Next]_vars PROVE orders' = orders \/ physical <= clock'
<1>1. physical <= LogicalNow
  BY DEF IInv, RestTyped, LogicalNow, Max2
<1>2. AdvanceClock => physical <= clock'
  BY <1>1 DEF AdvanceClock
<1>3. CASE Next
  BY <1>2, <1>3 DEF Next, CreateOrder, ReadOrder, CloseOrder, PublicCheckout, AdminOrderPage,
                    Tick, SetBack
<1>4. CASE UNCHANGED vars
  BY <1>4 DEF vars
<1>5. QED
  BY <1>3, <1>4

LEMMA ReleasedByWallClock ==
    ASSUME SInv, [RNext]_rvars, NEW o \in DOMAIN orders
    PROVE  orders'[o].released = orders[o].released \/ physical <= orders'[o].released
<1>1. IInv /\ RestTyped /\ RowsTyped
  BY DEF SInv, RInv, IInv
<1>2. CASE SlotsStay
  BY <1>2 DEF SlotsStay
<1>3. CASE [Next]_vars
  <2>1. orders' = orders \/ physical <= clock'
    BY <1>1, <1>3, EndsByWallClock
  <2>2. RowsStep
    <3>1. CASE Next
      BY <1>1, <3>1, NextKinds DEF UpdateStep, InsertStep
    <3>2. CASE UNCHANGED vars
      BY <1>1, <3>2, StutterIsUpdate DEF vars, UpdateStep
    <3>3. QED
      BY <1>3, <3>1, <3>2
  <2>3. orders[o] \in Row /\ clock' \in Nat /\ RowStep(orders[o], orders'[o], clock')
    BY <1>1, <2>2 DEF RowsTyped, RowsStep
  <2>4. orders'[o] = orders[o] \/ orders'[o].released = clock'
    BY <2>3, RowStepFacts
  <2>5. QED
    BY <2>1, <2>4
<1>4. QED
  BY <1>2, <1>3, SlotKinds

(* A candidate that is new was in its window, release included.            *)
LEMMA NewCandidatesInWindow ==
    ASSUME CInv, [RNext]_rvars, NEW p \in DOMAIN candidates' \ DOMAIN candidates
    PROVE  /\ p[1] \in DOMAIN entries
           /\ p[2] \in CandidateFacts(entries[p[1]].report)
<1>1. ASSUME NEW e \in DOMAIN entries, NEW stale, NEW selected,
             CandidatesGrow(e, stale, selected)
      PROVE  /\ p[1] \in DOMAIN entries
             /\ p[2] \in CandidateFacts(entries[p[1]].report)
  <2>1. PICK o \in CandidateFacts(entries[e].report) : p = <<e, o>>
    BY <1>1 DEF CandidatesGrow
  <2>2. p[1] = e /\ p[2] = o
    BY <2>1
  <2>3. QED
    BY <2>2
<1>2. CASE Quiet
  BY <1>2 DEF Quiet
<1>3. ASSUME NEW e \in DOMAIN entries, Leaving(e)
      PROVE  \E f \in DOMAIN entries : \E stale, selected : CandidatesGrow(f, stale, selected)
  BY <1>3 DEF Leaving
<1>4. ASSUME NEW e \in DOMAIN entries, NEW o \in DOMAIN orders, AutoSettling(e, o)
      PROVE  \E f \in DOMAIN entries : \E stale, selected : CandidatesGrow(f, stale, selected)
  BY <1>4 DEF AutoSettling, Settling
<1>5. ASSUME NEW d \in Decisions, NEW e \in DOMAIN entries, NEW o \in DOMAIN orders,
             HandSettling(d, e, o)
      PROVE  \E f \in DOMAIN entries : \E stale, selected : CandidatesGrow(f, stale, selected)
  BY <1>5 DEF HandSettling, Settling
<1>6. ASSUME NEW d \in Decisions, NEW m \in matches, Reverses(d, m)
      PROVE  candidates' = candidates
  BY <1>6 DEF Reverses
<1>7. QED
  BY <1>1, <1>2, <1>3, <1>4, <1>5, <1>6, BookKinds

LEMMA OnlyRecordEntryAdds ==
    ASSUME RInv, [RNext]_rvars, NEW e \in DOMAIN entries' \ DOMAIN entries
    PROVE  \E s \in Statements : RecordEntry(e, s)
<1>1. CASE MoneyStays
  BY <1>1 DEF MoneyStays, money
<1>2. ASSUME NEW f \in Entries \ DOMAIN entries, NEW s \in Statements, RecordEntry(f, s)
      PROVE  f = e
  BY <1>2 DEF RecordEntry
<1>3. ASSUME NEW f \in DOMAIN entries, FindConflict(f) \/ ResolveConflict(f) PROVE FALSE
  BY <1>3 DEF FindConflict, ResolveConflict
<1>4. ASSUME NEW f \in DOMAIN entries, Leaves(f) PROVE FALSE
  BY <1>4 DEF Leaves, LeaveUnmatched, LeaveAmbiguous
<1>5. ASSUME NEW f \in DOMAIN entries, NEW o \in DOMAIN orders, AutoSettles(f, o) PROVE FALSE
  BY <1>5 DEF AutoSettles, AutoSettle, WriteSettlement
<1>6. ASSUME NEW d \in Decisions, NEW f \in DOMAIN entries, NEW o \in DOMAIN orders,
             ManuallySettles(d, f, o)
      PROVE  FALSE
  BY <1>6 DEF ManuallySettles, WriteSettlement
<1>7. ASSUME NEW d \in Decisions, NEW m \in matches, Reverses(d, m) PROVE FALSE
  BY <1>7 DEF Reverses
<1>8. QED
  BY <1>1, <1>2, <1>3, <1>4, <1>5, <1>6, <1>7, MoneyKinds

LEMMA StepEntriesPast ==
    ASSUME OInv, EntriesPast, [RNext]_rvars, physical <= physical' \/ UNCHANGED rvars
    PROVE  EntriesPast'
<1>1. SInv /\ RInv /\ RestTyped /\ EntryRows
  BY DEF OInv, CInv, SInv, RInv, IInv
<1>2. physical \in Nat /\ physical' \in Nat /\ physical <= physical'
  <2>1. RestTyped'
    BY <1>1, StepSInv DEF SInv, RInv, IInv
  <2>2. physical \in Nat /\ physical' \in Nat
    BY <1>1, <2>1 DEF RestTyped
  <2>3. QED
    BY <2>2 DEF rvars, vars
<1> SUFFICES ASSUME NEW e \in DOMAIN entries'
             PROVE  entries'[e].report.occurred < physical'
  BY DEF EntriesPast
<1>3. CASE e \in DOMAIN entries
  <2>1. entries'[e].report = entries[e].report
    BY <1>3, OperationsStay DEF FixedColumns
  <2>2. entries[e].report.occurred \in Nat
    BY <1>1, <1>3, LedgerAssumption DEF EntryRows, Entry
  <2>3. QED
    BY <1>2, <1>3, <2>1, <2>2 DEF EntriesPast
<1>4. CASE e \notin DOMAIN entries
  <2>1. PICK s \in Statements : RecordEntry(e, s)
    BY <1>1, <1>4, OnlyRecordEntryAdds
  <2>2. s.occurred + SafetyLag <= physical /\ entries'[e].report = s
    BY <2>1 DEF RecordEntry
  <2>3. s.occurred \in Nat /\ SafetyLag \in Nat \ {0}
    BY LedgerAssumption
  <2>4. QED
    BY <1>2, <2>2, <2>3
<1>5. QED
  BY <1>3, <1>4

LEMMA StepAcceptable ==
    ASSUME OInv, PInv, [RNext]_rvars PROVE CandidatesStayAcceptable'
<1>1. SInv /\ CInv /\ CandidateRows /\ EntryRows
  BY DEF OInv, CInv, SInv
<1> SUFFICES ASSUME NEW p \in DOMAIN candidates'
             PROVE  CandidateBeforeRelease(entries'[p[1]].report, orders'[p[2]])
  BY DEF CandidatesStayAcceptable
<1>2. /\ p[1] \in DOMAIN entries /\ p[2] \in DOMAIN orders
      /\ CandidateBeforeRelease(entries[p[1]].report, orders[p[2]])
  <2>1. CASE p \in DOMAIN candidates
    BY <1>1, <2>1 DEF CandidateRows, PInv, CandidatesStayAcceptable
  <2>2. CASE p \notin DOMAIN candidates
    BY <1>1, <2>2, NewCandidatesInWindow
       DEF CandidateFacts, SameAmountInWindow, InWindow, CandidateBeforeRelease
  <2>3. QED
    BY <2>1, <2>2
<1>3. entries'[p[1]].report = entries[p[1]].report
  BY <1>2, OperationsStay DEF FixedColumns
<1>4. /\ entries[p[1]].report.occurred \in Nat /\ entries[p[1]].report.occurred < physical
      /\ physical \in Nat
  BY <1>1, <1>2, LedgerAssumption
     DEF EntryRows, Entry, PInv, EntriesPast, SInv, RInv, IInv, RestTyped
<1>5. \/ orders'[p[2]].released = orders[p[2]].released
      \/ physical <= orders'[p[2]].released
  BY <1>1, <1>2, ReleasedByWallClock
<1>6. orders'[p[2]].released \in Int
  <2>1. RowsTyped' /\ p[2] \in DOMAIN orders'
    BY <1>1, <1>2, StepSInv, OperationsStay DEF SInv, RInv, IInv, FixedColumns
  <2>2. QED
    BY <2>1, RowNumbers DEF RowsTyped
<1>7. QED
  BY <1>2, <1>3, <1>4, <1>5, <1>6 DEF CandidateBeforeRelease

LEMMA AcceptableWithoutSetBack ==
    RSpec /\ WallClockNeverSetBack => []CandidatesStayAcceptable
<1>1. RInit => OInv /\ PInv
  BY InitOInv DEF RInit, PInv, EntriesPast, CandidatesStayAcceptable
<1>2. OInv /\ PInv /\ [RNext]_rvars /\ [physical <= physical']_rvars => (OInv /\ PInv)'
  BY StepOInv, StepEntriesPast, StepAcceptable DEF PInv
<1>3. PInv => CandidatesStayAcceptable
  BY DEF PInv
<1>4. QED
  BY <1>1, <1>2, <1>3, PTL DEF RSpec, WallClockNeverSetBack

(* The database the program leaves behind is one it will open again, for   *)
(* any number of orders, movements and decisions.  None of the queries of  *)
(* countOrderDomainViolations and countReconciliationDomainViolations ever *)
(* selects a row, except the part of the query on the candidates that      *)
(* compares a movement with the release of its slot (database.ts:1957):    *)
(* that one selects no row as long as the wall clock is never set back,    *)
(* and does select rows otherwise (MCStartupClock).  The queries restate   *)
(* across tables what the writes never check: that the counts of slots,    *)
(* events, postings, outbox events and operations agree, that history has  *)
(* the order it claims, and that a settlement was never one of several     *)
(* that were possible.                                                     *)
THEOREM StartupAlwaysAccepts ==
    RSpec => /\ []StartupAccepts
             /\ WallClockNeverSetBack => []CandidatesStayAcceptable
<1>1. RSpec => []StartupAccepts
  BY HInvariance, StartupFollows, PTL
<1>2. QED
  BY <1>1, AcceptableWithoutSetBack

=============================================================================
