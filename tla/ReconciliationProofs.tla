------------------------ MODULE ReconciliationProofs ------------------------
(***************************************************************************)
(* Theorems about Reconciliation.  The invariant of the order store is     *)
(* kept by the payment operations too, because they leave alone what the   *)
(* amount slots are made of; from it follows that a movement falls into    *)
(* the payment window of at most one order (RInv).  Orders, entries and    *)
(* matches tell the same story (SInv), candidates are what a manual choice *)
(* may still be made from (CInv), issues follow their entries (XInv), and  *)
(* every order keeps to the abstract payment lifecycle.                    *)
(*                                                                         *)
(* The last part is about the records of the settlements: the journal      *)
(* balances.  BInv relates the candidates, the operations, the matches and *)
(* the journal row by row; a step is first reduced to what it does to      *)
(* these tables (BookKinds), and the sums of the journal are moved by the  *)
(* one posting a step adds (TotalWithout, BookedMore).                     *)
(***************************************************************************)
EXTENDS Reconciliation, OrderStoreProofs, StartupCheck

EntriesTyped == \A e \in DOMAIN entries : entries[e].report \in Statements

RInv == IInv /\ EntriesTyped

(* A step that touches nothing of a row but its payment.                   *)
PaymentOnly(r, s, now) ==
    /\ s \in Row
    /\ s.account = r.account /\ s.payable = r.payable
    /\ s.generation = r.generation /\ s.cooldown = r.cooldown
    /\ s.created = r.created /\ s.expires = r.expires
    /\ s.checkout = r.checkout /\ s.closed = r.closed /\ s.released = r.released
    /\ s.updated <= now

PaymentStep == /\ clock' \in Nat
               /\ clock <= clock'
               /\ DOMAIN orders' = DOMAIN orders
               /\ \A o \in DOMAIN orders : PaymentOnly(orders[o], orders'[o], clock')

(* A payment step keeps the invariant of the order store.                  *)
LEMMA PaymentKeepsIInv ==
    ASSUME IInv, PaymentStep, RestTyped' PROVE IInv'
<1>1. DOMAIN orders' = DOMAIN orders
  BY DEF PaymentStep
<1>2. ASSUME NEW o \in DOMAIN orders
      PROVE  /\ orders[o] \in Row
             /\ PaymentOnly(orders[o], orders'[o], clock')
             /\ clock \in Nat /\ clock' \in Nat /\ clock <= clock'
  BY DEF IInv, RowsTyped, RestTyped, PaymentStep
<1>3. RowsTyped'
  BY <1>1, <1>2 DEF IInv, RowsTyped, PaymentOnly
<1>4. NothingYoungerThanClock'
  <2>1. ASSUME NEW o \in DOMAIN orders
        PROVE  orders'[o].created <= clock' /\ orders'[o].updated <= clock'
    <3>1. orders[o].created <= clock /\ orders[o].created \in Nat
      BY <1>2, RowNumbers DEF IInv, NothingYoungerThanClock
    <3>2. QED
      BY <1>2, <3>1 DEF PaymentOnly
  <2>2. QED
    BY <1>1, <2>1 DEF NothingYoungerThanClock
<1>5. EndTimesConsistent'
  <2>1. ASSUME NEW o \in DOMAIN orders
        PROVE  LET r == orders'[o]
               IN  /\ r.created < r.expires
                   /\ r.released = r.closed
                   /\ r.checkout = "OPEN"    => r.closed = NoTime
                   /\ r.checkout = "CLOSED"  => r.created <= r.closed /\ r.closed < r.expires
                   /\ r.checkout = "EXPIRED" => r.expires <= r.closed
    BY <1>2 DEF IInv, EndTimesConsistent, PaymentOnly
  <2>2. QED
    BY <1>1, <2>1 DEF EndTimesConsistent
<1>6. \A a \in Accounts, m \in Nat : SlotsAt(a, m)' = SlotsAt(a, m)
  BY <1>1, <1>2 DEF SlotsAt, PaymentOnly
<1>7. LatestSlotExists'
  <2>1. ASSUME NEW a \in Accounts, NEW m \in Nat, SlotsAt(a, m)' # {}
        PROVE  \E o \in SlotsAt(a, m)' : IsLatestSlot(o, a, m)'
    <3>1. PICK o \in SlotsAt(a, m) : IsLatestSlot(o, a, m)
      BY <1>6, <2>1 DEF IInv, LatestSlotExists
    <3>2. \A p \in SlotsAt(a, m) : orders'[p].generation = orders[p].generation
      BY <1>2 DEF SlotsAt, PaymentOnly
    <3>3. QED
      BY <1>6, <3>1, <3>2 DEF IsLatestSlot
  <2>2. QED
    BY <2>1 DEF LatestSlotExists
<1>8. PaymentWindowsSeparated'
  <2>1. SUFFICES ASSUME NEW o \in DOMAIN orders, NEW p \in DOMAIN orders, o # p,
                        orders'[o].account = orders'[p].account,
                        orders'[o].payable = orders'[p].payable
                 PROVE  /\ orders'[o].generation # orders'[p].generation
                        /\ orders'[o].generation < orders'[p].generation
                             => /\ orders'[o].checkout # "OPEN"
                                /\ AmountReuseAvailableAt(orders'[o]) <= orders'[p].created
    BY <1>1 DEF PaymentWindowsSeparated
  <2>2. AmountReuseAvailableAt(orders'[o]) = AmountReuseAvailableAt(orders[o])
    BY <1>2 DEF AmountReuseAvailableAt, EndedAt, PaymentOnly
  <2>3. orders[o].account = orders[p].account /\ orders[o].payable = orders[p].payable
    BY <1>2, <2>1 DEF PaymentOnly
  <2>4. /\ orders[o].generation # orders[p].generation
        /\ orders[o].generation < orders[p].generation
             => /\ orders[o].checkout # "OPEN"
                /\ AmountReuseAvailableAt(orders[o]) <= orders[p].created
    BY <2>1, <2>3 DEF IInv, PaymentWindowsSeparated
  <2>5. QED
    BY <1>2, <2>2, <2>4 DEF PaymentOnly
<1>9. QED
  BY <1>3, <1>4, <1>5, <1>7, <1>8 DEF IInv

(* Writing a payment to a row.                                             *)
LEMMA PaidRowFacts ==
    ASSUME NEW r \in Row, NEW status \in PaymentStatuses, NEW basis \in PaymentBases,
           NEW amount \in Nat \cup {NoAmount}, NEW now \in Nat
    PROVE  PaymentOnly(r, PaidRow(r, status, basis, amount, now), now)
<1> DEFINE v == r.version + 1
<1>1. v \in Nat \ {0}
  BY DEF Row
<1> HIDE DEF v
<1> DEFINE s == [r EXCEPT !.payment = status, !.basis = basis, !.received = amount,
                          !.updated = now, !.version = v]
<1>2. s \in Row
  BY <1>1 DEF Row
<1>3. s.updated <= now
  BY DEF Row
<1>4. /\ s.account = r.account /\ s.payable = r.payable
      /\ s.generation = r.generation /\ s.cooldown = r.cooldown
      /\ s.created = r.created /\ s.expires = r.expires
      /\ s.checkout = r.checkout /\ s.closed = r.closed /\ s.released = r.released
  BY DEF Row
<1>5. s = PaidRow(r, status, basis, amount, now)
  BY DEF v, PaidRow
<1> HIDE DEF s
<1>6. QED
  BY <1>2, <1>3, <1>4, <1>5 DEF PaymentOnly

(* A row is a payment step away from itself.                               *)
LEMMA SameRow ==
    ASSUME IInv, NEW o \in DOMAIN orders, NEW now \in Nat, clock <= now
    PROVE  PaymentOnly(orders[o], orders[o], now)
<1>1. orders[o] \in Row /\ orders[o].updated <= clock /\ clock \in Nat
  BY DEF IInv, RowsTyped, NothingYoungerThanClock, RestTyped
<1>2. orders[o].updated \in Nat
  BY <1>1, RowNumbers
<1>3. QED
  BY <1>1, <1>2 DEF PaymentOnly

(* updateOrderPayment with its events, as one step.                        *)
LEMMA RecordPaymentKeepsIInv ==
    ASSUME IInv, NEW key, NEW o, NEW status \in PaymentStatuses, NEW basis, NEW amount,
           NEW type \in EventTypes,
           o \in DOMAIN orders => basis \in PaymentBases /\ amount \in Nat \cup {NoAmount},
           AdvanceClock, UNCHANGED <<physical, tokenKeys, gone>>,
           RecordPayment(key, o, status, basis, amount, type, LogicalNow)
    PROVE  IInv'
<1>1. clock' = LogicalNow /\ LogicalNow \in Nat /\ clock <= LogicalNow
  BY LogicalNowType DEF AdvanceClock, IInv
<1>2. orders' = [orders EXCEPT ![o] = PaidRow(orders[o], status, basis, amount, LogicalNow)]
  BY DEF RecordPayment
<1>3. ASSUME NEW p \in DOMAIN orders
      PROVE  PaymentOnly(orders[p], orders'[p], clock')
  <2>1. CASE p = o
    <3>1. orders[p] \in Row
      BY DEF IInv, RowsTyped
    <3>2. orders'[p] = PaidRow(orders[p], status, basis, amount, LogicalNow)
      BY <1>2, <2>1
    <3>3. QED
      BY <1>1, <2>1, <3>1, <3>2, PaidRowFacts
  <2>2. CASE p # o
    BY <1>1, <1>2, <2>2, SameRow
  <2>3. QED
    BY <2>1, <2>2
<1>4. DOMAIN orders' = DOMAIN orders
  BY <1>2
<1>5. PaymentStep
  BY <1>1, <1>3, <1>4 DEF PaymentStep
<1>6. RestTyped'
  <2>1. [type |-> type, at |-> LogicalNow] \in Event
    BY <1>1 DEF Event
  <2>2. events' = [events EXCEPT ![o] = Append(events[o], [type |-> type, at |-> LogicalNow])]
    BY DEF RecordPayment
  <2>3. DOMAIN events' = DOMAIN orders' /\ \A p \in DOMAIN events' : events'[p] \in Seq(Event)
    BY <1>4, <2>1, <2>2 DEF IInv, RestTyped
  <2>4. QED
    BY <1>1, <1>4, <2>3 DEF IInv, RestTyped
<1>7. QED
  BY <1>5, <1>6, PaymentKeepsIInv

(* A step that changes no order at all.                                    *)
LEMMA ClockKeepsIInv ==
    ASSUME IInv, AdvanceClock, UNCHANGED <<orders, events, physical, tokenKeys, gone>>
    PROVE  IInv'
<1>1. clock' = LogicalNow /\ LogicalNow \in Nat /\ clock <= LogicalNow
  BY LogicalNowType DEF AdvanceClock, IInv
<1>2. PaymentStep
  BY <1>1, SameRow DEF PaymentStep
<1>3. RestTyped'
  BY <1>1 DEF IInv, RestTyped
<1>4. QED
  BY <1>2, <1>3, PaymentKeepsIInv

LEMMA StutterKeepsIInv == ASSUME IInv, UNCHANGED vars PROVE IInv'
BY StepIInv

-----------------------------------------------------------------------------
(* The invariant along every step.                                         *)

(* Only RecordEntry adds an entry; the report of an entry never changes.   *)
LEMMA NewStateKeepsEntries ==
    ASSUME EntriesTyped, NEW e, NEW state, entries' = [entries EXCEPT ![e].state = state]
    PROVE  EntriesTyped'
BY DEF EntriesTyped

LEMMA NewConflictKeepsEntries ==
    ASSUME EntriesTyped, NEW e, NEW c, entries' = [entries EXCEPT ![e].conflict = c]
    PROVE  EntriesTyped'
BY DEF EntriesTyped

LEMMA SettlementKeepsRInv ==
    ASSUME RInv, NEW key, NEW e \in DOMAIN entries, NEW o, NEW evidence,
           NEW basis \in PaymentBases,
           AdvanceClock, UNCHANGED <<physical, tokenKeys, gone>>,
           WriteSettlement(key, e, o, evidence, basis, LogicalNow)
    PROVE  RInv'
<1>1. entries[e].report.amount \in Nat
  BY LedgerAssumption DEF RInv, EntriesTyped
<1>2. /\ RecordPayment(key, o, "CONFIRMED", basis, entries[e].report.amount,
                       "PAYMENT_CONFIRMED", LogicalNow)
      /\ entries' = [entries EXCEPT ![e].state = "ALLOCATED"]
  BY DEF WriteSettlement
<1>3. IInv'
  BY <1>1, <1>2, RecordPaymentKeepsIInv DEF RInv, PaymentStatuses, EventTypes
<1>4. EntriesTyped'
  BY <1>2, NewStateKeepsEntries DEF RInv
<1>5. QED
  BY <1>3, <1>4 DEF RInv

LEMMA ReconcileEntryKeepsRInv ==
    ASSUME RInv, NEW e \in DOMAIN entries, ReconcileEntry(e) PROVE RInv'
<1>1. AdvanceClock /\ UNCHANGED <<physical, tokenKeys, gone>>
  BY DEF ReconcileEntry
<1>2. CASE KeepOrders /\ UNCHANGED money
  BY <1>1, <1>2, ClockKeepsIInv DEF RInv, KeepOrders, money, EntriesTyped
<1>3. CASE LeaveUnmatched(e)
  <2>1. UNCHANGED <<orders, events>> /\ entries' = [entries EXCEPT ![e].state = "UNALLOCATED"]
    BY <1>3 DEF LeaveUnmatched, KeepOrders
  <2>2. QED
    BY <1>1, <2>1, ClockKeepsIInv, NewStateKeepsEntries DEF RInv
<1>4. CASE LeaveAmbiguous(e)
  <2>1. UNCHANGED <<orders, events>> /\ entries' = [entries EXCEPT ![e].state = "CANDIDATE"]
    BY <1>4 DEF LeaveAmbiguous, KeepOrders
  <2>2. QED
    BY <1>1, <2>1, ClockKeepsIInv, NewStateKeepsEntries DEF RInv
<1>5. ASSUME NEW o \in DOMAIN orders, AutoSettle(e, o, LogicalNow) PROVE RInv'
  <2>1. WriteSettlement(AutoKey(e, o), e, o, "AMOUNT_INFERRED", "INFERRED", LogicalNow)
    BY <1>5 DEF AutoSettle
  <2>2. "INFERRED" \in PaymentBases
    BY DEF PaymentBases
  <2>3. QED
    BY <1>1, <2>1, <2>2, SettlementKeepsRInv
<1>6. QED
  BY <1>2, <1>3, <1>4, <1>5 DEF ReconcileEntry

LEMMA SettleManuallyKeepsRInv ==
    ASSUME RInv, NEW d \in Decisions, NEW e \in DOMAIN entries, NEW o \in DOMAIN orders,
           SettleManually(d, e, o)
    PROVE  RInv'
<1>1. AdvanceClock /\ UNCHANGED <<physical, tokenKeys, gone>>
  BY DEF SettleManually
<1>2. CASE KeepOrders /\ UNCHANGED money
  BY <1>1, <1>2, ClockKeepsIInv DEF RInv, KeepOrders, money, EntriesTyped
<1>3. CASE WriteSettlement(AdminKey(d), e, o, "MANUAL", "MANUAL", LogicalNow)
  <2>1. "MANUAL" \in PaymentBases
    BY DEF PaymentBases
  <2>2. QED
    BY <1>1, <1>3, <2>1, SettlementKeepsRInv
<1>4. QED
  BY <1>2, <1>3 DEF SettleManually

LEMMA ReverseSettlementKeepsRInv ==
    ASSUME RInv, NEW d \in Decisions, NEW m \in matches, ReverseSettlement(d, m)
    PROVE  RInv'
<1>1. AdvanceClock /\ UNCHANGED <<physical, tokenKeys, gone>>
  BY DEF ReverseSettlement
<1>2. CASE KeepOrders /\ UNCHANGED money
  BY <1>1, <1>2, ClockKeepsIInv DEF RInv, KeepOrders, money, EntriesTyped
<1>3. CASE /\ RecordPayment(AdminKey(d), m.order, "DISPUTED", orders[m.order].basis,
                            orders[m.order].received, "PAYMENT_DISPUTED", LogicalNow)
           /\ entries' = [entries EXCEPT ![m.entry].state = "CONFLICT"]
  <2>1. m.order \in DOMAIN orders =>
          /\ orders[m.order].basis \in PaymentBases
          /\ orders[m.order].received \in Nat \cup {NoAmount}
    BY DEF RInv, IInv, RowsTyped, Row
  <2>2. "DISPUTED" \in PaymentStatuses /\ "PAYMENT_DISPUTED" \in EventTypes
    BY DEF PaymentStatuses, EventTypes
  <2>3. IInv'
    BY <1>1, <1>3, <2>1, <2>2, RecordPaymentKeepsIInv DEF RInv
  <2>4. EntriesTyped'
    BY <1>3, NewStateKeepsEntries DEF RInv
  <2>5. QED
    BY <2>3, <2>4 DEF RInv
<1>4. QED
  BY <1>2, <1>3 DEF ReverseSettlement

LEMMA InitRInv == RInit => RInv
BY InitIInv DEF RInit, RInv, EntriesTyped

LEMMA StepRInv == RInv /\ [RNext]_rvars => RInv'
<1>1. SUFFICES ASSUME RInv, [RNext]_rvars PROVE RInv'
  OBVIOUS
<1>2. CASE OrderStep
  BY <1>1, <1>2, StepIInv DEF OrderStep, RInv, money, EntriesTyped
<1>3. ASSUME NEW e \in Entries \ DOMAIN entries, NEW s \in Statements, RecordEntry(e, s)
      PROVE  RInv'
  BY <1>1, <1>3, StutterKeepsIInv DEF RecordEntry, RInv, EntriesTyped
<1>4. ASSUME NEW e \in DOMAIN entries, FindConflict(e) \/ ResolveConflict(e)
      PROVE  RInv'
  <2>1. UNCHANGED vars
    BY <1>4 DEF FindConflict, ResolveConflict
  <2>2. PICK c : entries' = [entries EXCEPT ![e].conflict = c]
    BY <1>4 DEF FindConflict, ResolveConflict
  <2>3. EntriesTyped'
    BY <1>1, <2>2, NewConflictKeepsEntries DEF RInv
  <2>4. QED
    BY <1>1, <2>1, <2>3, StutterKeepsIInv DEF RInv
<1>5. CASE UNCHANGED rvars
  BY <1>1, <1>5, StutterKeepsIInv DEF rvars, money, RInv, EntriesTyped
<1>6. QED
  BY <1>1, <1>2, <1>3, <1>4, <1>5, ReconcileEntryKeepsRInv, SettleManuallyKeepsRInv,
     ReverseSettlementKeepsRInv DEF RNext

LEMMA RInvariance == RSpec => []RInv
BY InitRInv, StepRInv, PTL DEF RSpec

-----------------------------------------------------------------------------
(* Two windows of one amount never contain the same movement.              *)
LEMMA WindowsDisjoint ==
    ASSUME RInv, \A c \in Cooldowns : Precision <= c,
           NEW s \in Statements,
           NEW o \in SameAmountInWindow(s), NEW p \in SameAmountInWindow(s),
           o # p, orders[o].generation < orders[p].generation
    PROVE  FALSE
<1>1. o \in DOMAIN orders /\ p \in DOMAIN orders
  BY DEF SameAmountInWindow
<1>2. orders[o] \in Row /\ orders[p] \in Row
  BY <1>1 DEF RInv, IInv, RowsTyped
<1>3. /\ orders[o].checkout # "OPEN"
      /\ AmountReuseAvailableAt(orders[o]) <= orders[p].created
  BY <1>1 DEF RInv, IInv, PaymentWindowsSeparated, SameAmountInWindow, InWindow
<1>4. /\ orders[o].cooldown \in Nat /\ orders[o].expires \in Nat
      /\ orders[o].closed \in Int /\ orders[o].released \in Int
      /\ orders[p].created \in Nat
  BY <1>2, RowNumbers
<1>5. orders[o].cooldown \in Cooldowns
  BY <1>2 DEF Row
<1>6. Precision <= orders[o].cooldown /\ Precision \in Nat /\ s.occurred \in Nat
  BY <1>5, LedgerAssumption
<1>7. orders[o].released = orders[o].closed
  BY <1>1 DEF RInv, IInv, EndTimesConsistent
<1>8. /\ s.occurred + Precision > orders[p].created
      /\ s.occurred < orders[o].expires
      /\ orders[o].released = NoTime \/ s.occurred < orders[o].released
  BY DEF SameAmountInWindow, InWindow
<1>9. orders[o].checkout = "CLOSED" => orders[o].released # NoTime
  BY <1>1, <1>2, <1>7, RowNumbers DEF RInv, IInv, EndTimesConsistent, NoTime
<1>10. s.occurred < EndedAt(orders[o]) /\ EndedAt(orders[o]) \in Int
  BY <1>4, <1>7, <1>8, <1>9 DEF EndedAt
<1>11. EndedAt(orders[o]) + orders[o].cooldown <= orders[p].created
  BY <1>3 DEF AmountReuseAvailableAt
<1>12. QED
  BY <1>4, <1>6, <1>8, <1>10, <1>11

(* Attribution is unambiguous for any number of orders, entries and        *)
(* decisions: with cooldowns at least as long as the provider's precision, *)
(* a movement falls into the payment window of at most one order of its    *)
(* amount, paid or not.                                                    *)
THEOREM AttributionUnambiguous ==
    (\A c \in Cooldowns : Precision <= c) /\ RSpec => []WindowsTellOrdersApart
<1>1. SUFFICES ASSUME \A c \in Cooldowns : Precision <= c
               PROVE  RSpec => []WindowsTellOrdersApart
  OBVIOUS
<1>2. ASSUME RInv PROVE WindowsTellOrdersApart
  <2>1. SUFFICES ASSUME NEW s \in Statements,
                        NEW o \in SameAmountInWindow(s), NEW p \in SameAmountInWindow(s),
                        o # p
                 PROVE  FALSE
    BY DEF WindowsTellOrdersApart
  <2>2. o \in DOMAIN orders /\ p \in DOMAIN orders
    BY DEF SameAmountInWindow
  <2>3. orders[o].generation \in Nat /\ orders[p].generation \in Nat
    BY <1>2, <2>2, RowNumbers DEF RInv, IInv, RowsTyped
  <2>4. orders[o].generation # orders[p].generation
    BY <1>2, <2>1, <2>2 DEF RInv, IInv, PaymentWindowsSeparated, SameAmountInWindow, InWindow
  <2>5. orders[o].generation < orders[p].generation \/ orders[p].generation < orders[o].generation
    BY <2>3, <2>4
  <2>6. QED
    BY <1>1, <1>2, <2>1, <2>5, WindowsDisjoint
<1>3. QED
  BY <1>2, RInvariance, PTL

-----------------------------------------------------------------------------
EntryRows == /\ DOMAIN entries \subseteq Entries
             /\ \A e \in DOMAIN entries : entries[e] \in Entry

MatchRows == \A m \in matches : /\ m \in Match
                                /\ m.entry \in DOMAIN entries /\ m.order \in DOMAIN orders

SInv == /\ RInv
        /\ EntryRows
        /\ MatchRows
        /\ SettlementsAgree

-----------------------------------------------------------------------------
(* The kinds of steps, seen from the money tables.                         *)

(* What the order store never touches of an order, and what it may.        *)
SameMoney(r, s) ==
    /\ s.payment = r.payment /\ s.basis = r.basis /\ s.received = r.received
    /\ s.account = r.account /\ s.payable = r.payable
    /\ s.created = r.created /\ s.expires = r.expires
    /\ s.released = r.released \/ r.released = NoTime

OrdersOnly ==
    /\ \A o \in DOMAIN orders : o \in DOMAIN orders' /\ SameMoney(orders[o], orders'[o])
    /\ \A o \in DOMAIN orders' \ DOMAIN orders :
          /\ orders'[o].payment = "UNPAID"
          /\ orders'[o].basis = "NONE" /\ orders'[o].received = NoAmount
          /\ o \in Orders /\ DOMAIN orders' = DOMAIN orders \cup {o}

MoneyStays == OrdersOnly /\ UNCHANGED money

Leaves(e) == ~Ignored(e) /\ (LeaveUnmatched(e) \/ LeaveAmbiguous(e))

AutoSettles(e, o) == /\ ~Ignored(e)
                     /\ AutoSettle(e, o, LogicalNow)

ManuallySettles(d, e, o) ==
    /\ AdminKey(d) \notin DOMAIN operations
    /\ CanSettleManually(e, o)
    /\ candidates' = Over([p \in EligibleOf(e) |-> "SUPERSEDED"], candidates)
    /\ operations' = Over(OneOperation(AdminKey(d), "MANUAL_SETTLEMENT", e, o, AdminKey(d)),
                          Over(SupersedeOperations(EligibleOf(e)), operations))
    /\ WriteSettlement(AdminKey(d), e, o, "MANUAL", "MANUAL", LogicalNow)

Reverses(d, m) ==
    LET o == m.order
        e == m.entry
    IN  /\ AdminKey(d) \notin DOMAIN operations
        /\ m.status = "SETTLED"
        /\ entries[e].state = "ALLOCATED"
        /\ orders[o].payment = "CONFIRMED"
        /\ operations' = Over(OneOperation(AdminKey(d), "REVERSE_SETTLEMENT", e, o, m.operation),
                              operations)
        /\ journal' = journal \cup {[operation |-> AdminKey(d), type |-> "REVERSAL",
                                     entry |-> e, order |-> o,
                                     amount |-> ReversedAmount(orders[o])]}
        /\ matches' = (matches \ {m}) \cup
                        {[m EXCEPT !.status = "REVERSED", !.resolution = AdminKey(d)]}
        /\ matchEvents' = Append(matchEvents, [operation |-> m.operation, status |-> "REVERSED"])
        /\ entries' = [entries EXCEPT ![e].state = "CONFLICT"]
        /\ RecordPayment(AdminKey(d), o, "DISPUTED", orders[o].basis, orders[o].received,
                         "PAYMENT_DISPUTED", LogicalNow)
        /\ EnsureException(e, "RECONCILIATION_CONFLICT", o, AdminKey(d))
        /\ UNCHANGED candidates

(* Ending a checkout leaves the payment of its row alone.                  *)
LEMMA RowStepMoney ==
    ASSUME NEW r \in Row, NEW s, NEW now \in Nat, RowStep(r, s, now),
           r.checkout = "OPEN" => r.released = NoTime
    PROVE  SameMoney(r, s)
<1>1. CASE s = r
  BY <1>1 DEF SameMoney
<1>2. CASE r.checkout = "OPEN" /\ s = ExpiredRow(r, now)
  BY <1>2 DEF SameMoney, ExpiredRow, Row
<1>3. CASE r.checkout = "OPEN" /\ s = ClosedRow(r, now)
  BY <1>3 DEF SameMoney, ClosedRow, Row
<1>4. QED
  BY <1>1, <1>2, <1>3 DEF RowStep

LEMMA OrderStoreOnly ==
    ASSUME IInv, [Next]_vars PROVE OrdersOnly
<1>1. ASSUME NEW o \in DOMAIN orders
      PROVE  o \in DOMAIN orders' /\ SameMoney(orders[o], orders'[o])
  <2>1. /\ o \in DOMAIN orders' /\ clock' \in Nat
        /\ RowStep(orders[o], orders'[o], clock')
    BY NextIsRowsStep DEF RowsStep
  <2>2. orders[o] \in Row /\ orders[o].checkout = "OPEN" => orders[o].released = NoTime
    BY DEF IInv, EndTimesConsistent
  <2>3. orders[o] \in Row
    BY DEF IInv, RowsTyped
  <2>4. QED
    BY <2>1, <2>2, <2>3, RowStepMoney
<1>2. ASSUME NEW n \in DOMAIN orders' \ DOMAIN orders
      PROVE  /\ orders'[n].payment = "UNPAID"
             /\ orders'[n].basis = "NONE" /\ orders'[n].received = NoAmount
             /\ n \in Orders /\ DOMAIN orders' = DOMAIN orders \cup {n}
  <2>1. Next
    BY <1>2 DEF vars
  <2>2. ~UpdateStep
    BY <1>2 DEF UpdateStep
  <2>3. PICK k \in Orders \ DOMAIN orders, q \in Requests, a \in Accounts,
             ttl \in Ttls, cooldown \in Cooldowns, d \in 1..MaxOffset :
          InsertStep(k, q, a, d, ttl, cooldown)
    BY <2>1, <2>2, NextKinds DEF IInv
  <2>4. /\ n = k /\ orders'[k] = NewRow(q, a, d, ttl, cooldown, clock')
        /\ DOMAIN orders' = DOMAIN orders \cup {n}
    BY <1>2, <2>3 DEF InsertStep
  <2>5. QED
    BY <2>4 DEF NewRow
<1>3. QED
  BY <1>1, <1>2 DEF OrdersOnly

LEMMA OrdersSame ==
    ASSUME orders' = orders PROVE OrdersOnly
BY DEF OrdersOnly, SameMoney

LEMMA MoneyKinds ==
    ASSUME RInv, [RNext]_rvars
    PROVE  \/ MoneyStays
           \/ \E e \in Entries \ DOMAIN entries, s \in Statements : RecordEntry(e, s)
           \/ \E e \in DOMAIN entries : FindConflict(e) \/ ResolveConflict(e)
           \/ \E e \in DOMAIN entries : Leaves(e)
           \/ \E e \in DOMAIN entries, o \in DOMAIN orders : AutoSettles(e, o)
           \/ \E d \in Decisions, e \in DOMAIN entries, o \in DOMAIN orders :
                 ManuallySettles(d, e, o)
           \/ \E d \in Decisions, m \in matches : Reverses(d, m)
<1>1. CASE OrderStep
  BY <1>1, OrderStoreOnly DEF OrderStep, MoneyStays, RInv
<1>2. CASE UNCHANGED rvars
  BY <1>2, OrdersSame DEF rvars, vars, MoneyStays
<1>3. ASSUME NEW e \in DOMAIN entries, ReconcileEntry(e)
      PROVE  \/ MoneyStays
             \/ Leaves(e)
             \/ \E o \in DOMAIN orders : AutoSettles(e, o)
  BY <1>3, OrdersSame DEF ReconcileEntry, Leaves, AutoSettles, MoneyStays, KeepOrders
<1>4. ASSUME NEW d \in Decisions, NEW e \in DOMAIN entries, NEW o \in DOMAIN orders,
             SettleManually(d, e, o)
      PROVE  MoneyStays \/ ManuallySettles(d, e, o)
  BY <1>4, OrdersSame DEF SettleManually, ManuallySettles, MoneyStays, KeepOrders
<1>5. ASSUME NEW d \in Decisions, NEW m \in matches, ReverseSettlement(d, m)
      PROVE  MoneyStays \/ Reverses(d, m)
  BY <1>5, OrdersSame DEF ReverseSettlement, Reverses, MoneyStays, KeepOrders
<1>6. QED
  BY <1>1, <1>2, <1>3, <1>4, <1>5 DEF RNext

-----------------------------------------------------------------------------
(* What the writes do to the rows they touch.                              *)

LEMMA NewStateFacts ==
    ASSUME EntryRows, NEW e \in DOMAIN entries, NEW state \in EntryStates,
           entries' = [entries EXCEPT ![e].state = state]
    PROVE  /\ EntryRows'
           /\ DOMAIN entries' = DOMAIN entries
           /\ entries'[e].state = state
           /\ entries'[e].report = entries[e].report
           /\ entries'[e].conflict = entries[e].conflict
           /\ \A f \in DOMAIN entries : f # e => entries'[f] = entries[f]
BY DEF EntryRows, Entry

LEMMA NewConflictFacts ==
    ASSUME EntryRows, NEW e \in DOMAIN entries, NEW c \in {"NONE", "OPEN", "RESOLVED"},
           entries' = [entries EXCEPT ![e].conflict = c]
    PROVE  /\ EntryRows'
           /\ DOMAIN entries' = DOMAIN entries
           /\ \A f \in DOMAIN entries : /\ entries'[f].state = entries[f].state
                                        /\ entries'[f].report = entries[f].report
BY DEF EntryRows, Entry

LEMMA RecordFacts ==
    ASSUME EntryRows, NEW e \in Entries \ DOMAIN entries, NEW s \in Statements,
           RecordEntry(e, s)
    PROVE  /\ EntryRows'
           /\ DOMAIN entries' = DOMAIN entries \cup {e}
           /\ entries'[e].state = "UNALLOCATED"
           /\ \A f \in DOMAIN entries : entries'[f] = entries[f]
<1>1. [report |-> s, state |-> "UNALLOCATED", conflict |-> "NONE"] \in Entry
  BY DEF Entry, EntryStates
<1>2. QED
  BY <1>1 DEF EntryRows, RecordEntry

LEMMA PaymentFacts ==
    ASSUME RowsTyped, NEW key, NEW o \in DOMAIN orders, NEW status, NEW basis, NEW amount,
           NEW type, NEW now, RecordPayment(key, o, status, basis, amount, type, now)
    PROVE  /\ DOMAIN orders' = DOMAIN orders
           /\ orders'[o].payment = status /\ orders'[o].basis = basis
           /\ orders'[o].received = amount
           /\ orders'[o].version = orders[o].version + 1
           /\ \A p \in DOMAIN orders :
                 /\ p # o => orders'[p] = orders[p]
                 /\ orders'[p].payable = orders[p].payable
                 /\ orders'[p].account = orders[p].account
                 /\ orders'[p].created = orders[p].created
                 /\ orders'[p].expires = orders[p].expires
                 /\ orders'[p].released = orders[p].released
BY DEF RecordPayment, PaidRow, RowsTyped, Row

(* A settlement, by either of the two ways.                                *)
Settles(key, e, o, evidence, basis) ==
    /\ key \in Keys
    /\ entries[e].report.direction = "CREDIT"
    /\ entries[e].state # "ALLOCATED"
    /\ orders[o].payment = "UNPAID"
    /\ WriteSettlement(key, e, o, evidence, basis, LogicalNow)

LEMMA AutoSettlesSettles ==
    ASSUME SInv, NEW e \in DOMAIN entries, NEW o \in DOMAIN orders, AutoSettles(e, o)
    PROVE  Settles(AutoKey(e, o), e, o, "AMOUNT_INFERRED", "INFERRED")
<1>1. AutoKey(e, o) \in Keys
  BY DEF Keys, SInv, EntryRows, RInv, IInv, RowsTyped
<1>2. /\ EligibleOrders(e) = {o}
      /\ WriteSettlement(AutoKey(e, o), e, o, "AMOUNT_INFERRED", "INFERRED", LogicalNow)
  BY DEF AutoSettles, AutoSettle
<1>3. orders[o].payment = "UNPAID"
  BY <1>2 DEF EligibleOrders, CandidateFacts
<1>4. entries[e].state # "ALLOCATED" /\ entries[e].report.direction # "DEBIT"
  BY DEF AutoSettles, Ignored
<1>5. entries[e].report.direction = "CREDIT"
  BY <1>4, LedgerAssumption DEF SInv, RInv, EntriesTyped
<1>6. QED
  BY <1>1, <1>2, <1>3, <1>4, <1>5 DEF Settles

LEMMA ManuallySettlesSettles ==
    ASSUME NEW d \in Decisions, NEW e \in DOMAIN entries, NEW o \in DOMAIN orders,
           ManuallySettles(d, e, o)
    PROVE  Settles(AdminKey(d), e, o, "MANUAL", "MANUAL")
BY DEF ManuallySettles, CanSettleManually, Settles, Keys

-----------------------------------------------------------------------------
(* SettlementsAgree along every step.                                      *)

LEMMA MoneyStaysKeepsAgreement ==
    ASSUME SInv, MoneyStays PROVE (EntryRows /\ MatchRows /\ SettlementsAgree)'
<1>1. UNCHANGED <<entries, matches>> /\ OrdersOnly
  BY DEF MoneyStays, money
<1>2. EntryRows' /\ MatchRows'
  BY <1>1 DEF SInv, EntryRows, MatchRows, OrdersOnly
<1>3. \A o \in DOMAIN orders' \ DOMAIN orders : {m \in matches' : m.order = o} = {}
  BY <1>1 DEF SInv, MatchRows
<1>4. SettlementsAgree'
  <2>1. \A e \in DOMAIN entries : ActiveMatches(e)' = ActiveMatches(e)
    BY <1>1 DEF ActiveMatches
  <2>2. \A o : ActiveMatchesOfOrder(o)' = ActiveMatchesOfOrder(o)
    BY <1>1 DEF ActiveMatchesOfOrder
  <2>3. \A o \in DOMAIN orders' \ DOMAIN orders : ActiveMatchesOfOrder(o)' = {}
    BY <1>3 DEF ActiveMatchesOfOrder
  <2>4. ASSUME NEW o \in DOMAIN orders'
        PROVE  LET had == {m \in matches' : m.order = o}
               IN  /\ orders'[o].payment = "UNPAID" <=> had = {}
                   /\ \A m, n \in had : m = n
                   /\ orders'[o].payment = "CONFIRMED" <=> ActiveMatchesOfOrder(o)' # {}
                   /\ orders'[o].payment = "UNPAID" <=>
                         orders'[o].basis = "NONE" /\ orders'[o].received = NoAmount
    <3>1. CASE o \in DOMAIN orders
      BY <1>1, <2>2, <3>1 DEF OrdersOnly, SameMoney, SInv, SettlementsAgree
    <3>2. CASE o \notin DOMAIN orders
      BY <1>1, <1>3, <2>3, <3>2 DEF OrdersOnly
    <3>3. QED
      BY <3>1, <3>2
  <2>5. \A e \in DOMAIN entries' :
          /\ \A m, n \in ActiveMatches(e)' : m = n
          /\ entries'[e].state = "ALLOCATED" <=> ActiveMatches(e)' # {}
          /\ entries'[e].state = "CONFLICT" <=>
                ActiveMatches(e)' = {} /\ \E m \in matches' : m.entry = e
    BY <1>1, <2>1 DEF SInv, SettlementsAgree
  <2>6. QED
    BY <2>4, <2>5 DEF SettlementsAgree
<1>5. QED
  BY <1>2, <1>4

(* A step that leaves orders and matches alone, and that does not move an  *)
(* entry into or out of the two settled states.                            *)
LEMMA EntriesKeepAgreement ==
    ASSUME SInv, UNCHANGED <<orders, matches>>, DOMAIN entries \subseteq DOMAIN entries',
           \A e \in DOMAIN entries' :
               /\ e \in DOMAIN entries =>
                     \/ entries'[e].state = entries[e].state
                     \/ entries'[e].state \in PendingStates /\ entries[e].state \in PendingStates
               /\ e \notin DOMAIN entries => entries'[e].state \in PendingStates
    PROVE  (MatchRows /\ SettlementsAgree)'
<1>1. MatchRows'
  BY DEF SInv, MatchRows
<1>2. \A e : ActiveMatches(e)' = ActiveMatches(e)
  BY DEF ActiveMatches
<1>3. \A o : ActiveMatchesOfOrder(o)' = ActiveMatchesOfOrder(o)
  BY DEF ActiveMatchesOfOrder
<1>4. ASSUME NEW e \in DOMAIN entries'
      PROVE  /\ \A m, n \in ActiveMatches(e)' : m = n
             /\ entries'[e].state = "ALLOCATED" <=> ActiveMatches(e)' # {}
             /\ entries'[e].state = "CONFLICT" <=>
                   ActiveMatches(e)' = {} /\ \E m \in matches' : m.entry = e
  <2>1. CASE e \in DOMAIN entries
    BY <1>2, <1>4, <2>1 DEF SInv, SettlementsAgree, PendingStates
  <2>2. CASE e \notin DOMAIN entries
    BY <1>2, <1>4, <2>2 DEF SInv, MatchRows, ActiveMatches, PendingStates
  <2>3. QED
    BY <2>1, <2>2
<1>5. QED
  BY <1>1, <1>3, <1>4 DEF SInv, SettlementsAgree

LEMMA SettlesKeepsAgreement ==
    ASSUME SInv, NEW e \in DOMAIN entries, NEW o \in DOMAIN orders, NEW key,
           NEW evidence \in {"AMOUNT_INFERRED", "MANUAL"}, NEW basis \in {"INFERRED", "MANUAL"},
           Settles(key, e, o, evidence, basis)
    PROVE  (EntryRows /\ MatchRows /\ SettlementsAgree)'
<1> DEFINE new == [entry |-> e, order |-> o, evidence |-> evidence, status |-> "SETTLED",
                   operation |-> key, resolution |-> key]
<1>1. /\ matches' = matches \cup {new}
      /\ entries' = [entries EXCEPT ![e].state = "ALLOCATED"]
      /\ RecordPayment(key, o, "CONFIRMED", basis, entries[e].report.amount,
                       "PAYMENT_CONFIRMED", LogicalNow)
  BY DEF Settles, WriteSettlement
<1>2. new \in Match
  BY DEF Match, Settles, SInv, EntryRows, RInv, IInv, RowsTyped
<1>3. new.entry = e /\ new.order = o /\ new.status = "SETTLED"
  OBVIOUS
<1> HIDE DEF new
<1>4. /\ EntryRows' /\ DOMAIN entries' = DOMAIN entries
      /\ entries'[e].state = "ALLOCATED"
      /\ \A f \in DOMAIN entries : f # e => entries'[f] = entries[f]
  BY <1>1, NewStateFacts DEF SInv, EntryStates
<1>5. /\ DOMAIN orders' = DOMAIN orders
      /\ orders'[o].payment = "CONFIRMED" /\ orders'[o].basis = basis
      /\ \A p \in DOMAIN orders : p # o => orders'[p] = orders[p]
  BY <1>1, PaymentFacts DEF SInv, RInv, IInv
<1>6. MatchRows'
  BY <1>1, <1>2, <1>3, <1>4, <1>5 DEF SInv, MatchRows
<1>7. {m \in matches : m.order = o} = {} /\ ActiveMatches(e) = {}
  BY DEF Settles, SInv, SettlementsAgree
<1>8. ASSUME NEW p \in DOMAIN orders'
      PROVE  LET had == {m \in matches' : m.order = p}
             IN  /\ orders'[p].payment = "UNPAID" <=> had = {}
                 /\ \A m, n \in had : m = n
                 /\ orders'[p].payment = "CONFIRMED" <=> ActiveMatchesOfOrder(p)' # {}
                 /\ orders'[p].payment = "UNPAID" <=>
                       orders'[p].basis = "NONE" /\ orders'[p].received = NoAmount
  <2>1. CASE p = o
    <3>1. {m \in matches' : m.order = p} = {new} /\ ActiveMatchesOfOrder(p)' = {new}
      BY <1>1, <1>3, <1>7, <2>1 DEF ActiveMatchesOfOrder
    <3>2. QED
      BY <1>5, <2>1, <3>1
  <2>2. CASE p # o
    <3>1. /\ {m \in matches' : m.order = p} = {m \in matches : m.order = p}
          /\ ActiveMatchesOfOrder(p)' = ActiveMatchesOfOrder(p)
      BY <1>1, <1>3, <2>2 DEF ActiveMatchesOfOrder
    <3>2. orders'[p] = orders[p] /\ p \in DOMAIN orders
      BY <1>5, <2>2
    <3>3. QED
      BY <3>1, <3>2 DEF SInv, SettlementsAgree
  <2>3. QED
    BY <2>1, <2>2
<1>9. ASSUME NEW f \in DOMAIN entries'
      PROVE  /\ \A m, n \in ActiveMatches(f)' : m = n
             /\ entries'[f].state = "ALLOCATED" <=> ActiveMatches(f)' # {}
             /\ entries'[f].state = "CONFLICT" <=>
                   ActiveMatches(f)' = {} /\ \E m \in matches' : m.entry = f
  <2>1. CASE f = e
    <3>1. ActiveMatches(f)' = {new}
      BY <1>1, <1>3, <1>7, <2>1 DEF ActiveMatches
    <3>2. QED
      BY <1>4, <2>1, <3>1
  <2>2. CASE f # e
    <3>1. /\ ActiveMatches(f)' = ActiveMatches(f)
          /\ (\E m \in matches' : m.entry = f) <=> (\E m \in matches : m.entry = f)
      BY <1>1, <1>3, <2>2 DEF ActiveMatches
    <3>2. QED
      BY <1>4, <2>2, <3>1 DEF SInv, SettlementsAgree
  <2>3. QED
    BY <2>1, <2>2
<1>10. QED
  BY <1>4, <1>6, <1>8, <1>9 DEF SettlementsAgree

LEMMA ReversesKeepsAgreement ==
    ASSUME SInv, NEW d \in Decisions, NEW m \in matches, Reverses(d, m)
    PROVE  (EntryRows /\ MatchRows /\ SettlementsAgree)'
<1> DEFINE o == m.order
           e == m.entry
           new == [m EXCEPT !.status = "REVERSED", !.resolution = AdminKey(d)]
<1>1. /\ matches' = (matches \ {m}) \cup {new}
      /\ entries' = [entries EXCEPT ![e].state = "CONFLICT"]
      /\ RecordPayment(AdminKey(d), o, "DISPUTED", orders[o].basis, orders[o].received,
                       "PAYMENT_DISPUTED", LogicalNow)
      /\ m.status = "SETTLED" /\ orders[o].payment = "CONFIRMED"
  BY DEF Reverses
<1>2. m \in Match /\ e \in DOMAIN entries /\ o \in DOMAIN orders
  BY DEF SInv, MatchRows
<1>3. new \in Match /\ new.entry = e /\ new.order = o /\ new.status = "REVERSED"
  <2>1. AdminKey(d) \in Keys
    BY DEF Keys
  <2>2. QED
    BY <1>2, <2>1 DEF Match
<1>4. {n \in matches : n.order = o} = {m} /\ ActiveMatches(e) = {m}
  BY <1>1, <1>2 DEF SInv, SettlementsAgree, ActiveMatches
<1> HIDE DEF new, o, e
<1>5. /\ EntryRows' /\ DOMAIN entries' = DOMAIN entries
      /\ entries'[e].state = "CONFLICT"
      /\ \A f \in DOMAIN entries : f # e => entries'[f] = entries[f]
  BY <1>1, <1>2, NewStateFacts DEF SInv, EntryStates
<1>6. /\ DOMAIN orders' = DOMAIN orders
      /\ orders'[o].payment = "DISPUTED" /\ orders'[o].basis = orders[o].basis
      /\ orders'[o].received = orders[o].received
      /\ \A p \in DOMAIN orders : p # o => orders'[p] = orders[p]
  BY <1>1, <1>2, PaymentFacts DEF SInv, RInv, IInv
<1>7. MatchRows'
  BY <1>1, <1>2, <1>3, <1>5, <1>6 DEF SInv, MatchRows
<1>8. ASSUME NEW p \in DOMAIN orders'
      PROVE  LET had == {n \in matches' : n.order = p}
             IN  /\ orders'[p].payment = "UNPAID" <=> had = {}
                 /\ \A x, y \in had : x = y
                 /\ orders'[p].payment = "CONFIRMED" <=> ActiveMatchesOfOrder(p)' # {}
                 /\ orders'[p].payment = "UNPAID" <=>
                       orders'[p].basis = "NONE" /\ orders'[p].received = NoAmount
  <2>1. CASE p = o
    <3>1. {n \in matches' : n.order = p} = {new} /\ ActiveMatchesOfOrder(p)' = {}
      BY <1>1, <1>3, <1>4, <2>1 DEF ActiveMatchesOfOrder
    <3>2. ~(orders[o].basis = "NONE" /\ orders[o].received = NoAmount)
      BY <1>1, <1>2 DEF SInv, SettlementsAgree
    <3>3. QED
      BY <1>6, <2>1, <3>1, <3>2
  <2>2. CASE p # o
    <3>1. /\ {n \in matches' : n.order = p} = {n \in matches : n.order = p}
          /\ ActiveMatchesOfOrder(p)' = ActiveMatchesOfOrder(p)
      BY <1>1, <1>3, <2>2 DEF ActiveMatchesOfOrder, o
    <3>2. orders'[p] = orders[p] /\ p \in DOMAIN orders
      BY <1>6, <2>2
    <3>3. QED
      BY <3>1, <3>2 DEF SInv, SettlementsAgree
  <2>3. QED
    BY <2>1, <2>2
<1>9. ASSUME NEW f \in DOMAIN entries'
      PROVE  /\ \A x, y \in ActiveMatches(f)' : x = y
             /\ entries'[f].state = "ALLOCATED" <=> ActiveMatches(f)' # {}
             /\ entries'[f].state = "CONFLICT" <=>
                   ActiveMatches(f)' = {} /\ \E x \in matches' : x.entry = f
  <2>1. CASE f = e
    <3>1. ActiveMatches(f)' = {} /\ new \in matches'
      BY <1>1, <1>3, <1>4, <2>1 DEF ActiveMatches
    <3>2. QED
      BY <1>3, <1>5, <2>1, <3>1
  <2>2. CASE f # e
    <3>1. /\ ActiveMatches(f)' = ActiveMatches(f)
          /\ (\E x \in matches' : x.entry = f) <=> (\E x \in matches : x.entry = f)
      BY <1>1, <1>3, <2>2 DEF ActiveMatches, e
    <3>2. QED
      BY <1>5, <2>2, <3>1 DEF SInv, SettlementsAgree
  <2>3. QED
    BY <2>1, <2>2
<1>10. QED
  BY <1>5, <1>7, <1>8, <1>9 DEF SettlementsAgree

LEMMA InitSInv == RInit => SInv
<1>1. SUFFICES ASSUME RInit PROVE SInv
  OBVIOUS
<1>2. RInv
  BY <1>1, InitRInv
<1>3. DOMAIN orders = {} /\ DOMAIN entries = {} /\ matches = {}
  BY <1>1 DEF RInit, Init
<1>4. QED
  BY <1>2, <1>3 DEF SInv, EntryRows, MatchRows, SettlementsAgree

LEMMA StepSInv == SInv /\ [RNext]_rvars => SInv'
<1>1. SUFFICES ASSUME SInv, [RNext]_rvars PROVE (EntryRows /\ MatchRows /\ SettlementsAgree)'
  BY StepRInv DEF SInv
<1>2. CASE MoneyStays
  BY <1>1, <1>2, MoneyStaysKeepsAgreement
<1>3. ASSUME NEW e \in Entries \ DOMAIN entries, NEW s \in Statements, RecordEntry(e, s)
      PROVE  (EntryRows /\ MatchRows /\ SettlementsAgree)'
  <2>1. UNCHANGED <<orders, matches>>
    BY <1>3 DEF RecordEntry, vars
  <2>2. /\ EntryRows' /\ DOMAIN entries' = DOMAIN entries \cup {e}
        /\ entries'[e].state \in PendingStates
        /\ \A f \in DOMAIN entries : entries'[f] = entries[f]
    BY <1>1, <1>3, RecordFacts DEF SInv, PendingStates
  <2>3. QED
    BY <1>1, <2>1, <2>2, EntriesKeepAgreement
<1>4. ASSUME NEW e \in DOMAIN entries, FindConflict(e) \/ ResolveConflict(e)
      PROVE  (EntryRows /\ MatchRows /\ SettlementsAgree)'
  <2>1. UNCHANGED <<orders, matches>>
    BY <1>4 DEF FindConflict, ResolveConflict, vars
  <2>2. PICK c \in {"NONE", "OPEN", "RESOLVED"} : entries' = [entries EXCEPT ![e].conflict = c]
    BY <1>4 DEF FindConflict, ResolveConflict
  <2>3. /\ EntryRows' /\ DOMAIN entries' = DOMAIN entries
        /\ \A f \in DOMAIN entries : entries'[f].state = entries[f].state
    BY <1>1, <2>2, NewConflictFacts DEF SInv
  <2>4. QED
    BY <1>1, <2>1, <2>3, EntriesKeepAgreement
<1>5. ASSUME NEW e \in DOMAIN entries, Leaves(e)
      PROVE  (EntryRows /\ MatchRows /\ SettlementsAgree)'
  <2>1. UNCHANGED <<orders, matches>>
    BY <1>5 DEF Leaves, LeaveUnmatched, LeaveAmbiguous, KeepOrders
  <2>2. PICK state \in PendingStates : entries' = [entries EXCEPT ![e].state = state]
    BY <1>5 DEF Leaves, LeaveUnmatched, LeaveAmbiguous, PendingStates
  <2>3. entries[e].state \in PendingStates
    BY <1>1, <1>5 DEF Leaves, Ignored, SInv, EntryRows, Entry, EntryStates, PendingStates
  <2>4. /\ EntryRows' /\ DOMAIN entries' = DOMAIN entries
        /\ entries'[e].state = state
        /\ \A f \in DOMAIN entries : f # e => entries'[f] = entries[f]
    BY <1>1, <2>2, NewStateFacts DEF SInv, PendingStates, EntryStates
  <2>5. QED
    BY <1>1, <2>1, <2>3, <2>4, EntriesKeepAgreement
<1>6. ASSUME NEW e \in DOMAIN entries, NEW o \in DOMAIN orders, AutoSettles(e, o)
      PROVE  (EntryRows /\ MatchRows /\ SettlementsAgree)'
  BY <1>1, <1>6, AutoSettlesSettles, SettlesKeepsAgreement
<1>7. ASSUME NEW d \in Decisions, NEW e \in DOMAIN entries, NEW o \in DOMAIN orders,
             ManuallySettles(d, e, o)
      PROVE  (EntryRows /\ MatchRows /\ SettlementsAgree)'
  BY <1>1, <1>7, ManuallySettlesSettles, SettlesKeepsAgreement
<1>8. ASSUME NEW d \in Decisions, NEW m \in matches, Reverses(d, m)
      PROVE  (EntryRows /\ MatchRows /\ SettlementsAgree)'
  BY <1>1, <1>8, ReversesKeepsAgreement
<1>9. QED
  BY <1>1, <1>2, <1>3, <1>4, <1>5, <1>6, <1>7, <1>8, MoneyKinds DEF SInv

LEMMA SInvariance == RSpec => []SInv
BY InitSInv, StepSInv, PTL DEF RSpec

(* Orders, ledger entries and matches tell the same story for any number   *)
(* of orders, entries and decisions, whatever is reconciled, settled by    *)
(* hand, reversed, contradicted or expired in between.                     *)
THEOREM SettlementsAlwaysAgree == RSpec => []SettlementsAgree
<1>1. SInv => SettlementsAgree
  BY DEF SInv
<1>2. QED
  BY SInvariance, <1>1, PTL

-----------------------------------------------------------------------------
(* The payment lifecycle.                                                  *)

EntryOfSome(S) == IF S = {} THEN NoEntry ELSE (CHOOSE m \in S : TRUE).entry

LEMMA PaidByIsEntryOfSome ==
    ASSUME NEW o
    PROVE  /\ PaidBy(o) = EntryOfSome({m \in matches : m.order = o})
           /\ PaidBy(o)' = EntryOfSome({m \in matches' : m.order = o})
BY DEF PaidBy, EntryOfSome

LEMMA PaidByMatch ==
    ASSUME NEW o, NEW m \in matches, m.order = o, \A n \in matches : n.order = o => n = m
    PROVE  PaidBy(o) = m.entry
<1>1. {n \in matches : n.order = o} = {m}
  OBVIOUS
<1>2. QED
  BY <1>1 DEF PaidBy

LEMMA PaidByNothing ==
    ASSUME NEW o, \A n \in matches : n.order # o
    PROVE  PaidBy(o) = NoEntry
<1>1. {n \in matches : n.order = o} = {}
  OBVIOUS
<1>2. QED
  BY <1>1 DEF PaidBy

(* A confirmed order is paid by the entry of its active match.             *)
LEMMA ConfirmedHolds ==
    ASSUME SInv, NEW p \in Orders, PaymentStatusOf(p) = "CONFIRMED"
    PROVE  \E m \in matches : m.order = p /\ m.entry = PaidBy(p) /\ m.status = "SETTLED"
<1>1. p \in DOMAIN orders /\ orders[p].payment = "CONFIRMED"
  BY DEF PaymentStatusOf
<1>2. PICK m \in matches : m.order = p /\ m.status = "SETTLED"
  BY <1>1 DEF SInv, SettlementsAgree, ActiveMatchesOfOrder
<1>3. \A n \in matches : n.order = p => n = m
  BY <1>1, <1>2 DEF SInv, SettlementsAgree
<1>4. QED
  BY <1>2, <1>3, PaidByMatch

LEMMA MoneyStaysIsOpen ==
    ASSUME SInv, MoneyStays
    PROVE  (\E o \in Orders : Lifecycle!Open(o)) \/ UNCHANGED Lifecycle!lvars
<1>1. OrdersOnly /\ matches' = matches
  BY DEF MoneyStays, money
<1>2. \A o : PaidBy(o)' = PaidBy(o)
  BY <1>1 DEF PaidBy
<1>3. \A o \in DOMAIN orders : PaymentStatusOf(o)' = PaymentStatusOf(o)
  BY <1>1 DEF OrdersOnly, SameMoney, PaymentStatusOf
<1>4. CASE DOMAIN orders' = DOMAIN orders
  <2>1. \A o \in Orders : PaymentStatusOf(o)' = PaymentStatusOf(o)
    BY <1>3, <1>4 DEF PaymentStatusOf
  <2>2. QED
    BY <1>2, <2>1 DEF Lifecycle!lvars
<1>5. CASE DOMAIN orders' # DOMAIN orders
  <2>1. PICK n \in DOMAIN orders' \ DOMAIN orders : TRUE
    BY <1>1, <1>5 DEF OrdersOnly
  <2>2. /\ n \in Orders /\ PaymentStatusOf(n) = "ABSENT" /\ PaymentStatusOf(n)' = "UNPAID"
        /\ DOMAIN orders' = DOMAIN orders \cup {n}
    BY <1>1, <2>1 DEF OrdersOnly, PaymentStatusOf
  <2>3. \A o \in Orders : o # n => PaymentStatusOf(o)' = PaymentStatusOf(o)
    BY <1>3, <2>2 DEF PaymentStatusOf
  <2>4. Lifecycle!Open(n)
    BY <1>2, <2>2, <2>3 DEF Lifecycle!Open
  <2>5. QED
    BY <2>2, <2>4
<1>6. QED
  BY <1>4, <1>5

LEMMA SettlesIsConfirm ==
    ASSUME SInv, NEW e \in DOMAIN entries, NEW o \in DOMAIN orders, NEW key,
           NEW evidence, NEW basis, Settles(key, e, o, evidence, basis)
    PROVE  o \in Orders /\ e \in Entries /\ Lifecycle!Confirm(o, e)
<1> DEFINE new == [entry |-> e, order |-> o, evidence |-> evidence, status |-> "SETTLED",
                   operation |-> key, resolution |-> key]
<1>1. /\ matches' = matches \cup {new}
      /\ RecordPayment(key, o, "CONFIRMED", basis, entries[e].report.amount,
                       "PAYMENT_CONFIRMED", LogicalNow)
  BY DEF Settles, WriteSettlement
<1>2. new.entry = e /\ new.order = o
  OBVIOUS
<1> HIDE DEF new
<1>3. /\ DOMAIN orders' = DOMAIN orders /\ orders'[o].payment = "CONFIRMED"
      /\ \A p \in DOMAIN orders : p # o => orders'[p] = orders[p]
  BY <1>1, PaymentFacts DEF SInv, RInv, IInv
<1>4. o \in Orders /\ e \in Entries
  BY DEF SInv, EntryRows, RInv, IInv, RowsTyped
<1>5. /\ PaymentStatusOf(o) = "UNPAID" /\ PaymentStatusOf(o)' = "CONFIRMED"
      /\ \A p \in Orders : p # o => PaymentStatusOf(p)' = PaymentStatusOf(p)
  BY <1>3 DEF PaymentStatusOf, Settles
<1>6. \A m \in matches : m.order # o
  BY DEF SInv, SettlementsAgree, Settles
<1>7. PaidBy(o)' = e
  <2>1. {m \in matches' : m.order = o} = {new}
    BY <1>1, <1>2, <1>6
  <2>2. QED
    BY <1>2, <2>1 DEF PaidBy
<1>8. \A p \in Orders : p # o => PaidBy(p)' = PaidBy(p)
  <2>1. ASSUME NEW p \in Orders, p # o PROVE PaidBy(p)' = PaidBy(p)
    <3>1. {m \in matches' : m.order = p} = {m \in matches : m.order = p}
      BY <1>1, <1>2, <2>1
    <3>2. QED
      BY <3>1, PaidByIsEntryOfSome
  <2>2. QED
    BY <2>1
<1>9. \A p \in Orders : ~(PaymentStatusOf(p) = "CONFIRMED" /\ PaidBy(p) = e)
  <2>1. ActiveMatches(e) = {}
    BY DEF SInv, SettlementsAgree, Settles
  <2>2. QED
    BY <2>1, ConfirmedHolds DEF ActiveMatches
<1>10. ~Lifecycle!InUse(e)
  BY <1>9 DEF Lifecycle!InUse
<1>11. Lifecycle!Confirm(o, e)
  BY <1>4, <1>5, <1>7, <1>8, <1>10 DEF Lifecycle!Confirm
<1>12. QED
  BY <1>4, <1>11

LEMMA ReversesIsDispute ==
    ASSUME SInv, NEW d \in Decisions, NEW m \in matches, Reverses(d, m)
    PROVE  m.order \in Orders /\ Lifecycle!Dispute(m.order)
<1> DEFINE o == m.order
           new == [m EXCEPT !.status = "REVERSED", !.resolution = AdminKey(d)]
<1>1. /\ matches' = (matches \ {m}) \cup {new}
      /\ RecordPayment(AdminKey(d), o, "DISPUTED", orders[o].basis, orders[o].received,
                       "PAYMENT_DISPUTED", LogicalNow)
      /\ orders[o].payment = "CONFIRMED"
  BY DEF Reverses
<1>2. m \in Match /\ o \in DOMAIN orders
  BY DEF SInv, MatchRows
<1>3. new.order = o /\ new.entry = m.entry
  BY <1>2 DEF Match
<1>4. \A n \in matches : n.order = o => n = m
  BY <1>2 DEF SInv, SettlementsAgree
<1> HIDE DEF new, o
<1>5. /\ DOMAIN orders' = DOMAIN orders /\ orders'[o].payment = "DISPUTED"
      /\ \A p \in DOMAIN orders : p # o => orders'[p] = orders[p]
  BY <1>1, <1>2, PaymentFacts DEF SInv, RInv, IInv
<1>6. o \in Orders
  BY <1>2 DEF SInv, RInv, IInv, RowsTyped
<1>7. /\ PaymentStatusOf(o) = "CONFIRMED" /\ PaymentStatusOf(o)' = "DISPUTED"
      /\ \A p \in Orders : p # o => PaymentStatusOf(p)' = PaymentStatusOf(p)
  BY <1>1, <1>2, <1>5 DEF PaymentStatusOf
<1>8. PaidBy(o)' = PaidBy(o)
  <2>1. PaidBy(o) = m.entry
    BY <1>4, PaidByMatch DEF o
  <2>2. {n \in matches' : n.order = o} = {new}
    BY <1>1, <1>3, <1>4
  <2>3. QED
    BY <1>3, <2>1, <2>2 DEF PaidBy
<1>9. \A p \in Orders : p # o => PaidBy(p)' = PaidBy(p)
  <2>1. ASSUME NEW p \in Orders, p # o PROVE PaidBy(p)' = PaidBy(p)
    <3>1. {n \in matches' : n.order = p} = {n \in matches : n.order = p}
      BY <1>1, <1>3, <2>1 DEF o
    <3>2. QED
      BY <3>1, PaidByIsEntryOfSome
  <2>2. QED
    BY <2>1
<1>10. Lifecycle!Dispute(o)
  BY <1>6, <1>7, <1>8, <1>9 DEF Lifecycle!Dispute
<1>11. QED
  BY <1>6, <1>10 DEF o

LEMMA OthersAreStutters ==
    ASSUME UNCHANGED <<orders, matches>> PROVE UNCHANGED Lifecycle!lvars
BY DEF PaymentStatusOf, PaidBy, Lifecycle!lvars

LEMMA StepsRefine ==
    ASSUME SInv, [RNext]_rvars PROVE Lifecycle!LNext \/ UNCHANGED Lifecycle!lvars
<1>1. CASE MoneyStays
  BY <1>1, MoneyStaysIsOpen DEF Lifecycle!LNext
<1>2. ASSUME NEW e, NEW s,
             \/ RecordEntry(e, s) \/ FindConflict(e) \/ ResolveConflict(e) \/ Leaves(e)
      PROVE  UNCHANGED Lifecycle!lvars
  <2>1. UNCHANGED <<orders, matches>>
    BY <1>2 DEF RecordEntry, FindConflict, ResolveConflict, vars, Leaves, LeaveUnmatched,
                LeaveAmbiguous, KeepOrders
  <2>2. QED
    BY <2>1, OthersAreStutters
<1>3. ASSUME NEW e \in DOMAIN entries, NEW o \in DOMAIN orders, AutoSettles(e, o)
      PROVE  Lifecycle!LNext
  BY <1>3, AutoSettlesSettles, SettlesIsConfirm DEF Lifecycle!LNext
<1>4. ASSUME NEW d \in Decisions, NEW e \in DOMAIN entries, NEW o \in DOMAIN orders,
             ManuallySettles(d, e, o)
      PROVE  Lifecycle!LNext
  BY <1>4, ManuallySettlesSettles, SettlesIsConfirm DEF Lifecycle!LNext
<1>5. ASSUME NEW d \in Decisions, NEW m \in matches, Reverses(d, m)
      PROVE  Lifecycle!LNext
  BY <1>5, ReversesIsDispute DEF Lifecycle!LNext
<1>6. QED
  BY <1>1, <1>2, <1>3, <1>4, <1>5, MoneyKinds DEF SInv

LEMMA InitRefines == RInit => Lifecycle!LInit
<1>1. SUFFICES ASSUME RInit PROVE Lifecycle!LInit
  OBVIOUS
<1>2. DOMAIN orders = {} /\ matches = {}
  BY <1>1 DEF RInit, Init
<1>3. \A o \in Orders : PaymentStatusOf(o) = "ABSENT" /\ PaidBy(o) = NoEntry
  BY <1>2, PaidByNothing DEF PaymentStatusOf
<1>4. QED
  BY <1>3 DEF Lifecycle!LInit

(* The store implements the payment lifecycle: creating an order opens it, *)
(* both kinds of settlement confirm it with an entry that confirms no      *)
(* other order at that time, a reversal disputes it, and every other       *)
(* operation leaves what a merchant sees alone.                            *)
THEOREM StoreImplementsLifecycle == RSpec => ImplementsLifecycle
<1>1. SInv /\ [RNext]_rvars => Lifecycle!LNext \/ UNCHANGED Lifecycle!lvars
  BY StepsRefine
<1>2. QED
  BY <1>1, InitRefines, SInvariance, PTL DEF RSpec, ImplementsLifecycle, Lifecycle!LSpec

-----------------------------------------------------------------------------
(* The candidates.                                                         *)

CandidateRows ==
    \A p \in DOMAIN candidates :
        /\ p \in (DOMAIN entries) \X (DOMAIN orders)
        /\ candidates[p] \in {"ELIGIBLE", "SUPERSEDED", "SELECTED"}

(* A candidate that is no longer eligible is not missed: its entry has     *)
(* been settled, or its order cannot be paid by the entry any more.        *)
CandidatesSpent ==
    \A p \in DOMAIN candidates :
        candidates[p] # "ELIGIBLE" =>
            \/ entries[p[1]].state \in {"ALLOCATED", "CONFLICT"}
            \/ p[2] \notin CandidateFacts(entries[p[1]].report)

CInv == SInv /\ CandidateRows /\ CandidatesSpent

LEMMA CandidatesNowFacts ==
    ASSUME CandidateRows, NEW e \in DOMAIN entries
    PROVE  /\ DOMAIN CandidatesNow(e) = DOMAIN candidates \cup ({e} \X EligibleOrders(e))
           /\ \A p \in {e} \X EligibleOrders(e) : CandidatesNow(e)[p] = "ELIGIBLE"
           /\ \A p \in StaleCandidates(e) : CandidatesNow(e)[p] = "SUPERSEDED"
           /\ \A p \in DOMAIN candidates :
                 p \notin {e} \X EligibleOrders(e) /\ p \notin StaleCandidates(e) =>
                    CandidatesNow(e)[p] = candidates[p]
<1> DEFINE A == {e} \X EligibleOrders(e)
           B == StaleCandidates(e)
           f == [p \in A |-> "ELIGIBLE"]
           g == [p \in B |-> "SUPERSEDED"]
<1>1. B \subseteq DOMAIN candidates /\ A \cap B = {}
  BY DEF StaleCandidates, EligibleOf
<1>2. CandidatesNow(e) = Over(f, Over(g, candidates))
  BY DEF CandidatesNow
<1>3. DOMAIN f = A /\ DOMAIN g = B
  OBVIOUS
<1>4. \A p \in A : f[p] = "ELIGIBLE"
  OBVIOUS
<1>5. \A p \in B : g[p] = "SUPERSEDED"
  OBVIOUS
<1> HIDE DEF A, B, f, g
<1>6. DOMAIN Over(g, candidates) = DOMAIN candidates
  BY <1>1, <1>3 DEF Over
<1>7. \A p \in DOMAIN candidates :
         Over(g, candidates)[p] = IF p \in B THEN "SUPERSEDED" ELSE candidates[p]
  BY <1>1, <1>3, <1>5 DEF Over
<1>8. DOMAIN CandidatesNow(e) = DOMAIN candidates \cup A
  BY <1>2, <1>3, <1>6 DEF Over
<1>9. \A p \in DOMAIN candidates \cup A :
         CandidatesNow(e)[p] = IF p \in A THEN "ELIGIBLE" ELSE Over(g, candidates)[p]
  BY <1>2, <1>3, <1>4, <1>6 DEF Over
<1>10. \A p \in B : CandidatesNow(e)[p] = "SUPERSEDED"
  BY <1>1, <1>7, <1>9
<1>11. \A p \in A : CandidatesNow(e)[p] = "ELIGIBLE"
  BY <1>9
<1>12. \A p \in DOMAIN candidates :
          p \notin A /\ p \notin B => CandidatesNow(e)[p] = candidates[p]
  BY <1>7, <1>9
<1>13. QED
  BY <1>8, <1>10, <1>11, <1>12 DEF A, B

(* The candidates of an entry that a decision of an administrator settles. *)
LEMMA CandidatesSupersededFacts ==
    ASSUME NEW e, candidates' = Over([p \in EligibleOf(e) |-> "SUPERSEDED"], candidates)
    PROVE  /\ DOMAIN candidates' = DOMAIN candidates
           /\ \A p \in DOMAIN candidates :
                 candidates'[p] = IF p \in EligibleOf(e) THEN "SUPERSEDED" ELSE candidates[p]
<1>1. EligibleOf(e) \subseteq DOMAIN candidates
  BY DEF EligibleOf
<1>2. QED
  BY <1>1 DEF Over

(* As long as an entry is pending, none of the orders it could pay is lost *)
(* to a decision about an earlier candidate.                               *)
LEMMA EligibleIsCandidate ==
    ASSUME CInv, NEW e \in DOMAIN entries, entries[e].state \in PendingStates
    PROVE  EligibleOrders(e) = CandidateFacts(entries[e].report)
<1>1. ASSUME NEW o \in CandidateFacts(entries[e].report), <<e, o>> \in DOMAIN candidates
      PROVE  candidates[<<e, o>>] = "ELIGIBLE"
  BY <1>1 DEF CInv, CandidatesSpent, PendingStates
<1>2. QED
  BY <1>1 DEF EligibleOrders

(* The window of an order only ever shrinks.                               *)
LEMMA WindowsShrink ==
    ASSUME OrdersOnly, NEW o \in DOMAIN orders, NEW s
    PROVE  /\ (o \in SameAmountInWindow(s))' => o \in SameAmountInWindow(s)
           /\ (o \in CandidateFacts(s))' => o \in CandidateFacts(s)
BY DEF OrdersOnly, SameMoney, CandidateFacts, SameAmountInWindow, InWindow

LEMMA PaymentKeepsWindows ==
    ASSUME RowsTyped, NEW key, NEW o \in DOMAIN orders, NEW status, NEW basis, NEW amount,
           NEW type, NEW now, RecordPayment(key, o, status, basis, amount, type, now)
    PROVE  /\ \A s : SameAmountInWindow(s)' = SameAmountInWindow(s)
           /\ status # "UNPAID" =>
                \A s, p : (p \in CandidateFacts(s))' => p \in CandidateFacts(s)
<1>1. /\ DOMAIN orders' = DOMAIN orders
      /\ orders'[o].payment = status
      /\ \A p \in DOMAIN orders :
            /\ p # o => orders'[p] = orders[p]
            /\ orders'[p].payable = orders[p].payable
            /\ orders'[p].account = orders[p].account
            /\ orders'[p].created = orders[p].created
            /\ orders'[p].expires = orders[p].expires
            /\ orders'[p].released = orders[p].released
  BY PaymentFacts
<1>2. ASSUME NEW s PROVE SameAmountInWindow(s)' = SameAmountInWindow(s)
  BY <1>1 DEF SameAmountInWindow, InWindow
<1>3. ASSUME status # "UNPAID", NEW s, NEW p, (p \in CandidateFacts(s))'
      PROVE  p \in CandidateFacts(s)
  <2>1. p \in SameAmountInWindow(s)' /\ orders'[p].payment = "UNPAID"
    BY <1>3 DEF CandidateFacts
  <2>2. p \in SameAmountInWindow(s)
    BY <1>2, <2>1
  <2>3. p \in DOMAIN orders
    BY <2>2 DEF SameAmountInWindow
  <2>4. p # o
    BY <1>1, <1>3, <2>1
  <2>5. orders[p].payment = "UNPAID"
    BY <1>1, <2>1, <2>3, <2>4
  <2>6. QED
    BY <2>2, <2>5 DEF CandidateFacts
<1>4. QED
  BY <1>2, <1>3

(* Candidates stay spent when the windows of the orders only shrink.       *)
LEMMA SameCandidatesKept ==
    ASSUME CInv, candidates' = candidates,
           DOMAIN entries \subseteq DOMAIN entries', DOMAIN orders \subseteq DOMAIN orders',
           \A e \in DOMAIN entries :
               /\ entries'[e].report = entries[e].report
               /\ entries[e].state \in {"ALLOCATED", "CONFLICT"} =>
                     entries'[e].state \in {"ALLOCATED", "CONFLICT"},
           \A s : \A o \in DOMAIN orders : (o \in CandidateFacts(s))' => o \in CandidateFacts(s)
    PROVE  (CandidateRows /\ CandidatesSpent)'
BY DEF CInv, CandidateRows, CandidatesSpent

LEMMA LeavesKeepsCandidates ==
    ASSUME CInv, NEW e \in DOMAIN entries, Leaves(e) PROVE (CandidateRows /\ CandidatesSpent)'
<1>1. PICK state \in PendingStates : entries' = [entries EXCEPT ![e].state = state]
  BY DEF Leaves, LeaveUnmatched, LeaveAmbiguous, PendingStates
<1>2. /\ DOMAIN entries' = DOMAIN entries /\ entries'[e].report = entries[e].report
      /\ \A f \in DOMAIN entries : f # e => entries'[f] = entries[f]
  BY <1>1, NewStateFacts DEF CInv, SInv, PendingStates, EntryStates
<1>3. orders' = orders /\ candidates' = CandidatesNow(e)
  BY DEF Leaves, LeaveUnmatched, LeaveAmbiguous, KeepOrders
<1>4. entries[e].state \in PendingStates
  BY DEF Leaves, Ignored, CInv, SInv, EntryRows, Entry, EntryStates, PendingStates
<1>5. EligibleOrders(e) = CandidateFacts(entries[e].report)
  BY <1>4, EligibleIsCandidate
<1>6. EligibleOrders(e) \subseteq DOMAIN orders
  BY <1>5 DEF CandidateFacts, SameAmountInWindow
<1>7. \A s : CandidateFacts(s)' = CandidateFacts(s)
  BY <1>3 DEF CandidateFacts, SameAmountInWindow
<1>8. CandidateRows
  BY DEF CInv
<1>9. CandidateRows'
  <2>1. ASSUME NEW p \in DOMAIN candidates'
        PROVE  /\ p \in (DOMAIN entries) \X (DOMAIN orders)
               /\ candidates'[p] \in {"ELIGIBLE", "SUPERSEDED", "SELECTED"}
    <3>1. CASE p \in {e} \X EligibleOrders(e)
      <4>1. candidates'[p] = "ELIGIBLE"
        BY <1>3, <1>8, <3>1, CandidatesNowFacts
      <4>2. p \in (DOMAIN entries) \X (DOMAIN orders)
        BY <1>6, <3>1
      <4>3. QED
        BY <4>1, <4>2
    <3>2. CASE p \notin {e} \X EligibleOrders(e)
      <4>1. p \in DOMAIN candidates
        BY <1>3, <1>8, <3>2, CandidatesNowFacts
      <4>2. candidates'[p] \in {"SUPERSEDED", candidates[p]}
        BY <1>3, <1>8, <3>2, <4>1, CandidatesNowFacts
      <4>3. QED
        BY <1>8, <4>1, <4>2 DEF CandidateRows
    <3>3. QED
      BY <3>1, <3>2
  <2>2. candidates' = [p \in DOMAIN candidates' |-> candidates'[p]]
    BY <1>3 DEF CandidatesNow, Over
  <2>3. QED
    BY <1>2, <1>3, <2>1, <2>2 DEF CandidateRows
<1>10. ASSUME NEW p \in DOMAIN candidates', candidates'[p] # "ELIGIBLE"
       PROVE  \/ entries'[p[1]].state \in {"ALLOCATED", "CONFLICT"}
              \/ p[2] \notin CandidateFacts(entries[p[1]].report)
  <2>1. p \in DOMAIN candidates /\ p \notin {e} \X EligibleOrders(e)
    BY <1>3, <1>8, <1>10, CandidatesNowFacts
  <2>2. CASE p \in StaleCandidates(e)
    <3>1. p[1] = e /\ p[2] \notin EligibleOrders(e)
      BY <2>2 DEF StaleCandidates, EligibleOf
    <3>2. QED
      BY <1>5, <3>1
  <2>3. CASE p \notin StaleCandidates(e)
    <3>1. candidates'[p] = candidates[p]
      BY <1>3, <1>8, <2>1, <2>3, CandidatesNowFacts
    <3>2. \/ entries[p[1]].state \in {"ALLOCATED", "CONFLICT"}
          \/ p[2] \notin CandidateFacts(entries[p[1]].report)
      BY <1>10, <2>1, <3>1 DEF CInv, CandidatesSpent
    <3>3. p[1] \in DOMAIN entries
      BY <1>8, <2>1 DEF CandidateRows
    <3>4. p[1] = e => entries[p[1]].state \notin {"ALLOCATED", "CONFLICT"}
      BY <1>4 DEF PendingStates
    <3>5. QED
      BY <1>2, <3>2, <3>3, <3>4
  <2>4. QED
    BY <2>2, <2>3
<1>11. \A p \in DOMAIN candidates' : entries'[p[1]].report = entries[p[1]].report
  BY <1>2, <1>9 DEF CandidateRows
<1>12. CandidatesSpent'
  BY <1>7, <1>10, <1>11 DEF CandidatesSpent
<1>13. QED
  BY <1>9, <1>12

LEMMA SettlesKeepsCandidates ==
    ASSUME CInv, NEW e \in DOMAIN entries, NEW o \in DOMAIN orders, NEW key,
           NEW evidence, NEW basis, Settles(key, e, o, evidence, basis),
           CandidateRows',
           \A p \in DOMAIN candidates' :
               \/ p[1] = e
               \/ p \in DOMAIN candidates /\ candidates'[p] = candidates[p]
    PROVE  CandidatesSpent'
<1>1. /\ entries' = [entries EXCEPT ![e].state = "ALLOCATED"]
      /\ RecordPayment(key, o, "CONFIRMED", basis, entries[e].report.amount,
                       "PAYMENT_CONFIRMED", LogicalNow)
  BY DEF Settles, WriteSettlement
<1>2. /\ DOMAIN entries' = DOMAIN entries /\ entries'[e].state = "ALLOCATED"
      /\ \A f \in DOMAIN entries : f # e => entries'[f] = entries[f]
  BY <1>1, NewStateFacts DEF CInv, SInv, EntryStates
<1>3. ASSUME NEW s, NEW p, (p \in CandidateFacts(s))' PROVE p \in CandidateFacts(s)
  <2>1. RowsTyped
    BY DEF CInv, SInv, RInv, IInv
  <2>2. "CONFIRMED" # "UNPAID"
    OBVIOUS
  <2>3. QED
    BY <1>1, <1>3, <2>1, <2>2, PaymentKeepsWindows
<1>4. ASSUME NEW p \in DOMAIN candidates', candidates'[p] # "ELIGIBLE"
      PROVE  \/ entries'[p[1]].state \in {"ALLOCATED", "CONFLICT"}
             \/ (p[2] \notin CandidateFacts(entries[p[1]].report))'
  <2>1. CASE p[1] = e
    BY <1>2, <2>1
  <2>2. CASE p[1] # e
    <3>1. /\ p \in DOMAIN candidates /\ candidates[p] # "ELIGIBLE"
          /\ p[1] \in DOMAIN entries
      BY <1>4, <2>2 DEF CInv, CandidateRows
    <3>2. entries'[p[1]] = entries[p[1]]
      BY <1>2, <2>2, <3>1
    <3>3. QED
      BY <1>3, <3>1, <3>2 DEF CInv, CandidatesSpent
  <2>3. QED
    BY <2>1, <2>2
<1>5. QED
  BY <1>4 DEF CandidatesSpent

LEMMA AutoSettlesKeepsCandidates ==
    ASSUME CInv, NEW e \in DOMAIN entries, NEW o \in DOMAIN orders, AutoSettles(e, o)
    PROVE  (CandidateRows /\ CandidatesSpent)'
<1>1. /\ candidates' = [CandidatesNow(e) EXCEPT ![<<e, o>>] = "SELECTED"]
      /\ EligibleOrders(e) = {o}
  BY DEF AutoSettles, AutoSettle
<1>2. Settles(AutoKey(e, o), e, o, "AMOUNT_INFERRED", "INFERRED")
  BY AutoSettlesSettles DEF CInv
<1>3. DOMAIN entries' = DOMAIN entries /\ DOMAIN orders' = DOMAIN orders
  <2>1. /\ entries' = [entries EXCEPT ![e].state = "ALLOCATED"]
        /\ \E a, b, c, k : RecordPayment(a, o, "CONFIRMED", b, c, k, LogicalNow)
    BY <1>2 DEF Settles, WriteSettlement
  <2>2. QED
    BY <2>1, PaymentFacts DEF CInv, SInv, RInv, IInv
<1>4. CandidateRows
  BY DEF CInv
<1>5. DOMAIN candidates' = DOMAIN candidates \cup {<<e, o>>}
  BY <1>1, <1>4, CandidatesNowFacts
<1>6. \A p \in DOMAIN candidates' :
         /\ p # <<e, o>> => p \in DOMAIN candidates
         /\ p[1] # e => candidates'[p] = candidates[p]
         /\ candidates'[p] \in {"ELIGIBLE", "SUPERSEDED", "SELECTED"}
  <2>1. ASSUME NEW p \in DOMAIN candidates, p # <<e, o>>
        PROVE  /\ p[1] # e => candidates'[p] = candidates[p]
               /\ candidates'[p] \in {"ELIGIBLE", "SUPERSEDED", "SELECTED"}
    <3>1. candidates'[p] = CandidatesNow(e)[p] /\ p \notin {e} \X EligibleOrders(e)
      BY <1>1, <2>1
    <3>2. p[1] # e => p \notin StaleCandidates(e)
      BY DEF StaleCandidates, EligibleOf
    <3>3. candidates[p] \in {"ELIGIBLE", "SUPERSEDED", "SELECTED"}
      BY <1>4 DEF CandidateRows
    <3>4. CandidatesNow(e)[p] \in {"SUPERSEDED", candidates[p]}
      BY <1>4, <3>1, CandidatesNowFacts
    <3>5. p[1] # e => CandidatesNow(e)[p] = candidates[p]
      BY <1>4, <3>1, <3>2, CandidatesNowFacts
    <3>6. QED
      BY <3>1, <3>3, <3>4, <3>5
  <2>2. <<e, o>> \in DOMAIN CandidatesNow(e)
    BY <1>1, <1>4, CandidatesNowFacts
  <2>3. candidates'[<<e, o>>] = "SELECTED"
    BY <1>1, <2>2
  <2>4. QED
    BY <1>5, <2>1, <2>3
<1>7. CandidateRows'
  BY <1>3, <1>4, <1>5, <1>6 DEF CandidateRows
<1>8. \A p \in DOMAIN candidates' :
         p[1] = e \/ (p \in DOMAIN candidates /\ candidates'[p] = candidates[p])
  BY <1>6
<1>9. QED
  BY <1>2, <1>7, <1>8, SettlesKeepsCandidates

LEMMA ManuallySettlesKeepsCandidates ==
    ASSUME CInv, NEW d \in Decisions, NEW e \in DOMAIN entries, NEW o \in DOMAIN orders,
           ManuallySettles(d, e, o)
    PROVE  (CandidateRows /\ CandidatesSpent)'
<1>1. Settles(AdminKey(d), e, o, "MANUAL", "MANUAL")
  BY ManuallySettlesSettles
<1>2. DOMAIN entries' = DOMAIN entries /\ DOMAIN orders' = DOMAIN orders
  <2>1. /\ entries' = [entries EXCEPT ![e].state = "ALLOCATED"]
        /\ \E a, b, c, k : RecordPayment(a, o, "CONFIRMED", b, c, k, LogicalNow)
    BY <1>1 DEF Settles, WriteSettlement
  <2>2. QED
    BY <2>1, PaymentFacts DEF CInv, SInv, RInv, IInv
<1>3. /\ DOMAIN candidates' = DOMAIN candidates
      /\ \A p \in DOMAIN candidates :
            candidates'[p] = IF p \in EligibleOf(e) THEN "SUPERSEDED" ELSE candidates[p]
  BY CandidatesSupersededFacts DEF ManuallySettles
<1>4. CandidateRows'
  BY <1>2, <1>3 DEF CInv, CandidateRows
<1>5. \A p \in DOMAIN candidates' :
         p[1] = e \/ (p \in DOMAIN candidates /\ candidates'[p] = candidates[p])
  BY <1>3 DEF EligibleOf
<1>6. QED
  BY <1>1, <1>4, <1>5, SettlesKeepsCandidates

LEMMA InitCInv == RInit => CInv
BY InitSInv DEF CInv, RInit, CandidateRows, CandidatesSpent

LEMMA StepCInv == CInv /\ [RNext]_rvars => CInv'
<1>1. SUFFICES ASSUME CInv, [RNext]_rvars PROVE (CandidateRows /\ CandidatesSpent)'
  BY StepSInv DEF CInv
<1>2. CASE MoneyStays
  <2>1. UNCHANGED <<entries, candidates>> /\ OrdersOnly
    BY <1>2 DEF MoneyStays, money
  <2>2. DOMAIN orders \subseteq DOMAIN orders'
    BY <2>1 DEF OrdersOnly
  <2>3. QED
    BY <1>1, <2>1, <2>2, WindowsShrink, SameCandidatesKept
<1>3. ASSUME NEW e \in Entries \ DOMAIN entries, NEW s \in Statements, RecordEntry(e, s)
      PROVE  (CandidateRows /\ CandidatesSpent)'
  <2>1. UNCHANGED <<orders, candidates>>
    BY <1>3 DEF RecordEntry, vars
  <2>2. /\ DOMAIN entries' = DOMAIN entries \cup {e}
        /\ \A f \in DOMAIN entries : entries'[f] = entries[f]
    BY <1>1, <1>3, RecordFacts DEF CInv, SInv
  <2>3. \A r : CandidateFacts(r)' = CandidateFacts(r)
    BY <2>1 DEF CandidateFacts, SameAmountInWindow
  <2>4. QED
    BY <1>1, <2>1, <2>2, <2>3, SameCandidatesKept
<1>4. ASSUME NEW e \in DOMAIN entries, FindConflict(e) \/ ResolveConflict(e)
      PROVE  (CandidateRows /\ CandidatesSpent)'
  <2>1. UNCHANGED <<orders, candidates>>
    BY <1>4 DEF FindConflict, ResolveConflict, vars
  <2>2. PICK c \in {"NONE", "OPEN", "RESOLVED"} : entries' = [entries EXCEPT ![e].conflict = c]
    BY <1>4 DEF FindConflict, ResolveConflict
  <2>3. /\ DOMAIN entries' = DOMAIN entries
        /\ \A f \in DOMAIN entries : /\ entries'[f].state = entries[f].state
                                     /\ entries'[f].report = entries[f].report
    BY <1>1, <2>2, NewConflictFacts DEF CInv, SInv
  <2>4. \A r : CandidateFacts(r)' = CandidateFacts(r)
    BY <2>1 DEF CandidateFacts, SameAmountInWindow
  <2>5. QED
    BY <1>1, <2>1, <2>3, <2>4, SameCandidatesKept
<1>5. ASSUME NEW d \in Decisions, NEW m \in matches, Reverses(d, m)
      PROVE  (CandidateRows /\ CandidatesSpent)'
  <2>1. /\ candidates' = candidates
        /\ entries' = [entries EXCEPT ![m.entry].state = "CONFLICT"]
        /\ RecordPayment(AdminKey(d), m.order, "DISPUTED", orders[m.order].basis,
                         orders[m.order].received, "PAYMENT_DISPUTED", LogicalNow)
    BY <1>5 DEF Reverses
  <2>2. m.entry \in DOMAIN entries /\ m.order \in DOMAIN orders
    BY <1>1 DEF CInv, SInv, MatchRows
  <2>3. /\ DOMAIN entries' = DOMAIN entries /\ entries'[m.entry].state = "CONFLICT"
        /\ entries'[m.entry].report = entries[m.entry].report
        /\ \A f \in DOMAIN entries : f # m.entry => entries'[f] = entries[f]
    BY <1>1, <2>1, <2>2, NewStateFacts DEF CInv, SInv, EntryStates
  <2>4. /\ DOMAIN orders' = DOMAIN orders
        /\ \A s, p : (p \in CandidateFacts(s))' => p \in CandidateFacts(s)
    <3>1. RowsTyped
      BY <1>1 DEF CInv, SInv, RInv, IInv
    <3>2. "DISPUTED" # "UNPAID"
      OBVIOUS
    <3>3. DOMAIN orders' = DOMAIN orders
      BY <2>1, <2>2, <3>1, PaymentFacts
    <3>4. ASSUME NEW s, NEW p, (p \in CandidateFacts(s))' PROVE p \in CandidateFacts(s)
      <4>1. RecordPayment(AdminKey(d), m.order, "DISPUTED", orders[m.order].basis,
                          orders[m.order].received, "PAYMENT_DISPUTED", LogicalNow)
        BY <2>1
      <4>2. QED
        BY <2>2, <3>1, <3>2, <3>4, <4>1, PaymentKeepsWindows
    <3>5. QED
      BY <3>3, <3>4
  <2>5. QED
    BY <1>1, <2>1, <2>3, <2>4, SameCandidatesKept
<1>6. QED
  BY <1>1, <1>2, <1>3, <1>4, <1>5, LeavesKeepsCandidates, AutoSettlesKeepsCandidates,
     ManuallySettlesKeepsCandidates, MoneyKinds DEF CInv, SInv

LEMMA CInvariance == RSpec => []CInv
BY InitCInv, StepCInv, PTL DEF RSpec

LEMMA AutoSettlesUnambiguously ==
    ASSUME CInv, NEW e \in DOMAIN entries, NEW o \in DOMAIN orders, AutoSettles(e, o)
    PROVE  /\ SameAmountInWindow(entries[e].report) = {o}
           /\ entries[e].conflict # "OPEN"
           /\ \A n \in matches : n.order # o /\ n.entry # e
<1>1. EligibleOrders(e) = {o} /\ SettledOverlap(entries[e].report) = {}
  BY DEF AutoSettles, AutoSettle
<1>2. entries[e].state \in PendingStates /\ entries[e].conflict # "OPEN"
  BY DEF AutoSettles, Ignored, CInv, SInv, EntryRows, Entry, EntryStates, PendingStates
<1>3. CandidateFacts(entries[e].report) = {o}
  BY <1>1, <1>2, EligibleIsCandidate
<1>4. \A p \in SameAmountInWindow(entries[e].report) :
         orders[p].payment \in {"UNPAID", "CONFIRMED", "DISPUTED"}
  BY DEF SameAmountInWindow, CInv, SInv, RInv, IInv, RowsTyped, Row, PaymentStatuses
<1>5. SameAmountInWindow(entries[e].report) = {o}
  BY <1>1, <1>3, <1>4 DEF CandidateFacts, SettledOverlap
<1>6. orders[o].payment = "UNPAID"
  BY <1>3 DEF CandidateFacts
<1>7. \A n \in matches : n.order # o
  BY <1>6 DEF CInv, SInv, SettlementsAgree
<1>8. \A n \in matches : n.entry # e
  BY <1>2 DEF CInv, SInv, SettlementsAgree, PendingStates
<1>9. QED
  BY <1>2, <1>5, <1>7, <1>8

(* An automatic settlement is never a guess, for any number of orders and  *)
(* entries: the candidates that were passed over earlier cannot hide an    *)
(* order the movement could have paid.                                     *)
THEOREM AutoSettlementsAreUnambiguous == RSpec => AutoSettlementUnambiguous
<1>1. CInv /\ [RNext]_rvars =>
        \A m \in matches' \ matches :
          m.evidence = "AMOUNT_INFERRED" /\ m.status = "SETTLED" =>
             /\ SameAmountInWindow(entries[m.entry].report) = {m.order}
             /\ entries[m.entry].conflict # "OPEN"
             /\ \A n \in matches : n.order # m.order /\ n.entry # m.entry
  <2>1. SUFFICES ASSUME CInv, [RNext]_rvars, NEW m \in matches' \ matches,
                        m.evidence = "AMOUNT_INFERRED", m.status = "SETTLED"
                 PROVE  /\ SameAmountInWindow(entries[m.entry].report) = {m.order}
                        /\ entries[m.entry].conflict # "OPEN"
                        /\ \A n \in matches : n.order # m.order /\ n.entry # m.entry
    OBVIOUS
  <2>2. matches' # matches
    BY <2>1
  <2>3. ASSUME NEW e \in DOMAIN entries, NEW o \in DOMAIN orders, AutoSettles(e, o)
        PROVE  m.entry = e /\ m.order = o
    BY <2>1, <2>3 DEF AutoSettles, AutoSettle, WriteSettlement
  <2>4. ASSUME NEW d \in Decisions, NEW e \in DOMAIN entries, NEW o \in DOMAIN orders,
               ManuallySettles(d, e, o)
        PROVE  FALSE
    BY <2>1, <2>4 DEF ManuallySettles, WriteSettlement
  <2>5. ASSUME NEW d \in Decisions, NEW n \in matches, Reverses(d, n)
        PROVE  FALSE
    <3>1. n \in Match
      BY <2>1 DEF CInv, SInv, MatchRows
    <3>2. m = [n EXCEPT !.status = "REVERSED", !.resolution = AdminKey(d)]
      BY <2>1, <2>5 DEF Reverses
    <3>3. QED
      BY <2>1, <3>1, <3>2 DEF Match
  <2>6. \A e, s : ~(RecordEntry(e, s) \/ FindConflict(e) \/ ResolveConflict(e) \/ Leaves(e))
    BY <2>2 DEF RecordEntry, FindConflict, ResolveConflict, Leaves, LeaveUnmatched,
                LeaveAmbiguous
  <2>7. ~MoneyStays
    BY <2>2 DEF MoneyStays, money
  <2>8. PICK e \in DOMAIN entries, o \in DOMAIN orders : AutoSettles(e, o)
    BY <2>1, <2>4, <2>5, <2>6, <2>7, MoneyKinds DEF CInv, SInv
  <2>9. QED
    BY <2>1, <2>3, <2>8, AutoSettlesUnambiguously
<1>2. QED
  BY <1>1, CInvariance, PTL DEF RSpec, AutoSettlementUnambiguous

-----------------------------------------------------------------------------
(* The issues shown to the administrator.                                  *)

ExceptionRows ==
    \A x \in exceptions : /\ x \in Exception
                          /\ x.entry \in DOMAIN entries
                          /\ x.context \in DOMAIN operations \cup {<<>>}

XInv == SInv /\ ExceptionRows /\ IssuesTrackEntries

OpenIssue(e, type, order, context) ==
    [type |-> type, entry |-> e, order |-> order, context |-> context, round |-> 0,
     status |-> "OPEN", by |-> <<>>]

(* The two ways a step changes the issues: it makes sure that one is open, *)
(* or it resolves the open ones of an entry.                               *)
LEMMA IssueOpened ==
    ASSUME NEW e, NEW type, NEW order, NEW context,
           EnsureException(e, type, order, context),
           \A x \in exceptions : x.entry = e /\ x.context = context => x.status = "OPEN"
    PROVE  \/ exceptions' = exceptions \cup {OpenIssue(e, type, order, context)}
           \/ /\ exceptions' = exceptions
              /\ \E x \in exceptions : /\ x.entry = e /\ x.type = type /\ x.order = order
                                       /\ x.context = context /\ x.status = "OPEN"
<1> DEFINE same == {x \in exceptions : x.entry = e /\ x.type = type /\ x.order = order}
           first == {x \in same : x.context = context /\ x.round = 0}
<1>1. CASE first = {}
  BY <1>1 DEF EnsureException, OpenIssue
<1>2. CASE first # {}
  <2>1. PICK x \in first : x.status = "OPEN"
    BY <1>2
  <2>2. exceptions' = exceptions
    BY <1>2, <2>1 DEF EnsureException
  <2>3. QED
    BY <2>1, <2>2
<1>3. QED
  BY <1>1, <1>2

LEMMA OnlyOfIsOrder ==
    ASSUME NEW S \in SUBSET Orders PROVE OnlyOf(S) \in Orders \cup {NoOrder}
<1>1. Cardinality(S) = 1 => S # {}
  BY FS_EmptySet
<1>2. QED
  BY <1>1 DEF OnlyOf

LEMMA ClassificationTyped ==
    ASSUME IInv, NEW s
    PROVE  Classification(s).type \in ExceptionTypes
           /\ Classification(s).order \in Orders \cup {NoOrder}
<1>1. DOMAIN orders \subseteq Orders
  BY DEF IInv, RowsTyped
<1>2. /\ SettledOverlap(s) \in SUBSET Orders
      /\ EndedShortlyBefore(s) \in SUBSET Orders
      /\ PossiblyMistyped(s) \in SUBSET Orders
  BY <1>1 DEF SettledOverlap, SameAmountInWindow, EndedShortlyBefore, PossiblyMistyped
<1>3. /\ OnlyOf(SettledOverlap(s)) \in Orders \cup {NoOrder}
      /\ OnlyOf(EndedShortlyBefore(s)) \in Orders \cup {NoOrder}
      /\ OnlyOf(PossiblyMistyped(s)) \in Orders \cup {NoOrder}
  BY <1>2, OnlyOfIsOrder
<1>4. QED
  BY <1>3 DEF Classification, ExceptionTypes

LEMMA KeysDiffer ==
    /\ \A d, e, o : AdminKey(d) # <<>> /\ AdminKey(d) # AutoKey(e, o)
                    /\ AdminKey(d) # SupersedeKey(e, o)
    /\ \A e, o, f, p : AutoKey(e, o) # SupersedeKey(f, p)
    /\ \A d, c : AdminKey(d) = AdminKey(c) => d = c
    /\ \A e, o, f, p : AutoKey(e, o) = AutoKey(f, p) => e = f /\ o = p
    /\ \A e, o, f, p : SupersedeKey(e, o) = SupersedeKey(f, p) => e = f /\ o = p
BY DEF AdminKey, AutoKey, SupersedeKey

LEMMA LeavesKeepsIssues ==
    ASSUME XInv, NEW e \in DOMAIN entries, Leaves(e)
    PROVE  (ExceptionRows /\ IssuesTrackEntries)'
<1>1. PICK state \in PendingStates, type \in ExceptionTypes, order \in Orders \cup {NoOrder} :
         /\ entries' = [entries EXCEPT ![e].state = state]
         /\ EnsureException(e, type, order, <<>>)
         /\ state = "CANDIDATE" => type = "AMBIGUOUS_MATCH"
  <2>1. CASE LeaveUnmatched(e)
    <3>1. Classification(entries[e].report).type \in ExceptionTypes
          /\ Classification(entries[e].report).order \in Orders \cup {NoOrder}
      BY ClassificationTyped DEF XInv, SInv, RInv
    <3>2. /\ entries' = [entries EXCEPT ![e].state = "UNALLOCATED"]
          /\ EnsureException(e, Classification(entries[e].report).type,
                             Classification(entries[e].report).order, <<>>)
      BY <2>1 DEF LeaveUnmatched
    <3>3. QED
      BY <3>1, <3>2 DEF PendingStates
  <2>2. CASE LeaveAmbiguous(e)
    BY <2>2 DEF LeaveAmbiguous, PendingStates, ExceptionTypes
  <2>3. QED
    BY <2>1, <2>2 DEF Leaves
<1>2. /\ DOMAIN entries' = DOMAIN entries /\ entries'[e].state = state
      /\ \A f \in DOMAIN entries : f # e => entries'[f] = entries[f]
  BY <1>1, NewStateFacts DEF XInv, SInv, PendingStates, EntryStates
<1>3. matches' = matches /\ DOMAIN operations \subseteq DOMAIN operations'
  BY DEF Leaves, LeaveUnmatched, LeaveAmbiguous, OperationsNow, Over
<1>4. entries[e].state \in PendingStates
  BY DEF Leaves, Ignored, XInv, SInv, EntryRows, Entry, EntryStates, PendingStates
<1>5. \A x \in exceptions : x.entry = e => x.status = "OPEN"
  BY <1>4 DEF XInv, IssuesTrackEntries
<1> DEFINE new == OpenIssue(e, type, order, <<>>)
<1>6. /\ new \in Exception /\ new.entry = e /\ new.type = type /\ new.status = "OPEN"
      /\ new.round = 0 /\ new.context = <<>>
  <2>1. e \in Entries
    BY DEF XInv, SInv, EntryRows
  <2>2. QED
    BY <2>1 DEF OpenIssue, Exception
<1>7. \/ exceptions' = exceptions \cup {new}
      \/ /\ exceptions' = exceptions
         /\ \E x \in exceptions : x.entry = e /\ x.type = type /\ x.status = "OPEN"
  BY <1>1, <1>5, IssueOpened
<1> HIDE DEF new
<1>8. ExceptionRows'
  BY <1>2, <1>3, <1>6, <1>7 DEF XInv, ExceptionRows
<1>9. ASSUME NEW f \in DOMAIN entries'
      PROVE  LET issues == {x \in exceptions' : x.entry = f}
                 open == {x \in issues : x.status = "OPEN"}
             IN  /\ entries'[f].state = "ALLOCATED" => open = {}
                 /\ entries'[f].state \in PendingStates => open = issues
                 /\ entries'[f].state = "CANDIDATE" =>
                      \E x \in open : x.type = "AMBIGUOUS_MATCH"
                 /\ entries'[f].state = "CONFLICT" =>
                      \E x \in open, m \in matches' :
                          /\ x.type = "RECONCILIATION_CONFLICT" /\ x.order = m.order
                          /\ m.entry = f /\ m.resolution = x.context
                 /\ \A x \in issues : x.round = 0
  <2>1. CASE f = e
    <3>1. \A x \in exceptions' : x.entry = e => x.status = "OPEN" /\ x.round = 0
      BY <1>5, <1>6, <1>7 DEF XInv, IssuesTrackEntries
    <3>2. \E x \in exceptions' : x.entry = e /\ x.type = type /\ x.status = "OPEN"
      BY <1>6, <1>7
    <3>3. QED
      BY <1>1, <1>2, <2>1, <3>1, <3>2 DEF PendingStates
  <2>2. CASE f # e
    <3>1. {x \in exceptions' : x.entry = f} = {x \in exceptions : x.entry = f}
      BY <1>6, <1>7, <2>2
    <3>2. entries'[f] = entries[f] /\ f \in DOMAIN entries
      BY <1>2, <2>2
    <3>3. QED
      BY <1>3, <3>1, <3>2 DEF XInv, IssuesTrackEntries
  <2>3. QED
    BY <2>1, <2>2
<1>10. QED
  BY <1>8, <1>9 DEF IssuesTrackEntries

LEMMA SettlesKeepsIssues ==
    ASSUME XInv, NEW e \in DOMAIN entries, NEW o \in DOMAIN orders, NEW key,
           NEW evidence, NEW basis, Settles(key, e, o, evidence, basis),
           DOMAIN operations \subseteq DOMAIN operations'
    PROVE  (ExceptionRows /\ IssuesTrackEntries)'
<1> DEFINE R(x) == IF x.entry = e /\ x.status = "OPEN"
                   THEN [x EXCEPT !.status = "RESOLVED", !.by = key] ELSE x
<1>1. /\ entries' = [entries EXCEPT ![e].state = "ALLOCATED"]
      /\ exceptions' = {R(x) : x \in exceptions}
      /\ matches \subseteq matches' /\ key \in Keys
  BY DEF Settles, WriteSettlement, WithExceptionsResolved
<1>2. /\ DOMAIN entries' = DOMAIN entries /\ entries'[e].state = "ALLOCATED"
      /\ \A f \in DOMAIN entries : f # e => entries'[f] = entries[f]
  BY <1>1, NewStateFacts DEF XInv, SInv, EntryStates
<1>3. \A x \in exceptions :
         /\ R(x) \in Exception /\ R(x).entry = x.entry /\ R(x).context = x.context
         /\ R(x).round = x.round
         /\ x.entry # e => R(x) = x
         /\ x.entry = e => R(x).status = "RESOLVED"
  BY <1>1 DEF XInv, ExceptionRows, Exception
<1> HIDE DEF R
<1>4. ExceptionRows'
  BY <1>1, <1>2, <1>3 DEF XInv, ExceptionRows
<1>5. ASSUME NEW f \in DOMAIN entries'
      PROVE  LET issues == {x \in exceptions' : x.entry = f}
                 open == {x \in issues : x.status = "OPEN"}
             IN  /\ entries'[f].state = "ALLOCATED" => open = {}
                 /\ entries'[f].state \in PendingStates => open = issues
                 /\ entries'[f].state = "CANDIDATE" =>
                      \E x \in open : x.type = "AMBIGUOUS_MATCH"
                 /\ entries'[f].state = "CONFLICT" =>
                      \E x \in open, m \in matches' :
                          /\ x.type = "RECONCILIATION_CONFLICT" /\ x.order = m.order
                          /\ m.entry = f /\ m.resolution = x.context
                 /\ \A x \in issues : x.round = 0
  <2>1. CASE f = e
    BY <1>1, <1>2, <1>3, <2>1 DEF PendingStates, XInv, IssuesTrackEntries
  <2>2. CASE f # e
    <3>1. {x \in exceptions' : x.entry = f} = {x \in exceptions : x.entry = f}
      BY <1>1, <1>3, <2>2
    <3>2. entries'[f] = entries[f] /\ f \in DOMAIN entries
      BY <1>2, <2>2
    <3>3. matches \subseteq matches'
      BY <1>1
    <3>4. QED
      BY <3>1, <3>2, <3>3 DEF XInv, IssuesTrackEntries
  <2>3. QED
    BY <2>1, <2>2
<1>6. QED
  BY <1>4, <1>5 DEF IssuesTrackEntries

LEMMA ReversesKeepsIssues ==
    ASSUME XInv, NEW d \in Decisions, NEW m \in matches, Reverses(d, m)
    PROVE  (ExceptionRows /\ IssuesTrackEntries)'
<1> DEFINE o == m.order
           e == m.entry
           changed == [m EXCEPT !.status = "REVERSED", !.resolution = AdminKey(d)]
           new == OpenIssue(e, "RECONCILIATION_CONFLICT", o, AdminKey(d))
<1>1. /\ matches' = (matches \ {m}) \cup {changed}
      /\ entries' = [entries EXCEPT ![e].state = "CONFLICT"]
      /\ EnsureException(e, "RECONCILIATION_CONFLICT", o, AdminKey(d))
      /\ AdminKey(d) \notin DOMAIN operations
      /\ entries[e].state = "ALLOCATED"
  BY DEF Reverses
<1>2. m \in Match /\ e \in DOMAIN entries /\ e \in Entries /\ o \in Orders
  BY DEF XInv, SInv, MatchRows, Match
<1>3. /\ changed.entry = e /\ changed.order = o /\ changed.resolution = AdminKey(d)
  BY <1>2 DEF Match
<1>4. DOMAIN operations' = DOMAIN operations \cup {AdminKey(d)}
  BY DEF Reverses, Over, OneOperation
<1>5. /\ new \in Exception /\ new.entry = e /\ new.type = "RECONCILIATION_CONFLICT"
      /\ new.order = o /\ new.status = "OPEN" /\ new.round = 0 /\ new.context = AdminKey(d)
  <2>1. AdminKey(d) \in Keys
    BY DEF Keys
  <2>2. QED
    BY <1>2, <2>1 DEF OpenIssue, Exception, ExceptionTypes
<1>6. \A x \in exceptions : x.context # AdminKey(d)
  BY <1>1, KeysDiffer DEF XInv, ExceptionRows
<1>7. exceptions' = exceptions \cup {new}
  BY <1>1, <1>6, IssueOpened
<1> HIDE DEF o, e, changed, new
<1>8. /\ DOMAIN entries' = DOMAIN entries /\ entries'[e].state = "CONFLICT"
      /\ \A f \in DOMAIN entries : f # e => entries'[f] = entries[f]
  BY <1>1, <1>2, NewStateFacts DEF XInv, SInv, EntryStates
<1>9. ExceptionRows'
  BY <1>2, <1>4, <1>5, <1>7, <1>8 DEF XInv, ExceptionRows
<1>10. ASSUME NEW f \in DOMAIN entries'
       PROVE  LET issues == {x \in exceptions' : x.entry = f}
                  open == {x \in issues : x.status = "OPEN"}
              IN  /\ entries'[f].state = "ALLOCATED" => open = {}
                  /\ entries'[f].state \in PendingStates => open = issues
                  /\ entries'[f].state = "CANDIDATE" =>
                       \E x \in open : x.type = "AMBIGUOUS_MATCH"
                  /\ entries'[f].state = "CONFLICT" =>
                       \E x \in open, n \in matches' :
                           /\ x.type = "RECONCILIATION_CONFLICT" /\ x.order = n.order
                           /\ n.entry = f /\ n.resolution = x.context
                  /\ \A x \in issues : x.round = 0
  <2>1. CASE f = e
    <3>1. \A x \in exceptions' : x.entry = e => x.round = 0
      BY <1>2, <1>5, <1>7 DEF XInv, IssuesTrackEntries
    <3>2. new \in exceptions' /\ changed \in matches'
      BY <1>1, <1>7
    <3>3. QED
      BY <1>3, <1>5, <1>8, <2>1, <3>1, <3>2 DEF PendingStates
  <2>2. CASE f # e
    <3>1. {x \in exceptions' : x.entry = f} = {x \in exceptions : x.entry = f}
      BY <1>5, <1>7, <2>2
    <3>2. entries'[f] = entries[f] /\ f \in DOMAIN entries
      BY <1>8, <2>2
    <3>3. \A n \in matches : n.entry = f => n \in matches'
      BY <1>1, <2>2 DEF e
    <3>4. QED
      BY <3>1, <3>2, <3>3 DEF XInv, IssuesTrackEntries
  <2>3. QED
    BY <2>1, <2>2
<1>11. QED
  BY <1>9, <1>10 DEF IssuesTrackEntries

LEMMA InitXInv == RInit => XInv
BY InitSInv DEF RInit, XInv, ExceptionRows, IssuesTrackEntries

LEMMA StepXInv == XInv /\ [RNext]_rvars => XInv'
<1>1. SUFFICES ASSUME XInv, [RNext]_rvars PROVE (ExceptionRows /\ IssuesTrackEntries)'
  BY StepSInv DEF XInv
<1>2. CASE MoneyStays
  BY <1>1, <1>2 DEF MoneyStays, money, XInv, ExceptionRows, IssuesTrackEntries
<1>3. ASSUME NEW e \in Entries \ DOMAIN entries, NEW s \in Statements, RecordEntry(e, s)
      PROVE  (ExceptionRows /\ IssuesTrackEntries)'
  <2>1. UNCHANGED <<exceptions, matches, operations>>
    BY <1>3 DEF RecordEntry
  <2>2. /\ DOMAIN entries' = DOMAIN entries \cup {e}
        /\ entries'[e].state = "UNALLOCATED"
        /\ \A f \in DOMAIN entries : entries'[f] = entries[f]
    BY <1>1, <1>3, RecordFacts DEF XInv, SInv
  <2>3. \A x \in exceptions : x.entry # e
    BY <1>1 DEF XInv, ExceptionRows
  <2>4. QED
    BY <1>1, <2>1, <2>2, <2>3 DEF XInv, ExceptionRows, IssuesTrackEntries
<1>4. ASSUME NEW e \in DOMAIN entries, FindConflict(e) \/ ResolveConflict(e)
      PROVE  (ExceptionRows /\ IssuesTrackEntries)'
  <2>1. UNCHANGED <<exceptions, matches, operations>>
    BY <1>4 DEF FindConflict, ResolveConflict
  <2>2. PICK c \in {"NONE", "OPEN", "RESOLVED"} : entries' = [entries EXCEPT ![e].conflict = c]
    BY <1>4 DEF FindConflict, ResolveConflict
  <2>3. /\ DOMAIN entries' = DOMAIN entries
        /\ \A f \in DOMAIN entries : entries'[f].state = entries[f].state
    BY <1>1, <2>2, NewConflictFacts DEF XInv, SInv
  <2>4. QED
    BY <1>1, <2>1, <2>3 DEF XInv, ExceptionRows, IssuesTrackEntries
<1>5. ASSUME NEW e \in DOMAIN entries, NEW o \in DOMAIN orders, AutoSettles(e, o)
      PROVE  (ExceptionRows /\ IssuesTrackEntries)'
  <2>1. DOMAIN operations \subseteq DOMAIN operations'
    BY <1>5 DEF AutoSettles, AutoSettle, OperationsNow, Over
  <2>2. QED
    BY <1>1, <1>5, <2>1, AutoSettlesSettles, SettlesKeepsIssues DEF XInv
<1>6. ASSUME NEW d \in Decisions, NEW e \in DOMAIN entries, NEW o \in DOMAIN orders,
             ManuallySettles(d, e, o)
      PROVE  (ExceptionRows /\ IssuesTrackEntries)'
  <2>1. DOMAIN operations \subseteq DOMAIN operations'
    BY <1>6 DEF ManuallySettles, Over
  <2>2. QED
    BY <1>1, <1>6, <2>1, ManuallySettlesSettles, SettlesKeepsIssues
<1>7. QED
  BY <1>1, <1>2, <1>3, <1>4, <1>5, <1>6, LeavesKeepsIssues, ReversesKeepsIssues, MoneyKinds
     DEF XInv, SInv

LEMMA XInvariance == RSpec => []XInv
BY InitXInv, StepXInv, PTL DEF RSpec

(* The issues shown to the administrator are the entries that need one,    *)
(* whatever the number of entries, and no issue is ever opened in a second *)
(* round: the entry an issue is about is never left pending again.         *)
THEOREM IssuesAlwaysTrackEntries == RSpec => []IssuesTrackEntries
<1>1. XInv => IssuesTrackEntries
  BY DEF XInv
<1>2. QED
  BY XInvariance, <1>1, PTL

-----------------------------------------------------------------------------
(* The books.                                                              *)

(* A non-empty set of finite sets has a smallest one. *)
LEMMA LeastSet ==
    ASSUME NEW U, NEW F \in SUBSET FiniteSubsetsOf(U), F # {}
    PROVE  \E s \in F : \A t \in F : t \subseteq s => t = s
<1> DEFINE R == StrictSubsetOrdering(U)
<1>1. IsWellFoundedOn(R, FiniteSubsetsOf(U))
  BY FS_StrictSubsetOrderingWellFounded
<1>2. PICK s \in F : \A t \in F : <<t, s>> \notin R
  <2> HIDE DEF R
  <2>1. QED
    BY <1>1, WFMin
<1>3. ASSUME NEW t \in F, t \subseteq s, t # s PROVE FALSE
  <2>1. t \in SUBSET U /\ s \in SUBSET U
    BY DEF FiniteSubsetsOf
  <2>2. <<t, s>> \in R
    BY <1>3, <2>1 DEF StrictSubsetOrdering
  <2>3. QED
    BY <1>2, <2>2
<1>4. QED
  BY <1>3

-----------------------------------------------------------------------------
(* Total as a sum: it is defined by taking one element after the other, in *)
(* an order that must not matter.                                          *)

Chosen(s) == CHOOSE x \in s : TRUE
SumFn(S, g) ==
    g = [s \in SUBSET S |-> IF s = {} THEN 0 ELSE Chosen(s).amount + g[s \ {Chosen(s)}]]

LEMMA TotalIsSum ==
    ASSUME NEW S PROVE Total(S) = (CHOOSE g : SumFn(S, g))[S]
BY DEF Total, MapThenSumSet, MapThenFoldSet, SumFn, Chosen

LEMMA ChosenIn ==
    ASSUME NEW s, s # {} PROVE Chosen(s) \in s /\ s \ {Chosen(s)} # s
BY DEF Chosen

LEMMA SumValue ==
    ASSUME NEW S, NEW g, SumFn(S, g), NEW s \in SUBSET S
    PROVE  g[s] = IF s = {} THEN 0 ELSE Chosen(s).amount + g[s \ {Chosen(s)}]
BY DEF SumFn

LEMMA SumUnique ==
    ASSUME NEW S, NEW T, IsFiniteSet(S), NEW g, NEW h, SumFn(S, g), SumFn(T, h), NEW s \in SUBSET S,
           s \in SUBSET T
    PROVE  g[s] = h[s]
<1> DEFINE F == {t \in SUBSET s : g[t] # h[t]}
<1>1. F \in SUBSET FiniteSubsetsOf(S)
  <2>1. ASSUME NEW t \in F PROVE t \in SUBSET S /\ IsFiniteSet(t)
    BY FS_Subset
  <2>2. QED
    BY <2>1 DEF FiniteSubsetsOf
<1>2. ASSUME F # {} PROVE FALSE
  <2>1. PICK t \in F : \A u \in F : u \subseteq t => u = t
    <3> HIDE DEF F
    <3>1. QED
      BY <1>1, <1>2, LeastSet
  <2>2. t \in SUBSET S /\ t \in SUBSET T /\ g[t] # h[t] /\ t \in SUBSET s
    OBVIOUS
  <2>3. /\ g[t] = IF t = {} THEN 0 ELSE Chosen(t).amount + g[t \ {Chosen(t)}]
        /\ h[t] = IF t = {} THEN 0 ELSE Chosen(t).amount + h[t \ {Chosen(t)}]
    <3> HIDE DEF F
    <3>1. g[t] = IF t = {} THEN 0 ELSE Chosen(t).amount + g[t \ {Chosen(t)}]
      BY <2>2, SumValue
    <3>2. h[t] = IF t = {} THEN 0 ELSE Chosen(t).amount + h[t \ {Chosen(t)}]
      BY <2>2, SumValue
    <3>3. QED
      BY <3>1, <3>2
  <2>4. t # {}
    BY <2>2, <2>3
  <2>5. t \ {Chosen(t)} \notin F
    BY <2>1, <2>4, ChosenIn
  <2>6. g[t \ {Chosen(t)}] = h[t \ {Chosen(t)}]
    BY <2>2, <2>5
  <2>7. QED
    BY <2>2, <2>3, <2>4, <2>6
<1>3. QED
  BY <1>2

LEMMA SumExists ==
    ASSUME NEW S, IsFiniteSet(S)
    PROVE  \E g : SumFn(S, g)
<1> DEFINE F == {t \in SUBSET S : ~ \E g : SumFn(t, g)}
<1>1. F \in SUBSET FiniteSubsetsOf(S)
  <2>1. ASSUME NEW t \in F PROVE t \in SUBSET S /\ IsFiniteSet(t)
    BY FS_Subset
  <2>2. QED
    BY <2>1 DEF FiniteSubsetsOf
<1>2. ASSUME F # {} PROVE FALSE
  <2>1. PICK t \in F : \A u \in F : u \subseteq t => u = t
    <3> HIDE DEF F
    <3>1. QED
      BY <1>1, <1>2, LeastSet
  <2>2. IsFiniteSet(t) /\ t \in SUBSET S
    BY FS_Subset
  <2>3. ASSUME NEW u \in SUBSET t, u # t PROVE SumFn(u, CHOOSE g : SumFn(u, g)) /\ IsFiniteSet(u)
    <3>1. u \notin F
      BY <2>1, <2>3
    <3>2. u \in SUBSET S
      BY <2>2
    <3>2a. IsFiniteSet(u)
      BY <2>2, FS_Subset
    <3>3. QED
      BY <3>1, <3>2, <3>2a
  <2> DEFINE g == [s \in SUBSET t |-> IF s = {} THEN 0
                                      ELSE Chosen(s).amount + Total(s \ {Chosen(s)})]
  <2>4. ASSUME NEW s \in SUBSET t, s # t PROVE g[s] = Total(s)
    <3> DEFINE h == CHOOSE k : SumFn(s, k)
    <3>1. SumFn(s, h) /\ Total(s) = h[s]
      BY <2>3, <2>4, TotalIsSum
    <3> HIDE DEF h
    <3>2. h[s] = IF s = {} THEN 0 ELSE Chosen(s).amount + h[s \ {Chosen(s)}]
      <4>1. s \in SUBSET s
        OBVIOUS
      <4> HIDE DEF F, g
      <4>2. QED
        BY <3>1, <4>1, SumValue
    <3>3. CASE s # {}
      <4> DEFINE u == s \ {Chosen(s)}
      <4>1. u \in SUBSET t /\ u # t /\ u \in SUBSET s /\ u \in SUBSET u
        BY <3>3, ChosenIn
      <4> DEFINE k == CHOOSE j : SumFn(u, j)
      <4>2. SumFn(u, k) /\ Total(u) = k[u] /\ IsFiniteSet(u)
        BY <2>3, <4>1, TotalIsSum
      <4> HIDE DEF k, u
      <4>3. k[u] = h[u]
        BY <3>1, <4>1, <4>2, SumUnique
      <4>4. QED
        BY <3>1, <3>2, <3>3, <4>2, <4>3 DEF u
    <3>4. QED
      BY <3>1, <3>2, <3>3
  <2>5. ASSUME NEW s \in SUBSET t, s # {} PROVE g[s \ {Chosen(s)}] = Total(s \ {Chosen(s)})
    <3>1. s \ {Chosen(s)} \in SUBSET t /\ s \ {Chosen(s)} # t
      BY <2>5, ChosenIn
    <3> HIDE DEF g
    <3>2. QED
      BY <2>4, <3>1
  <2>6. SumFn(t, g)
    <3>1. \A s \in SUBSET t : g[s] = IF s = {} THEN 0 ELSE Chosen(s).amount + g[s \ {Chosen(s)}]
      BY <2>5
    <3>2. g = [s \in SUBSET t |-> g[s]]
      OBVIOUS
    <3> HIDE DEF g
    <3>3. QED
      BY <3>1, <3>2 DEF SumFn
  <2>7. QED
    BY <2>6
<1>3. S \in SUBSET S
  OBVIOUS
<1>4. QED
  BY <1>2, <1>3

LEMMA TotalStep ==
    ASSUME NEW S, IsFiniteSet(S)
    PROVE  Total(S) = IF S = {} THEN 0 ELSE Chosen(S).amount + Total(S \ {Chosen(S)})
<1> DEFINE g == CHOOSE k : SumFn(S, k)
           u == S \ {Chosen(S)}
           h == CHOOSE k : SumFn(u, k)
<1>1. IsFiniteSet(u) /\ u \in SUBSET S /\ u \in SUBSET u
  BY FS_Subset
<1>2. SumFn(S, g) /\ Total(S) = g[S]
  BY SumExists, TotalIsSum
<1>3. SumFn(u, h) /\ Total(u) = h[u]
  <2> HIDE DEF u
  <2>1. QED
    BY <1>1, SumExists, TotalIsSum
<1> HIDE DEF g, h, u
<1>4. g[u] = h[u]
  BY <1>1, <1>2, <1>3, SumUnique
<1>5. g[S] = IF S = {} THEN 0 ELSE Chosen(S).amount + g[u]
  BY <1>2, SumValue DEF u
<1>6. QED
  BY <1>2, <1>3, <1>4, <1>5 DEF u

LEMMA TotalTyped ==
    ASSUME NEW S, IsFiniteSet(S), \A x \in S : x.amount \in Int
    PROVE  Total(S) \in Int
<1> DEFINE F == {t \in SUBSET S : Total(t) \notin Int}
<1>1. F \in SUBSET FiniteSubsetsOf(S)
  <2>1. ASSUME NEW t \in F PROVE t \in SUBSET S /\ IsFiniteSet(t)
    BY FS_Subset
  <2>2. QED
    BY <2>1 DEF FiniteSubsetsOf
<1>2. ASSUME F # {} PROVE FALSE
  <2>1. PICK t \in F : \A u \in F : u \subseteq t => u = t
    <3> HIDE DEF F
    <3>1. QED
      BY <1>1, <1>2, LeastSet
  <2>2. IsFiniteSet(t) /\ t \in SUBSET S
    BY FS_Subset
  <2>3. t # {}
    <3>1. t = {} => Total(t) = 0
      BY <2>2, TotalStep
    <3>2. Total(t) \notin Int
      OBVIOUS
    <3>3. QED
      BY <3>1, <3>2
  <2>4. Chosen(t) \in S
    BY <2>2, <2>3, ChosenIn
  <2>5. Total(t \ {Chosen(t)}) \in Int
    BY <2>1, <2>2, <2>3, ChosenIn
  <2>6. QED
    BY <2>2, <2>3, <2>4, <2>5, TotalStep
<1>3. S \in SUBSET S
  OBVIOUS
<1>4. QED
  BY <1>2, <1>3

LEMMA TotalWithout ==
    ASSUME NEW S, IsFiniteSet(S), \A x \in S : x.amount \in Int, NEW z \in S
    PROVE  Total(S) = z.amount + Total(S \ {z})
<1> DEFINE F == {t \in SUBSET S : \E x \in t : Total(t) # x.amount + Total(t \ {x})}
<1>1. F \in SUBSET FiniteSubsetsOf(S)
  <2>1. ASSUME NEW t \in F PROVE t \in SUBSET S /\ IsFiniteSet(t)
    BY FS_Subset
  <2>2. QED
    BY <2>1 DEF FiniteSubsetsOf
<1>2. ASSUME F # {} PROVE FALSE
  <2>1. PICK t \in F : \A u \in F : u \subseteq t => u = t
    <3> HIDE DEF F
    <3>1. QED
      BY <1>1, <1>2, LeastSet
  <2>2. IsFiniteSet(t) /\ t \in SUBSET S
    BY FS_Subset
  <2>3. PICK x \in t : Total(t) # x.amount + Total(t \ {x})
    OBVIOUS
  <2> DEFINE c == Chosen(t)
  <2>4. c \in t /\ Total(t) = c.amount + Total(t \ {c})
    BY <2>2, ChosenIn, TotalStep
  <2> HIDE DEF c
  <2>5. x # c
    BY <2>3, <2>4
  <2>6. Total(t \ {c}) = x.amount + Total((t \ {c}) \ {x})
    <3>1. t \ {c} \in SUBSET S /\ t \ {c} \notin F /\ x \in t \ {c}
      BY <2>1, <2>2, <2>4, <2>5
    <3>2. QED
      BY <3>1
  <2>7. Total(t \ {x}) = c.amount + Total((t \ {x}) \ {c})
    <3>1. t \ {x} \in SUBSET S /\ t \ {x} \notin F /\ c \in t \ {x}
      BY <2>1, <2>2, <2>4, <2>5
    <3>2. QED
      BY <3>1
  <2>8. (t \ {x}) \ {c} = (t \ {c}) \ {x}
    OBVIOUS
  <2> DEFINE rest == Total((t \ {c}) \ {x})
  <2>9. rest \in Int
    <3>1. IsFiniteSet((t \ {c}) \ {x})
      BY <2>2, FS_Subset
    <3>2. QED
      BY <2>2, <3>1, TotalTyped
  <2>10. x.amount \in Int /\ c.amount \in Int
    BY <2>2, <2>4
  <2> HIDE DEF rest
  <2>11. Total(t) = c.amount + (x.amount + rest) /\ Total(t \ {x}) = c.amount + rest
    BY <2>4, <2>6, <2>7, <2>8 DEF rest
  <2>12. QED
    BY <2>3, <2>9, <2>10, <2>11
<1>3. S \in SUBSET S
  OBVIOUS
<1>4. QED
  BY <1>2, <1>3

-----------------------------------------------------------------------------
(* The steps, seen from the operations and the candidates.                 *)

OperationRow(type, e, o, match) ==
    [type |-> type, entry |-> e, order |-> o, match |-> match]

SupersedeOperation(p) == [type |-> "SUPERSEDE_CANDIDATE", entry |-> p[1], order |-> p[2],
                          match |-> SupersedeKey(p[1], p[2])]

(* The operations in keys are new, and so are the ones that supersede the  *)
(* candidates in stale; the others stay.                                   *)
OperationsGrow(keys, stale) ==
    /\ DOMAIN operations' = DOMAIN operations \cup keys
                              \cup {SupersedeKey(p[1], p[2]) : p \in stale}
    /\ \A k \in DOMAIN operations :
          k \notin keys /\ (\A p \in stale : k # SupersedeKey(p[1], p[2])) =>
             operations'[k] = operations[k]
    /\ \A p \in stale : operations'[SupersedeKey(p[1], p[2])] = SupersedeOperation(p)

(* The candidates in stale are superseded, the ones in selected are        *)
(* selected, and the new ones pair entry e with orders it could pay.       *)
CandidatesGrow(e, stale, selected) ==
    /\ stale \subseteq EligibleOf(e)
    /\ stale \cap selected = {}
    /\ DOMAIN candidates \cup selected \subseteq DOMAIN candidates'
    /\ \A p \in selected \cap DOMAIN candidates : candidates[p] = "ELIGIBLE"
    /\ \A p \in DOMAIN candidates' :
          candidates'[p] = IF p \in selected THEN "SELECTED"
                           ELSE IF p \in stale THEN "SUPERSEDED"
                           ELSE IF p \in DOMAIN candidates THEN candidates[p]
                           ELSE "ELIGIBLE"
    /\ \A p \in DOMAIN candidates' \ DOMAIN candidates :
          \E o \in CandidateFacts(entries[e].report) : p = <<e, o>>

LEMMA SupersedesFacts ==
    ASSUME NEW stale
    PROVE  /\ DOMAIN SupersedeOperations(stale) = {SupersedeKey(p[1], p[2]) : p \in stale}
           /\ \A p \in stale :
                 SupersedeOperations(stale)[SupersedeKey(p[1], p[2])] = SupersedeOperation(p)
<1>1. \A p : SupersedeKey(p[1], p[2])[2] = p[1] /\ SupersedeKey(p[1], p[2])[3] = p[2]
  BY DEF SupersedeKey
<1>2. QED
  BY <1>1 DEF SupersedeOperations, SupersedeOperation

LEMMA OverFacts ==
    ASSUME NEW f, NEW g
    PROVE  /\ DOMAIN Over(f, g) = DOMAIN f \cup DOMAIN g
           /\ \A x \in DOMAIN f : Over(f, g)[x] = f[x]
           /\ \A x \in DOMAIN g : x \notin DOMAIN f => Over(f, g)[x] = g[x]
BY DEF Over

LEMMA SupersededFacts ==
    ASSUME NEW stale
    PROVE  LET after == Over(SupersedeOperations(stale), operations)
           IN  /\ DOMAIN after = DOMAIN operations
                                   \cup {SupersedeKey(p[1], p[2]) : p \in stale}
               /\ \A k \in DOMAIN operations :
                     (\A p \in stale : k # SupersedeKey(p[1], p[2])) =>
                        after[k] = operations[k]
               /\ \A p \in stale :
                     after[SupersedeKey(p[1], p[2])] = SupersedeOperation(p)
<1> DEFINE f == SupersedeOperations(stale)
           K == {SupersedeKey(p[1], p[2]) : p \in stale}
           after == Over(f, operations)
<1>1. /\ DOMAIN f = K
      /\ \A p \in stale : f[SupersedeKey(p[1], p[2])] = SupersedeOperation(p)
  BY SupersedesFacts
<1>2. \A p \in stale : SupersedeKey(p[1], p[2]) \in K
  OBVIOUS
<1>3. \A k : (\A p \in stale : k # SupersedeKey(p[1], p[2])) => k \notin K
  OBVIOUS
<1>4. SUFFICES /\ DOMAIN after = DOMAIN operations \cup K
               /\ \A k \in DOMAIN operations :
                     (\A p \in stale : k # SupersedeKey(p[1], p[2])) =>
                        after[k] = operations[k]
               /\ \A p \in stale :
                     after[SupersedeKey(p[1], p[2])] = SupersedeOperation(p)
  OBVIOUS
<1> HIDE DEF f, K
<1>5. /\ DOMAIN after = DOMAIN f \cup DOMAIN operations
      /\ \A k \in DOMAIN f : after[k] = f[k]
      /\ \A k \in DOMAIN operations : k \notin DOMAIN f => after[k] = operations[k]
  BY OverFacts
<1> HIDE DEF after
<1>6. QED
  BY <1>1, <1>2, <1>3, <1>5

LEMMA OnlySupersedes ==
    ASSUME NEW stale, operations' = Over(SupersedeOperations(stale), operations)
    PROVE  OperationsGrow({}, stale)
BY SupersededFacts DEF OperationsGrow

LEMMA OneMoreOperation ==
    ASSUME NEW stale, NEW key, NEW type, NEW e, NEW o, NEW match,
           \A p \in stale : key # SupersedeKey(p[1], p[2]),
           operations' = Over(OneOperation(key, type, e, o, match),
                              Over(SupersedeOperations(stale), operations))
    PROVE  OperationsGrow({key}, stale)
<1> DEFINE before == Over(SupersedeOperations(stale), operations)
<1>1. /\ DOMAIN before = DOMAIN operations \cup {SupersedeKey(p[1], p[2]) : p \in stale}
      /\ \A k \in DOMAIN operations :
            (\A p \in stale : k # SupersedeKey(p[1], p[2])) => before[k] = operations[k]
      /\ \A p \in stale : before[SupersedeKey(p[1], p[2])] = SupersedeOperation(p)
  BY SupersededFacts
<1> HIDE DEF before
<1>2. /\ DOMAIN operations' = DOMAIN before \cup {key}
      /\ \A k \in DOMAIN before : k # key => operations'[k] = before[k]
  BY DEF Over, OneOperation, before
<1>3. QED
  BY <1>1, <1>2 DEF OperationsGrow

LEMMA NewestOperation ==
    ASSUME NEW key, NEW type, NEW e, NEW o, NEW match, NEW table
    PROVE  Over(OneOperation(key, type, e, o, match), table)[key] =
             OperationRow(type, e, o, match)
BY DEF Over, OneOperation, OperationRow

LEMMA CandidatesNowGrow ==
    ASSUME CInv, NEW e \in DOMAIN entries, candidates' = CandidatesNow(e)
    PROVE  CandidatesGrow(e, StaleCandidates(e), {})
<1>1. CandidateRows
  BY DEF CInv
<1>2. /\ DOMAIN candidates' = DOMAIN candidates \cup ({e} \X EligibleOrders(e))
      /\ \A p \in {e} \X EligibleOrders(e) : candidates'[p] = "ELIGIBLE"
      /\ \A p \in StaleCandidates(e) : candidates'[p] = "SUPERSEDED"
      /\ \A p \in DOMAIN candidates :
            p \notin {e} \X EligibleOrders(e) /\ p \notin StaleCandidates(e) =>
               candidates'[p] = candidates[p]
  BY <1>1, CandidatesNowFacts
<1>3. StaleCandidates(e) \subseteq EligibleOf(e)
  BY DEF StaleCandidates
<1>4. \A p \in StaleCandidates(e) : p \notin {e} \X EligibleOrders(e)
  BY DEF StaleCandidates
<1>5. \A p \in DOMAIN candidates :
         p \in {e} \X EligibleOrders(e) => candidates[p] = "ELIGIBLE"
  BY DEF EligibleOrders
<1>6. \A p \in {e} \X EligibleOrders(e) :
         \E o \in CandidateFacts(entries[e].report) : p = <<e, o>>
  BY DEF EligibleOrders
<1>7. \A p \in DOMAIN candidates' :
         candidates'[p] = IF p \in StaleCandidates(e) THEN "SUPERSEDED"
                          ELSE IF p \in DOMAIN candidates THEN candidates[p]
                          ELSE "ELIGIBLE"
  BY <1>2, <1>5
<1>8. QED
  BY <1>2, <1>3, <1>6, <1>7 DEF CandidatesGrow

-----------------------------------------------------------------------------
(* Orders and entries are only moved forward; nothing else happens.        *)
EntriesOnly ==
    /\ \A e \in DOMAIN entries : /\ e \in DOMAIN entries'
                                 /\ entries'[e].report = entries[e].report
                                 /\ entries'[e].state = entries[e].state
    /\ \A e \in DOMAIN entries' \ DOMAIN entries : entries'[e].state = "UNALLOCATED"

Quiet == /\ OrdersOnly /\ EntriesOnly
         /\ UNCHANGED <<candidates, operations, matches, matchEvents, journal, exceptions,
                        outbox>>

(* An entry is looked at and left to an administrator.                     *)
Leaving(e) ==
    /\ OperationsGrow({}, StaleCandidates(e))
    /\ CandidatesGrow(e, StaleCandidates(e), {})
    /\ entries[e].report.direction = "CREDIT"
    /\ entries[e].state \in PendingStates
    /\ DOMAIN entries' = DOMAIN entries /\ entries'[e].state \in PendingStates
    /\ entries'[e].report = entries[e].report
    /\ \A f \in DOMAIN entries : f # e => entries'[f] = entries[f]
    /\ UNCHANGED <<orders, events, matches, matchEvents, journal, outbox>>

(* The ways to settle an order with an entry.                              *)
Settling(key, e, o, evidence, basis, type, stale, selected) ==
    /\ Settles(key, e, o, evidence, basis)
    /\ key \notin DOMAIN operations
    /\ OperationsGrow({key}, stale)
    /\ operations'[key] = OperationRow(type, e, o, key)
    /\ CandidatesGrow(e, stale, selected)

AutoSettling(e, o) ==
    Settling(AutoKey(e, o), e, o, "AMOUNT_INFERRED", "INFERRED", "AUTO_SETTLEMENT",
             StaleCandidates(e), {<<e, o>>})

HandSettling(d, e, o) ==
    Settling(AdminKey(d), e, o, "MANUAL", "MANUAL", "MANUAL_SETTLEMENT", EligibleOf(e), {})

LEMMA LeavesIsLeaving ==
    ASSUME CInv, NEW e \in DOMAIN entries, Leaves(e) PROVE Leaving(e)
<1>1. /\ candidates' = CandidatesNow(e) /\ operations' = OperationsNow(e)
      /\ UNCHANGED <<orders, events, matches, matchEvents, journal, outbox>>
  BY DEF Leaves, LeaveUnmatched, LeaveAmbiguous, KeepOrders
<1>2. OperationsGrow({}, StaleCandidates(e))
  BY <1>1, OnlySupersedes DEF OperationsNow
<1>3. CandidatesGrow(e, StaleCandidates(e), {})
  BY <1>1, CandidatesNowGrow
<1>4. PICK state \in PendingStates : entries' = [entries EXCEPT ![e].state = state]
  BY DEF Leaves, LeaveUnmatched, LeaveAmbiguous, PendingStates
<1>5. /\ DOMAIN entries' = DOMAIN entries /\ entries'[e].state = state
      /\ entries'[e].report = entries[e].report
      /\ \A f \in DOMAIN entries : f # e => entries'[f] = entries[f]
  BY <1>4, NewStateFacts DEF CInv, SInv, PendingStates, EntryStates
<1>6. entries[e].state \in PendingStates
  BY DEF Leaves, Ignored, CInv, SInv, EntryRows, Entry, EntryStates, PendingStates
<1>7. entries[e].report.direction = "CREDIT"
  BY LedgerAssumption DEF Leaves, Ignored, CInv, SInv, RInv, EntriesTyped
<1>8. QED
  BY <1>1, <1>2, <1>3, <1>5, <1>6, <1>7 DEF Leaving

LEMMA AutoSettlesIsAutoSettling ==
    ASSUME CInv, NEW e \in DOMAIN entries, NEW o \in DOMAIN orders, AutoSettles(e, o)
    PROVE  AutoSettling(e, o)
<1>1. /\ EligibleOrders(e) = {o} /\ AutoKey(e, o) \notin DOMAIN operations
      /\ candidates' = [CandidatesNow(e) EXCEPT ![<<e, o>>] = "SELECTED"]
      /\ operations' = Over(OneOperation(AutoKey(e, o), "AUTO_SETTLEMENT", e, o, AutoKey(e, o)),
                            Over(SupersedeOperations(StaleCandidates(e)), operations))
  BY DEF AutoSettles, AutoSettle, OperationsNow
<1>2. Settles(AutoKey(e, o), e, o, "AMOUNT_INFERRED", "INFERRED")
  BY AutoSettlesSettles DEF CInv
<1>3. /\ OperationsGrow({AutoKey(e, o)}, StaleCandidates(e))
      /\ operations'[AutoKey(e, o)] = OperationRow("AUTO_SETTLEMENT", e, o, AutoKey(e, o))
  <2>1. \A p \in StaleCandidates(e) : AutoKey(e, o) # SupersedeKey(p[1], p[2])
    BY KeysDiffer
  <2>2. operations' = Over(OneOperation(AutoKey(e, o), "AUTO_SETTLEMENT", e, o, AutoKey(e, o)),
                           Over(SupersedeOperations(StaleCandidates(e)), operations))
    BY <1>1
  <2>3. OperationsGrow({AutoKey(e, o)}, StaleCandidates(e))
    BY <2>1, <2>2, OneMoreOperation
  <2>4. operations'[AutoKey(e, o)] = OperationRow("AUTO_SETTLEMENT", e, o, AutoKey(e, o))
    BY <2>2, NewestOperation
  <2>5. QED
    BY <2>3, <2>4
<1>4. CandidatesGrow(e, StaleCandidates(e), {<<e, o>>})
  <2> DEFINE p == <<e, o>>
  <2>1. /\ DOMAIN CandidatesNow(e) = DOMAIN candidates \cup ({e} \X EligibleOrders(e))
        /\ \A q \in {e} \X EligibleOrders(e) : CandidatesNow(e)[q] = "ELIGIBLE"
        /\ \A q \in StaleCandidates(e) : CandidatesNow(e)[q] = "SUPERSEDED"
        /\ \A q \in DOMAIN candidates :
              q \notin {e} \X EligibleOrders(e) /\ q \notin StaleCandidates(e) =>
                 CandidatesNow(e)[q] = candidates[q]
    BY CandidatesNowFacts DEF CInv
  <2>2. {e} \X EligibleOrders(e) = {p}
    BY <1>1
  <2>3. StaleCandidates(e) \subseteq EligibleOf(e) /\ p \notin StaleCandidates(e)
    BY <1>1 DEF StaleCandidates
  <2>4. p \in DOMAIN candidates => candidates[p] = "ELIGIBLE"
    BY <1>1 DEF EligibleOrders
  <2>5. o \in CandidateFacts(entries[e].report)
    BY <1>1 DEF EligibleOrders
  <2>6. /\ DOMAIN candidates' = DOMAIN candidates \cup {p}
        /\ candidates'[p] = "SELECTED"
        /\ \A q \in DOMAIN candidates : q # p => candidates'[q] = CandidatesNow(e)[q]
    BY <1>1, <2>1, <2>2
  <2> HIDE DEF p
  <2>7. \A q \in DOMAIN candidates' :
           candidates'[q] = IF q \in {p} THEN "SELECTED"
                            ELSE IF q \in StaleCandidates(e) THEN "SUPERSEDED"
                            ELSE IF q \in DOMAIN candidates THEN candidates[q]
                            ELSE "ELIGIBLE"
    BY <2>1, <2>2, <2>6
  <2>8. \A q \in DOMAIN candidates' \ DOMAIN candidates :
           \E x \in CandidateFacts(entries[e].report) : q = <<e, x>>
    BY <2>5, <2>6 DEF p
  <2>9. CandidatesGrow(e, StaleCandidates(e), {p})
    BY <2>3, <2>4, <2>6, <2>7, <2>8 DEF CandidatesGrow
  <2>10. QED
    BY <2>9 DEF p
<1>5. QED
  BY <1>1, <1>2, <1>3, <1>4 DEF AutoSettling, Settling

LEMMA ManuallySettlesIsHandSettling ==
    ASSUME NEW d \in Decisions, NEW e \in DOMAIN entries, NEW o \in DOMAIN orders,
           ManuallySettles(d, e, o)
    PROVE  HandSettling(d, e, o)
<1>1. /\ AdminKey(d) \notin DOMAIN operations
      /\ operations' = Over(OneOperation(AdminKey(d), "MANUAL_SETTLEMENT", e, o, AdminKey(d)),
                            Over(SupersedeOperations(EligibleOf(e)), operations))
  BY DEF ManuallySettles
<1>2. Settles(AdminKey(d), e, o, "MANUAL", "MANUAL")
  BY ManuallySettlesSettles
<1>3. /\ OperationsGrow({AdminKey(d)}, EligibleOf(e))
      /\ operations'[AdminKey(d)] = OperationRow("MANUAL_SETTLEMENT", e, o, AdminKey(d))
  <2>1. \A p \in EligibleOf(e) : AdminKey(d) # SupersedeKey(p[1], p[2])
    BY KeysDiffer
  <2>2. operations' = Over(OneOperation(AdminKey(d), "MANUAL_SETTLEMENT", e, o, AdminKey(d)),
                           Over(SupersedeOperations(EligibleOf(e)), operations))
    BY <1>1
  <2>3. OperationsGrow({AdminKey(d)}, EligibleOf(e))
    BY <2>1, <2>2, OneMoreOperation
  <2>4. operations'[AdminKey(d)] = OperationRow("MANUAL_SETTLEMENT", e, o, AdminKey(d))
    BY <2>2, NewestOperation
  <2>5. QED
    BY <2>3, <2>4
<1>4. /\ DOMAIN candidates' = DOMAIN candidates
      /\ \A p \in DOMAIN candidates :
            candidates'[p] = IF p \in EligibleOf(e) THEN "SUPERSEDED" ELSE candidates[p]
  BY CandidatesSupersededFacts DEF ManuallySettles
<1>5. CandidatesGrow(e, EligibleOf(e), {})
  BY <1>4 DEF CandidatesGrow
<1>6. QED
  BY <1>1, <1>2, <1>3, <1>5 DEF HandSettling, Settling

LEMMA ReversesGrows ==
    ASSUME NEW d \in Decisions, NEW m \in matches, Reverses(d, m)
    PROVE  /\ DOMAIN operations' = DOMAIN operations \cup {AdminKey(d)}
           /\ AdminKey(d) \notin DOMAIN operations
           /\ \A k \in DOMAIN operations : operations'[k] = operations[k]
           /\ operations'[AdminKey(d)] = OperationRow("REVERSE_SETTLEMENT", m.entry, m.order,
                                                       m.operation)
BY DEF Reverses, Over, OneOperation, OperationRow

LEMMA StepKinds ==
    ASSUME SInv, [RNext]_rvars
    PROVE  \/ Quiet
           \/ \E e \in DOMAIN entries : Leaves(e)
           \/ \E e \in DOMAIN entries, o \in DOMAIN orders : AutoSettles(e, o)
           \/ \E d \in Decisions, e \in DOMAIN entries, o \in DOMAIN orders :
                 ManuallySettles(d, e, o)
           \/ \E d \in Decisions, m \in matches : Reverses(d, m)
<1>1. CASE MoneyStays
  BY <1>1 DEF MoneyStays, money, Quiet, EntriesOnly
<1>2. ASSUME NEW e \in Entries \ DOMAIN entries, NEW s \in Statements, RecordEntry(e, s)
      PROVE  Quiet
  <2>1. /\ DOMAIN entries' = DOMAIN entries \cup {e}
        /\ entries'[e].state = "UNALLOCATED"
        /\ \A f \in DOMAIN entries : entries'[f] = entries[f]
    BY <1>2, RecordFacts DEF SInv
  <2>2. EntriesOnly
    BY <2>1 DEF EntriesOnly
  <2>3. OrdersOnly
    BY <1>2, OrdersSame DEF RecordEntry, vars
  <2>4. QED
    BY <1>2, <2>2, <2>3 DEF Quiet, RecordEntry
<1>3. ASSUME NEW e \in DOMAIN entries, FindConflict(e) \/ ResolveConflict(e)
      PROVE  Quiet
  <2>1. PICK c \in {"NONE", "OPEN", "RESOLVED"} : entries' = [entries EXCEPT ![e].conflict = c]
    BY <1>3 DEF FindConflict, ResolveConflict
  <2>2. /\ DOMAIN entries' = DOMAIN entries
        /\ \A f \in DOMAIN entries : /\ entries'[f].state = entries[f].state
                                     /\ entries'[f].report = entries[f].report
    BY <2>1, NewConflictFacts DEF SInv
  <2>3. EntriesOnly
    BY <2>2 DEF EntriesOnly
  <2>4. orders' = orders
    BY <1>3 DEF FindConflict, ResolveConflict, vars
  <2>5. QED
    BY <1>3, <2>3, <2>4, OrdersSame DEF Quiet, FindConflict, ResolveConflict
<1>4. QED
  BY <1>1, <1>2, <1>3, MoneyKinds DEF SInv

LEMMA BookKinds ==
    ASSUME CInv, [RNext]_rvars
    PROVE  \/ Quiet
           \/ \E e \in DOMAIN entries : Leaving(e)
           \/ \E e \in DOMAIN entries, o \in DOMAIN orders : AutoSettling(e, o)
           \/ \E d \in Decisions, e \in DOMAIN entries, o \in DOMAIN orders :
                 HandSettling(d, e, o)
           \/ \E d \in Decisions, m \in matches : Reverses(d, m)
BY StepKinds, LeavesIsLeaving, AutoSettlesIsAutoSettling, ManuallySettlesIsHandSettling DEF CInv

-----------------------------------------------------------------------------
(* The operations name the candidates they decided.                        *)

OperationTypes == {"AUTO_SETTLEMENT", "MANUAL_SETTLEMENT", "REVERSE_SETTLEMENT",
                   "SUPERSEDE_CANDIDATE"}

OperationRows ==
    \A k \in DOMAIN operations :
        /\ k \in Keys
        /\ operations[k].type \in OperationTypes
        /\ operations[k].entry \in DOMAIN entries /\ operations[k].order \in DOMAIN orders
        /\ operations[k].type = "AUTO_SETTLEMENT" =>
              k = AutoKey(operations[k].entry, operations[k].order)
        /\ operations[k].type = "SUPERSEDE_CANDIDATE" =>
              k = SupersedeKey(operations[k].entry, operations[k].order)

HasStatus(p, status) == p \in DOMAIN candidates /\ candidates[p] = status

OperationsDecide ==
    \A e \in Entries, o \in Orders :
        /\ AutoKey(e, o) \in DOMAIN operations <=> HasStatus(<<e, o>>, "SELECTED")
        /\ SupersedeKey(e, o) \in DOMAIN operations <=> HasStatus(<<e, o>>, "SUPERSEDED")
        /\ AutoKey(e, o) \in DOMAIN operations =>
              operations[AutoKey(e, o)] =
                 OperationRow("AUTO_SETTLEMENT", e, o, AutoKey(e, o))
        /\ SupersedeKey(e, o) \in DOMAIN operations =>
              operations[SupersedeKey(e, o)] = SupersedeOperation(<<e, o>>)

CandidatesInWindow ==
    \A p \in DOMAIN candidates : CandidateInWindow(entries[p[1]].report, orders[p[2]])

OInv == CInv /\ OperationRows /\ OperationsDecide /\ CandidatesInWindow

OperationsKept ==
    \A k \in DOMAIN operations : k \in DOMAIN operations' /\ operations'[k] = operations[k]

(* Columns of orders and entries that no step changes.                     *)
FixedColumns ==
    /\ \A e \in DOMAIN entries : e \in DOMAIN entries' /\ entries'[e].report = entries[e].report
    /\ \A o \in DOMAIN orders : /\ o \in DOMAIN orders'
                                /\ orders'[o].account = orders[o].account
                                /\ orders'[o].payable = orders[o].payable
                                /\ orders'[o].created = orders[o].created
                                /\ orders'[o].expires = orders[o].expires

(* A candidate is superseded once, so its operation is new.                *)
LEMMA SupersedesAreNew ==
    ASSUME OInv, NEW e, NEW stale, NEW selected, NEW keys, CandidatesGrow(e, stale, selected),
           OperationsGrow(keys, stale), keys \cap DOMAIN operations = {}
    PROVE  /\ \A p \in stale : SupersedeKey(p[1], p[2]) \notin DOMAIN operations
           /\ OperationsKept
<1>1. ASSUME NEW p \in stale PROVE SupersedeKey(p[1], p[2]) \notin DOMAIN operations
  <2>1. p \in DOMAIN candidates /\ candidates[p] = "ELIGIBLE"
    BY DEF CandidatesGrow, EligibleOf
  <2>2. p \in (DOMAIN entries) \X (DOMAIN orders)
    BY <2>1 DEF OInv, CInv, CandidateRows
  <2>3. p[1] \in Entries /\ p[2] \in Orders /\ p = <<p[1], p[2]>>
    BY <2>2 DEF OInv, CInv, SInv, EntryRows, RInv, IInv, RowsTyped
  <2>4. ~HasStatus(<<p[1], p[2]>>, "SUPERSEDED")
    BY <2>1, <2>3 DEF HasStatus
  <2>5. QED
    BY <2>3, <2>4 DEF OInv, OperationsDecide
<1>2. OperationsKept
  BY <1>1 DEF OperationsGrow, OperationsKept
<1>3. QED
  BY <1>1, <1>2

LEMMA GrowthDecides ==
    ASSUME OInv, NEW e, NEW stale, NEW selected, NEW keys,
           CandidatesGrow(e, stale, selected), OperationsGrow(keys, stale),
           keys \cap DOMAIN operations = {},
           \A f \in Entries, o \in Orders : /\ SupersedeKey(f, o) \notin keys
                                            /\ AutoKey(f, o) \in keys <=> <<f, o>> \in selected
                                            /\ AutoKey(f, o) \in keys =>
                                                  operations'[AutoKey(f, o)] =
                                                     OperationRow("AUTO_SETTLEMENT", f, o,
                                                                  AutoKey(f, o))
    PROVE  OperationsDecide'
<1> SUFFICES ASSUME NEW f \in Entries, NEW o \in Orders
             PROVE  /\ AutoKey(f, o) \in DOMAIN operations' <=> HasStatus(<<f, o>>, "SELECTED")'
                    /\ SupersedeKey(f, o) \in DOMAIN operations' <=>
                          HasStatus(<<f, o>>, "SUPERSEDED")'
                    /\ AutoKey(f, o) \in DOMAIN operations' =>
                          operations'[AutoKey(f, o)] =
                             OperationRow("AUTO_SETTLEMENT", f, o, AutoKey(f, o))
                    /\ SupersedeKey(f, o) \in DOMAIN operations' =>
                          operations'[SupersedeKey(f, o)] = SupersedeOperation(<<f, o>>)
  BY DEF OperationsDecide
<1> DEFINE p == <<f, o>>
<1>1. p[1] = f /\ p[2] = o
  OBVIOUS
<1>2. ASSUME NEW q \in stale
      PROVE  q = <<q[1], q[2]>> /\ q \in DOMAIN candidates /\ candidates[q] = "ELIGIBLE"
  <2>1. q \in DOMAIN candidates /\ candidates[q] = "ELIGIBLE"
    BY DEF CandidatesGrow, EligibleOf
  <2>2. q \in (DOMAIN entries) \X (DOMAIN orders)
    BY <2>1 DEF OInv, CInv, CandidateRows
  <2>3. QED
    BY <2>1, <2>2
<1>3. \A q \in stale : SupersedeKey(f, o) = SupersedeKey(q[1], q[2]) => q = p
  BY <1>2, KeysDiffer
<1>4. p \in stale => SupersedeKey(f, o) = SupersedeKey(p[1], p[2])
  BY <1>1
<1>5. /\ AutoKey(f, o) \in DOMAIN operations' <=>
            AutoKey(f, o) \in DOMAIN operations \/ p \in selected
      /\ SupersedeKey(f, o) \in DOMAIN operations' <=>
            SupersedeKey(f, o) \in DOMAIN operations \/ p \in stale
  <2>1. \A q \in stale : AutoKey(f, o) # SupersedeKey(q[1], q[2])
    BY KeysDiffer
  <2>2. QED
    BY <1>3, <1>4, <2>1 DEF OperationsGrow
<1>6. /\ HasStatus(p, "SELECTED")' <=> HasStatus(p, "SELECTED") \/ p \in selected
      /\ HasStatus(p, "SUPERSEDED")' <=> HasStatus(p, "SUPERSEDED") \/ p \in stale
  <2>1. p \in selected => p \in DOMAIN candidates' /\ candidates'[p] = "SELECTED"
    BY DEF CandidatesGrow
  <2>2. p \in stale => p \in DOMAIN candidates' /\ candidates'[p] = "SUPERSEDED"
    BY <1>2 DEF CandidatesGrow
  <2>3. p \notin selected /\ p \notin stale =>
           /\ HasStatus(p, "SELECTED")' <=> HasStatus(p, "SELECTED")
           /\ HasStatus(p, "SUPERSEDED")' <=> HasStatus(p, "SUPERSEDED")
    BY DEF CandidatesGrow, HasStatus
  <2>4. p \in selected => ~HasStatus(p, "SUPERSEDED")
    BY DEF CandidatesGrow, HasStatus
  <2>5. p \in stale => p \notin selected /\ ~HasStatus(p, "SELECTED")
    BY <1>2 DEF CandidatesGrow, HasStatus
  <2>6. QED
    BY <2>1, <2>2, <2>3, <2>4, <2>5 DEF HasStatus
<1>7. OperationsKept
  BY SupersedesAreNew
<1>8. AutoKey(f, o) \in DOMAIN operations' =>
         operations'[AutoKey(f, o)] = OperationRow("AUTO_SETTLEMENT", f, o, AutoKey(f, o))
  <2>1. CASE AutoKey(f, o) \in DOMAIN operations
    BY <1>7, <2>1 DEF OperationsKept, OInv, OperationsDecide
  <2>2. CASE AutoKey(f, o) \notin DOMAIN operations
    BY <1>5, <2>2
  <2>3. QED
    BY <2>1, <2>2
<1>9. SupersedeKey(f, o) \in DOMAIN operations' =>
         operations'[SupersedeKey(f, o)] = SupersedeOperation(<<f, o>>)
  <2>1. CASE SupersedeKey(f, o) \in DOMAIN operations
    BY <1>7, <2>1 DEF OperationsKept, OInv, OperationsDecide
  <2>2. CASE SupersedeKey(f, o) \notin DOMAIN operations
    BY <1>1, <1>5, <2>2 DEF OperationsGrow
  <2>3. QED
    BY <2>1, <2>2
<1>10. QED
  BY <1>5, <1>6, <1>8, <1>9 DEF OInv, OperationsDecide

LEMMA GrowthInWindow ==
    ASSUME OInv, NEW e \in DOMAIN entries, NEW stale, NEW selected, FixedColumns,
           CandidatesGrow(e, stale, selected), entries[e].report.direction = "CREDIT"
    PROVE  CandidatesInWindow'
<1> SUFFICES ASSUME NEW p \in DOMAIN candidates'
             PROVE  CandidateInWindow(entries'[p[1]].report, orders'[p[2]])
  BY DEF CandidatesInWindow
<1>1. CASE p \in DOMAIN candidates
  <2>1. CandidateInWindow(entries[p[1]].report, orders[p[2]])
    BY <1>1 DEF OInv, CandidatesInWindow
  <2>2. p[1] \in DOMAIN entries /\ p[2] \in DOMAIN orders
    BY <1>1 DEF OInv, CInv, CandidateRows
  <2>3. QED
    BY <2>1, <2>2 DEF FixedColumns, CandidateInWindow
<1>2. CASE p \notin DOMAIN candidates
  <2>1. PICK o \in CandidateFacts(entries[e].report) : p = <<e, o>>
    BY <1>2 DEF CandidatesGrow
  <2>2. o \in SameAmountInWindow(entries[e].report) /\ p[1] = e /\ p[2] = o
    BY <2>1 DEF CandidateFacts
  <2>3. o \in DOMAIN orders /\ CandidateInWindow(entries[e].report, orders[o])
    BY <2>2 DEF SameAmountInWindow, InWindow, CandidateInWindow
  <2>4. QED
    BY <2>2, <2>3 DEF FixedColumns, CandidateInWindow
<1>3. QED
  BY <1>1, <1>2

LEMMA GrowthRows ==
    ASSUME OInv, NEW e, NEW stale, NEW selected, NEW keys, FixedColumns,
           CandidatesGrow(e, stale, selected), OperationsGrow(keys, stale),
           keys \cap DOMAIN operations = {},
           \A k \in keys :
              /\ k \in Keys
              /\ operations'[k].type \in OperationTypes \ {"SUPERSEDE_CANDIDATE"}
              /\ operations'[k].entry \in DOMAIN entries
              /\ operations'[k].order \in DOMAIN orders
              /\ operations'[k].type = "AUTO_SETTLEMENT" =>
                    k = AutoKey(operations'[k].entry, operations'[k].order)
    PROVE  OperationRows'
<1>1. OperationsKept
  BY SupersedesAreNew
<1> SUFFICES ASSUME NEW k \in DOMAIN operations'
             PROVE  /\ k \in Keys
                    /\ operations'[k].type \in OperationTypes
                    /\ operations'[k].entry \in DOMAIN entries'
                    /\ operations'[k].order \in DOMAIN orders'
                    /\ operations'[k].type = "AUTO_SETTLEMENT" =>
                          k = AutoKey(operations'[k].entry, operations'[k].order)
                    /\ operations'[k].type = "SUPERSEDE_CANDIDATE" =>
                          k = SupersedeKey(operations'[k].entry, operations'[k].order)
  BY DEF OperationRows
<1>2. DOMAIN entries \subseteq DOMAIN entries' /\ DOMAIN orders \subseteq DOMAIN orders'
  BY DEF FixedColumns
<1>3. CASE k \in DOMAIN operations
  BY <1>1, <1>2, <1>3 DEF OperationsKept, OInv, OperationRows
<1>4. CASE k \in keys
  BY <1>2, <1>4
<1>5. CASE k \notin DOMAIN operations /\ k \notin keys
  <2>1. PICK p \in stale : k = SupersedeKey(p[1], p[2])
    BY <1>5 DEF OperationsGrow
  <2>2. operations'[k] = SupersedeOperation(p)
    BY <2>1 DEF OperationsGrow
  <2>3. /\ operations'[k].type = "SUPERSEDE_CANDIDATE"
        /\ operations'[k].entry = p[1] /\ operations'[k].order = p[2]
    BY <2>2 DEF SupersedeOperation
  <2>4. p \in DOMAIN candidates
    BY <2>1 DEF CandidatesGrow, EligibleOf
  <2>5. p[1] \in DOMAIN entries /\ p[2] \in DOMAIN orders
    BY <2>4 DEF OInv, CInv, CandidateRows
  <2>6. k \in Keys
    BY <2>1, <2>5 DEF Keys, OInv, CInv, SInv, EntryRows, RInv, IInv, RowsTyped
  <2>7. QED
    BY <1>2, <2>1, <2>3, <2>5, <2>6 DEF OperationTypes
<1>6. QED
  BY <1>3, <1>4, <1>5

-----------------------------------------------------------------------------
(* What a settlement and a reversal write, table by table.                 *)

NewMatch(key, e, o, evidence) ==
    [entry |-> e, order |-> o, evidence |-> evidence, status |-> "SETTLED",
     operation |-> key, resolution |-> key]

ReversedMatch(m, key) == [m EXCEPT !.status = "REVERSED", !.resolution = key]

NewPosting(key, type, e, o, amount) ==
    [operation |-> key, type |-> type, entry |-> e, order |-> o, amount |-> amount]

NewOutboxEvent(key, o, version, type) ==
    [operation |-> key, order |-> o, version |-> version, type |-> type]

LEMMA SettlesFacts ==
    ASSUME SInv, NEW e \in DOMAIN entries, NEW o \in DOMAIN orders, NEW key,
           NEW evidence, NEW basis, Settles(key, e, o, evidence, basis)
    PROVE  /\ FixedColumns /\ DOMAIN entries' = DOMAIN entries /\ DOMAIN orders' = DOMAIN orders
           /\ entries'[e].state = "ALLOCATED"
           /\ \A f \in DOMAIN entries : f # e => entries'[f] = entries[f]
           /\ orders'[o].payment = "CONFIRMED" /\ orders'[o].basis = basis
           /\ orders'[o].received = entries[e].report.amount
           /\ \A p \in DOMAIN orders : p # o => orders'[p] = orders[p]
           /\ orders[o].payment = "UNPAID" /\ entries[e].state # "ALLOCATED"
           /\ entries[e].report.direction = "CREDIT" /\ entries[e].report.amount \in Nat
           /\ key \in Keys
<1>1. /\ entries' = [entries EXCEPT ![e].state = "ALLOCATED"]
      /\ RecordPayment(key, o, "CONFIRMED", basis, entries[e].report.amount,
                       "PAYMENT_CONFIRMED", LogicalNow)
      /\ orders[o].payment = "UNPAID" /\ entries[e].state # "ALLOCATED"
      /\ entries[e].report.direction = "CREDIT" /\ key \in Keys
  BY DEF Settles, WriteSettlement
<1>2. /\ DOMAIN entries' = DOMAIN entries /\ entries'[e].state = "ALLOCATED"
      /\ entries'[e].report = entries[e].report
      /\ \A f \in DOMAIN entries : f # e => entries'[f] = entries[f]
  BY <1>1, NewStateFacts DEF SInv, EntryStates
<1>3. RecordPayment(key, o, "CONFIRMED", basis, entries[e].report.amount,
                    "PAYMENT_CONFIRMED", LogicalNow)
  BY <1>1
<1>4. /\ DOMAIN orders' = DOMAIN orders
      /\ orders'[o].payment = "CONFIRMED" /\ orders'[o].basis = basis
      /\ orders'[o].received = entries[e].report.amount
      /\ \A p \in DOMAIN orders :
            /\ p # o => orders'[p] = orders[p]
            /\ orders'[p].payable = orders[p].payable
            /\ orders'[p].account = orders[p].account
            /\ orders'[p].created = orders[p].created
            /\ orders'[p].expires = orders[p].expires
  BY <1>3, PaymentFacts DEF SInv, RInv, IInv
<1>5. entries[e].report.amount \in Nat
  BY LedgerAssumption DEF SInv, RInv, EntriesTyped
<1>6. \A f \in DOMAIN entries : entries'[f].report = entries[f].report
  BY <1>2
<1>7. FixedColumns
  BY <1>2, <1>4, <1>6 DEF FixedColumns
<1>8. entries[e].state # "ALLOCATED"
  BY <1>1
<1>9. QED
  BY <1>1, <1>2, <1>4, <1>5, <1>7, <1>8

LEMMA SettlesWrites ==
    ASSUME NEW e, NEW o, NEW key, NEW evidence, NEW basis, Settles(key, e, o, evidence, basis)
    PROVE  /\ matches' = matches \cup {NewMatch(key, e, o, evidence)}
           /\ journal' = journal \cup {NewPosting(key, "SETTLEMENT", e, o,
                                                  entries[e].report.amount)}
           /\ outbox' = outbox \cup {NewOutboxEvent(key, o, orders[o].version + 1,
                                                    "PAYMENT_CONFIRMED")}
BY DEF Settles, WriteSettlement, RecordPayment, NewMatch, NewPosting, NewOutboxEvent

LEMMA ReversesFacts ==
    ASSUME SInv, NEW d \in Decisions, NEW m \in matches, Reverses(d, m)
    PROVE  /\ m.entry \in DOMAIN entries /\ m.order \in DOMAIN orders
           /\ m.entry \in Entries /\ m.order \in Orders
           /\ FixedColumns /\ DOMAIN entries' = DOMAIN entries /\ DOMAIN orders' = DOMAIN orders
           /\ entries'[m.entry].state = "CONFLICT"
           /\ \A f \in DOMAIN entries : f # m.entry => entries'[f] = entries[f]
           /\ orders'[m.order].payment = "DISPUTED"
           /\ \A p \in DOMAIN orders : p # m.order => orders'[p] = orders[p]
           /\ m.status = "SETTLED" /\ entries[m.entry].state = "ALLOCATED"
           /\ orders[m.order].payment = "CONFIRMED"
           /\ candidates' = candidates
<1> DEFINE e == m.entry
           o == m.order
<1>1. /\ entries' = [entries EXCEPT ![e].state = "CONFLICT"]
      /\ candidates' = candidates
      /\ m.status = "SETTLED" /\ entries[e].state = "ALLOCATED"
      /\ orders[o].payment = "CONFIRMED"
  BY DEF Reverses
<1>2. RecordPayment(AdminKey(d), o, "DISPUTED", orders[o].basis, orders[o].received,
                    "PAYMENT_DISPUTED", LogicalNow)
  BY DEF Reverses
<1>3. e \in DOMAIN entries /\ o \in DOMAIN orders /\ e \in Entries /\ o \in Orders
  BY DEF SInv, MatchRows, Match
<1> HIDE DEF e, o
<1>4. /\ DOMAIN entries' = DOMAIN entries /\ entries'[e].state = "CONFLICT"
      /\ entries'[e].report = entries[e].report
      /\ \A f \in DOMAIN entries : f # e => entries'[f] = entries[f]
  BY <1>1, <1>3, NewStateFacts DEF SInv, EntryStates
<1>5. /\ DOMAIN orders' = DOMAIN orders
      /\ orders'[o].payment = "DISPUTED"
      /\ \A p \in DOMAIN orders :
            /\ p # o => orders'[p] = orders[p]
            /\ orders'[p].payable = orders[p].payable
            /\ orders'[p].account = orders[p].account
            /\ orders'[p].created = orders[p].created
            /\ orders'[p].expires = orders[p].expires
  BY <1>2, <1>3, PaymentFacts DEF SInv, RInv, IInv
<1>6. \A f \in DOMAIN entries : entries'[f].report = entries[f].report
  BY <1>4
<1>7. FixedColumns
  BY <1>4, <1>5, <1>6 DEF FixedColumns
<1>8. /\ candidates' = candidates /\ m.status = "SETTLED"
      /\ entries[e].state = "ALLOCATED" /\ orders[o].payment = "CONFIRMED"
  BY <1>1
<1>9. QED
  BY <1>3, <1>4, <1>5, <1>7, <1>8 DEF e, o

LEMMA ReversesWrites ==
    ASSUME NEW d, NEW m, Reverses(d, m)
    PROVE  /\ matches' = (matches \ {m}) \cup {ReversedMatch(m, AdminKey(d))}
           /\ journal' = journal \cup {NewPosting(AdminKey(d), "REVERSAL", m.entry, m.order,
                                                  orders[m.order].received)}
           /\ outbox' = outbox \cup {NewOutboxEvent(AdminKey(d), m.order,
                                                    orders[m.order].version + 1,
                                                    "PAYMENT_DISPUTED")}
BY DEF Reverses, RecordPayment, ReversedMatch, NewPosting, NewOutboxEvent, ReversedAmount

LEMMA QuietFixes ==
    ASSUME Quiet PROVE FixedColumns
BY DEF Quiet, OrdersOnly, SameMoney, EntriesOnly, FixedColumns

LEMMA LeavingFixes ==
    ASSUME NEW e \in DOMAIN entries, Leaving(e) PROVE FixedColumns
BY DEF Leaving, FixedColumns

LEMMA AdminKeyIsOther ==
    ASSUME NEW d \in Decisions
    PROVE  /\ AdminKey(d) \in Keys
           /\ \A f, o : AutoKey(f, o) \notin {AdminKey(d)} /\ SupersedeKey(f, o) \notin {AdminKey(d)}
BY KeysDiffer DEF Keys

LEMMA InitOInv == RInit => OInv
<1>1. SUFFICES ASSUME RInit PROVE OperationRows /\ OperationsDecide /\ CandidatesInWindow
  BY InitCInv DEF OInv
<1>2. DOMAIN operations = {} /\ DOMAIN candidates = {}
  BY <1>1 DEF RInit
<1>3. QED
  BY <1>2 DEF OperationRows, OperationsDecide, CandidatesInWindow, HasStatus

LEMMA QuietKeepsOperations ==
    ASSUME OInv, Quiet PROVE (OperationRows /\ OperationsDecide /\ CandidatesInWindow)'
<1>1. FixedColumns /\ UNCHANGED <<operations, candidates>>
  BY QuietFixes DEF Quiet
<1>2. OperationRows'
  BY <1>1 DEF FixedColumns, OInv, OperationRows
<1>3. OperationsDecide'
  BY <1>1 DEF OInv, OperationsDecide, HasStatus
<1>4. CandidatesInWindow'
  BY <1>1 DEF FixedColumns, OInv, CInv, CandidateRows, CandidatesInWindow, CandidateInWindow
<1>5. QED
  BY <1>2, <1>3, <1>4

LEMMA StepOInv == OInv /\ [RNext]_rvars => OInv'
<1>1. SUFFICES ASSUME OInv, [RNext]_rvars
               PROVE  (OperationRows /\ OperationsDecide /\ CandidatesInWindow)'
  BY StepCInv DEF OInv
<1>2. ASSUME NEW e \in DOMAIN entries, Leaving(e)
      PROVE  (OperationRows /\ OperationsDecide /\ CandidatesInWindow)'
  <2>1. /\ OperationsGrow({}, StaleCandidates(e)) /\ CandidatesGrow(e, StaleCandidates(e), {})
        /\ entries[e].report.direction = "CREDIT" /\ FixedColumns
    BY <1>2, LeavingFixes DEF Leaving
  <2>2. OperationRows'
    BY <1>1, <2>1, GrowthRows
  <2>3. OperationsDecide'
    BY <1>1, <2>1, GrowthDecides
  <2>4. CandidatesInWindow'
    BY <1>1, <2>1, GrowthInWindow
  <2>5. QED
    BY <2>2, <2>3, <2>4
<1>3. ASSUME NEW e \in DOMAIN entries, NEW o \in DOMAIN orders, AutoSettling(e, o)
      PROVE  (OperationRows /\ OperationsDecide /\ CandidatesInWindow)'
  <2> DEFINE key == AutoKey(e, o)
  <2>1. /\ Settles(key, e, o, "AMOUNT_INFERRED", "INFERRED") /\ key \notin DOMAIN operations
        /\ OperationsGrow({key}, StaleCandidates(e))
        /\ CandidatesGrow(e, StaleCandidates(e), {<<e, o>>})
        /\ operations'[key] = OperationRow("AUTO_SETTLEMENT", e, o, key)
    BY <1>3 DEF AutoSettling, Settling
  <2>2. FixedColumns /\ entries[e].report.direction = "CREDIT" /\ key \in Keys
    BY <1>1, <2>1, SettlesFacts DEF OInv, CInv
  <2>3. /\ operations'[key].type = "AUTO_SETTLEMENT"
        /\ operations'[key].entry = e /\ operations'[key].order = o
    BY <2>1 DEF OperationRow
  <2>4. \A f \in Entries, p \in Orders :
           /\ SupersedeKey(f, p) \notin {key}
           /\ AutoKey(f, p) \in {key} <=> <<f, p>> \in {<<e, o>>}
           /\ AutoKey(f, p) \in {key} =>
                 operations'[AutoKey(f, p)] = OperationRow("AUTO_SETTLEMENT", f, p, AutoKey(f, p))
    BY <2>1, KeysDiffer
  <2>5. {key} \cap DOMAIN operations = {}
    BY <2>1
  <2> HIDE DEF key
  <2>6. OperationRows'
    BY <1>1, <2>1, <2>2, <2>3, <2>5, GrowthRows DEF OperationTypes, key
  <2>7. OperationsDecide'
    BY <1>1, <2>1, <2>4, <2>5, GrowthDecides
  <2>8. CandidatesInWindow'
    BY <1>1, <2>1, <2>2, GrowthInWindow
  <2>9. QED
    BY <2>6, <2>7, <2>8
<1>4. ASSUME NEW d \in Decisions, NEW e \in DOMAIN entries, NEW o \in DOMAIN orders,
             HandSettling(d, e, o)
      PROVE  (OperationRows /\ OperationsDecide /\ CandidatesInWindow)'
  <2> DEFINE key == AdminKey(d)
  <2>1. /\ Settles(key, e, o, "MANUAL", "MANUAL") /\ key \notin DOMAIN operations
        /\ OperationsGrow({key}, EligibleOf(e)) /\ CandidatesGrow(e, EligibleOf(e), {})
        /\ operations'[key] = OperationRow("MANUAL_SETTLEMENT", e, o, key)
    BY <1>4 DEF HandSettling, Settling
  <2>2. FixedColumns /\ entries[e].report.direction = "CREDIT" /\ key \in Keys
    BY <1>1, <2>1, SettlesFacts DEF OInv, CInv
  <2>3. /\ operations'[key].type = "MANUAL_SETTLEMENT"
        /\ operations'[key].entry = e /\ operations'[key].order = o
    BY <2>1 DEF OperationRow
  <2>4. \A f, p : AutoKey(f, p) \notin {key} /\ SupersedeKey(f, p) \notin {key}
    BY AdminKeyIsOther
  <2>5. {key} \cap DOMAIN operations = {}
    BY <2>1
  <2> HIDE DEF key
  <2>6. OperationRows'
    BY <1>1, <2>1, <2>2, <2>3, <2>5, GrowthRows DEF OperationTypes
  <2>7. OperationsDecide'
    BY <1>1, <2>1, <2>4, <2>5, GrowthDecides
  <2>8. CandidatesInWindow'
    BY <1>1, <2>1, <2>2, GrowthInWindow
  <2>9. QED
    BY <2>6, <2>7, <2>8
<1>5. ASSUME NEW d \in Decisions, NEW m \in matches, Reverses(d, m)
      PROVE  (OperationRows /\ OperationsDecide /\ CandidatesInWindow)'
  <2> DEFINE key == AdminKey(d)
  <2>1. /\ DOMAIN operations' = DOMAIN operations \cup {key} /\ key \notin DOMAIN operations
        /\ \A k \in DOMAIN operations : operations'[k] = operations[k]
        /\ operations'[key] = OperationRow("REVERSE_SETTLEMENT", m.entry, m.order, m.operation)
    BY <1>5, ReversesGrows
  <2>2. /\ FixedColumns /\ candidates' = candidates
        /\ m.entry \in DOMAIN entries /\ m.order \in DOMAIN orders
    BY <1>1, <1>5, ReversesFacts DEF OInv, CInv
  <2>3. /\ operations'[key].type = "REVERSE_SETTLEMENT"
        /\ operations'[key].entry = m.entry /\ operations'[key].order = m.order
    BY <2>1 DEF OperationRow
  <2>4. key \in Keys /\ \A f, p : AutoKey(f, p) # key /\ SupersedeKey(f, p) # key
    BY AdminKeyIsOther
  <2> HIDE DEF key
  <2>5. OperationRows'
    BY <1>1, <2>1, <2>2, <2>3, <2>4 DEF OInv, OperationRows, OperationTypes, FixedColumns
  <2>6. OperationsDecide'
    BY <1>1, <2>1, <2>2, <2>4 DEF OInv, OperationsDecide, HasStatus
  <2>7. CandidatesInWindow'
    BY <1>1, <2>2 DEF FixedColumns, OInv, CInv, CandidateRows, CandidatesInWindow,
                      CandidateInWindow
  <2>8. QED
    BY <2>5, <2>6, <2>7
<1>6. QED
  BY <1>1, <1>2, <1>3, <1>4, <1>5, QuietKeepsOperations, BookKinds DEF OInv

LEMMA OInvariance == RSpec => []OInv
BY InitOInv, StepOInv, PTL DEF RSpec

-----------------------------------------------------------------------------
(* Matches and operations.                                                 *)

SettlementType(evidence) == IF evidence = "MANUAL" THEN "MANUAL_SETTLEMENT"
                                                   ELSE "AUTO_SETTLEMENT"

MatchesMade ==
    \A m \in matches :
        /\ m.operation \in DOMAIN operations
        /\ operations[m.operation] =
              OperationRow(SettlementType(m.evidence), m.entry, m.order, m.operation)
        /\ m.status = "SETTLED" =>
              /\ m.resolution = m.operation
              /\ orders[m.order].basis \in {"INFERRED", "MANUAL"}
              /\ orders[m.order].received = entries[m.entry].report.amount
        /\ m.status = "REVERSED" =>
              /\ m.resolution \in DOMAIN operations
              /\ operations[m.resolution] =
                    OperationRow("REVERSE_SETTLEMENT", m.entry, m.order, m.operation)

OperationsMatched ==
    \A k \in DOMAIN operations :
        /\ operations[k].type \in {"AUTO_SETTLEMENT", "MANUAL_SETTLEMENT"} =>
              \E m \in matches : m.operation = k
        /\ operations[k].type = "REVERSE_SETTLEMENT" =>
              \E m \in matches : m.resolution = k /\ m.status = "REVERSED"

JournalKept ==
    /\ IsFiniteSet(journal)
    /\ \A x \in journal : x.type \in {"SETTLEMENT", "REVERSAL"} /\ PostingAccepted(x)
    /\ \A x, y \in journal : x.operation = y.operation => x = y
    /\ \A k \in DOMAIN operations :
          operations[k].type # "SUPERSEDE_CANDIDATE" => \E x \in journal : x.operation = k

BInv == OInv /\ MatchesMade /\ OperationsMatched /\ JournalKept /\ BooksBalance

(* A step that settles and reverses nothing.                               *)
NothingBooked ==
    /\ OperationsKept /\ FixedColumns
    /\ \A k \in DOMAIN operations' \ DOMAIN operations :
          operations'[k].type = "SUPERSEDE_CANDIDATE"
    /\ \A o \in DOMAIN orders : /\ orders'[o].payment = orders[o].payment
                                /\ orders'[o].basis = orders[o].basis
                                /\ orders'[o].received = orders[o].received
    /\ \A o \in DOMAIN orders' \ DOMAIN orders : orders'[o].payment = "UNPAID"
    /\ \A e \in DOMAIN entries : entries'[e].state = "ALLOCATED" <=> entries[e].state = "ALLOCATED"
    /\ \A e \in DOMAIN entries' \ DOMAIN entries : entries'[e].state # "ALLOCATED"
    /\ UNCHANGED <<matches, matchEvents, journal, outbox>>

(* A step that does: one operation more, and what it supersedes.           *)
Books(key, type, e, o, match) ==
    /\ OperationsKept /\ FixedColumns
    /\ key \in DOMAIN operations' \ DOMAIN operations
    /\ operations'[key] = OperationRow(type, e, o, match)
    /\ \A k \in DOMAIN operations' \ DOMAIN operations :
          k # key => operations'[k].type = "SUPERSEDE_CANDIDATE"

LEMMA OnlySupersededAreNew ==
    ASSUME OInv, NEW e, NEW stale, NEW selected, NEW keys, CandidatesGrow(e, stale, selected),
           OperationsGrow(keys, stale), keys \cap DOMAIN operations = {}
    PROVE  /\ OperationsKept
           /\ \A k \in DOMAIN operations' \ DOMAIN operations :
                 k \notin keys => operations'[k].type = "SUPERSEDE_CANDIDATE"
<1>1. OperationsKept
  BY SupersedesAreNew
<1>2. ASSUME NEW k \in DOMAIN operations' \ DOMAIN operations, k \notin keys
      PROVE  operations'[k].type = "SUPERSEDE_CANDIDATE"
  <2>1. PICK p \in stale : k = SupersedeKey(p[1], p[2])
    BY <1>2 DEF OperationsGrow
  <2>2. operations'[k] = SupersedeOperation(p)
    BY <2>1 DEF OperationsGrow
  <2>3. QED
    BY <2>2 DEF SupersedeOperation
<1>3. QED
  BY <1>1, <1>2

LEMMA QuietBooksNothing ==
    ASSUME Quiet PROVE NothingBooked
<1>1. FixedColumns
  BY QuietFixes
<1>2. OperationsKept
  BY DEF Quiet, OperationsKept
<1>3. QED
  BY <1>1, <1>2 DEF Quiet, OrdersOnly, SameMoney, EntriesOnly, NothingBooked

LEMMA LeavingBooksNothing ==
    ASSUME OInv, NEW e \in DOMAIN entries, Leaving(e) PROVE NothingBooked
<1>1. FixedColumns
  BY LeavingFixes
<1>2. OperationsGrow({}, StaleCandidates(e)) /\ CandidatesGrow(e, StaleCandidates(e), {})
  BY DEF Leaving
<1>3. /\ OperationsKept
      /\ \A k \in DOMAIN operations' \ DOMAIN operations :
            operations'[k].type = "SUPERSEDE_CANDIDATE"
  BY <1>2, OnlySupersededAreNew
<1>4. \A f \in DOMAIN entries : entries'[f].state = "ALLOCATED" <=> entries[f].state = "ALLOCATED"
  BY DEF Leaving, PendingStates
<1>5. QED
  BY <1>1, <1>3, <1>4 DEF Leaving, NothingBooked

LEMMA SettlingBooks ==
    ASSUME OInv, NEW e \in DOMAIN entries, NEW o \in DOMAIN orders, NEW key, NEW evidence,
           NEW basis, NEW type, NEW stale, NEW selected,
           Settling(key, e, o, evidence, basis, type, stale, selected)
    PROVE  Books(key, type, e, o, key)
<1>1. /\ Settles(key, e, o, evidence, basis) /\ key \notin DOMAIN operations
      /\ OperationsGrow({key}, stale) /\ CandidatesGrow(e, stale, selected)
      /\ operations'[key] = OperationRow(type, e, o, key)
  BY DEF Settling
<1>2. FixedColumns
  BY <1>1, SettlesFacts DEF OInv, CInv
<1>3. {key} \cap DOMAIN operations = {} /\ key \in DOMAIN operations'
  BY <1>1 DEF OperationsGrow
<1>4. /\ OperationsKept
      /\ \A k \in DOMAIN operations' \ DOMAIN operations :
            k \notin {key} => operations'[k].type = "SUPERSEDE_CANDIDATE"
  BY <1>1, <1>3, OnlySupersededAreNew
<1>5. QED
  BY <1>1, <1>2, <1>3, <1>4 DEF Books

LEMMA ReversesBooks ==
    ASSUME OInv, NEW d \in Decisions, NEW m \in matches, Reverses(d, m)
    PROVE  Books(AdminKey(d), "REVERSE_SETTLEMENT", m.entry, m.order, m.operation)
<1>1. FixedColumns
  BY ReversesFacts DEF OInv, CInv
<1>2. /\ DOMAIN operations' = DOMAIN operations \cup {AdminKey(d)}
      /\ AdminKey(d) \notin DOMAIN operations
      /\ \A k \in DOMAIN operations : operations'[k] = operations[k]
      /\ operations'[AdminKey(d)] = OperationRow("REVERSE_SETTLEMENT", m.entry, m.order,
                                                 m.operation)
  BY ReversesGrows
<1>3. QED
  BY <1>1, <1>2 DEF Books, OperationsKept

(* One operation, one match.                                               *)
LEMMA MatchOfOperation ==
    ASSUME SInv, MatchesMade, NEW m \in matches, NEW n \in matches,
           m.operation = n.operation \/ m.resolution = n.resolution
    PROVE  m = n
<1>1. ASSUME NEW x \in matches
      PROVE  /\ operations[x.operation].order = x.order
             /\ operations[x.operation].type # "REVERSE_SETTLEMENT"
  <2>1. operations[x.operation] =
           OperationRow(SettlementType(x.evidence), x.entry, x.order, x.operation)
    BY DEF MatchesMade
  <2>2. QED
    BY <2>1 DEF OperationRow, SettlementType
<1>2. ASSUME NEW x \in matches
      PROVE  /\ x.status = "SETTLED" => x.resolution = x.operation
             /\ x.status = "REVERSED" =>
                   /\ operations[x.resolution].order = x.order
                   /\ operations[x.resolution].type = "REVERSE_SETTLEMENT"
  <2>1. x.status = "REVERSED" =>
           operations[x.resolution] =
              OperationRow("REVERSE_SETTLEMENT", x.entry, x.order, x.operation)
    BY DEF MatchesMade
  <2>2. x.status = "SETTLED" => x.resolution = x.operation
    BY DEF MatchesMade
  <2>3. QED
    BY <2>1, <2>2 DEF OperationRow
<1>3. m.status \in {"SETTLED", "REVERSED"} /\ n.status \in {"SETTLED", "REVERSED"}
  BY DEF SInv, MatchRows, Match
<1>4. m.order = n.order
  BY <1>1, <1>2, <1>3
<1>5. m.order \in DOMAIN orders
  BY DEF SInv, MatchRows
<1>6. QED
  BY <1>4, <1>5 DEF SInv, SettlementsAgree

-----------------------------------------------------------------------------
(* Matches, operations and journal along every step.                       *)

LEMMA NothingBookedKeepsBooks ==
    ASSUME BInv, NothingBooked PROVE (MatchesMade /\ OperationsMatched /\ JournalKept)'
<1>1. OperationsKept /\ FixedColumns /\ UNCHANGED <<matches, journal>>
  BY DEF NothingBooked
<1>2. MatchRows
  BY DEF BInv, OInv, CInv, SInv
<1>3. MatchesMade'
  <2> SUFFICES ASSUME NEW m \in matches
               PROVE  /\ m.operation \in DOMAIN operations'
                      /\ operations'[m.operation] =
                            OperationRow(SettlementType(m.evidence), m.entry, m.order,
                                         m.operation)
                      /\ m.status = "SETTLED" =>
                            /\ m.resolution = m.operation
                            /\ orders'[m.order].basis \in {"INFERRED", "MANUAL"}
                            /\ orders'[m.order].received = entries'[m.entry].report.amount
                      /\ m.status = "REVERSED" =>
                            /\ m.resolution \in DOMAIN operations'
                            /\ operations'[m.resolution] =
                                  OperationRow("REVERSE_SETTLEMENT", m.entry, m.order,
                                               m.operation)
    BY <1>1 DEF MatchesMade
  <2>1. m.entry \in DOMAIN entries /\ m.order \in DOMAIN orders
    BY <1>2 DEF MatchRows
  <2>2. /\ orders'[m.order].basis = orders[m.order].basis
        /\ orders'[m.order].received = orders[m.order].received
        /\ entries'[m.entry].report = entries[m.entry].report
    BY <1>1, <2>1 DEF NothingBooked, FixedColumns
  <2>3. QED
    BY <1>1, <2>2 DEF BInv, MatchesMade, OperationsKept
<1>4. OperationsMatched'
  BY <1>1 DEF BInv, OperationsMatched, OperationsKept, NothingBooked
<1>5. \A x \in journal : PostingAccepted(x)'
  <2> SUFFICES ASSUME NEW x \in journal PROVE PostingAccepted(x)'
    OBVIOUS
  <2>1. PostingAccepted(x)
    BY DEF BInv, JournalKept
  <2>2. x.entry \in DOMAIN entries
    BY <2>1 DEF PostingAccepted, BInv, OInv, OperationRows
  <2>3. QED
    BY <1>1, <2>1, <2>2 DEF PostingAccepted, OperationsKept, FixedColumns
<1>6. JournalKept'
  BY <1>1, <1>5 DEF BInv, JournalKept, OperationsKept, NothingBooked
<1>7. QED
  BY <1>3, <1>4, <1>6

LEMMA BooksKeepsJournal ==
    ASSUME BInv, NEW key, NEW type, NEW e \in DOMAIN entries, NEW o \in DOMAIN orders, NEW match,
           Books(key, type, e, o, match), NEW amount,
           NEW kind \in {"SETTLEMENT", "REVERSAL"},
           type \in IF kind = "SETTLEMENT" THEN {"AUTO_SETTLEMENT", "MANUAL_SETTLEMENT"}
                                           ELSE {"REVERSE_SETTLEMENT"},
           journal' = journal \cup {NewPosting(key, kind, e, o, amount)},
           entries[e].report.direction = "CREDIT", amount = entries[e].report.amount
    PROVE  JournalKept' /\ \A x \in journal : x.operation # key
<1> DEFINE new == NewPosting(key, kind, e, o, amount)
<1>1. /\ new.operation = key /\ new.type = kind /\ new.entry = e /\ new.order = o
      /\ new.amount = amount
  BY DEF NewPosting
<1>2. journal' = journal \cup {new}
  OBVIOUS
<1> HIDE DEF new
<1>3. OperationsKept /\ FixedColumns
  BY DEF Books
<1>4. \A x \in journal : x.operation # key
  BY DEF Books, BInv, JournalKept, PostingAccepted
<1>5. \A x \in journal : PostingAccepted(x)'
  <2> SUFFICES ASSUME NEW x \in journal PROVE PostingAccepted(x)'
    OBVIOUS
  <2>1. PostingAccepted(x)
    BY DEF BInv, JournalKept
  <2>2. x.entry \in DOMAIN entries
    BY <2>1 DEF PostingAccepted, BInv, OInv, OperationRows
  <2>3. QED
    BY <1>3, <2>1, <2>2 DEF PostingAccepted, OperationsKept, FixedColumns
<1>6. /\ key \in DOMAIN operations' /\ operations'[key].type = type
      /\ operations'[key].entry = e /\ operations'[key].order = o
  BY DEF Books, OperationRow
<1>7. PostingAccepted(new)'
  BY <1>1, <1>3, <1>6 DEF PostingAccepted, FixedColumns
<1>8. IsFiniteSet(journal')
  BY <1>2, FS_AddElement DEF BInv, JournalKept
<1>9. \A x \in journal' : x.type \in {"SETTLEMENT", "REVERSAL"} /\ PostingAccepted(x)'
  BY <1>1, <1>2, <1>5, <1>7 DEF BInv, JournalKept
<1>10. \A x, y \in journal' : x.operation = y.operation => x = y
  BY <1>1, <1>2, <1>4 DEF BInv, JournalKept
<1>11. \A k \in DOMAIN operations' :
         operations'[k].type # "SUPERSEDE_CANDIDATE" => \E x \in journal' : x.operation = k
  BY <1>1, <1>2, <1>3 DEF BInv, JournalKept, Books, OperationsKept
<1>12. QED
  BY <1>4, <1>8, <1>9, <1>10, <1>11 DEF JournalKept

-----------------------------------------------------------------------------
(* The balance along every step.                                           *)

OfType(P, type) == {p \in P : p.type = type}

LEMMA BookedIs ==
    ASSUME NEW P
    PROVE  Booked(P) = Total(OfType(P, "SETTLEMENT")) - Total(OfType(P, "REVERSAL"))
BY DEF Booked, OfType

LEMMA BookedNothing == Booked({}) = 0
<1>1. OfType({}, "SETTLEMENT") = {} /\ OfType({}, "REVERSAL") = {}
  BY DEF OfType
<1>2. Total({}) = 0
  BY FS_EmptySet, TotalStep
<1>3. Booked({}) = 0 - 0
  BY <1>1, <1>2, BookedIs
<1>4. QED
  BY <1>3

LEMMA BookedMore ==
    ASSUME NEW P, IsFiniteSet(P), \A p \in P : p.amount \in Int, NEW x, x \notin P,
           x.amount \in Int
    PROVE  /\ Booked(P) \in Int
           /\ x.type = "SETTLEMENT" => Booked(P \cup {x}) = Booked(P) + x.amount
           /\ x.type = "REVERSAL" => Booked(P \cup {x}) = Booked(P) - x.amount
<1> DEFINE S == OfType(P, "SETTLEMENT")
           R == OfType(P, "REVERSAL")
           PS == OfType(P \cup {x}, "SETTLEMENT")
           PR == OfType(P \cup {x}, "REVERSAL")
<1>1. /\ IsFiniteSet(S) /\ IsFiniteSet(R)
      /\ \A p \in S : p.amount \in Int
      /\ \A p \in R : p.amount \in Int
  BY FS_Subset DEF OfType
<1>2. /\ x.type = "SETTLEMENT" => PS = S \cup {x} /\ PR = R
      /\ x.type = "REVERSAL" => PS = S /\ PR = R \cup {x}
      /\ x \notin S /\ x \notin R
  BY DEF OfType
<1>3. Booked(P) = Total(S) - Total(R) /\ Booked(P \cup {x}) = Total(PS) - Total(PR)
  BY BookedIs
<1> HIDE DEF S, R, PS, PR
<1>4. Total(S) \in Int /\ Total(R) \in Int
  BY <1>1, TotalTyped
<1>5. Total(S \cup {x}) = x.amount + Total(S)
  <2>1. IsFiniteSet(S \cup {x}) /\ \A p \in S \cup {x} : p.amount \in Int
    BY <1>1, FS_AddElement
  <2>2. (S \cup {x}) \ {x} = S /\ x \in S \cup {x}
    BY <1>2
  <2>3. QED
    BY <2>1, <2>2, TotalWithout
<1>6. Total(R \cup {x}) = x.amount + Total(R)
  <2>1. IsFiniteSet(R \cup {x}) /\ \A p \in R \cup {x} : p.amount \in Int
    BY <1>1, FS_AddElement
  <2>2. (R \cup {x}) \ {x} = R /\ x \in R \cup {x}
    BY <1>2
  <2>3. QED
    BY <2>1, <2>2, TotalWithout
<1>7. x.type = "SETTLEMENT" => Booked(P \cup {x}) = (x.amount + Total(S)) - Total(R)
  BY <1>2, <1>3, <1>5
<1>8. x.type = "REVERSAL" => Booked(P \cup {x}) = Total(S) - (x.amount + Total(R))
  BY <1>2, <1>3, <1>6
<1>9. QED
  BY <1>3, <1>4, <1>7, <1>8

PostingsOfOrder(o) == {p \in journal : p.order = o}
PostingsOfEntry(e) == {p \in journal : p.entry = e}

LEMMA PostingsFacts ==
    ASSUME BInv, NEW z
    PROVE  /\ IsFiniteSet(PostingsOfOrder(z)) /\ IsFiniteSet(PostingsOfEntry(z))
           /\ \A p \in journal : p.amount \in Int
           /\ PostingsOfOrder(z) \subseteq journal /\ PostingsOfEntry(z) \subseteq journal
<1>1. ASSUME NEW p \in journal PROVE p.amount \in Int
  <2>1. PostingAccepted(p)
    BY DEF BInv, JournalKept
  <2>2. p.amount = entries[p.entry].report.amount /\ p.entry \in DOMAIN entries
    BY <2>1 DEF PostingAccepted, BInv, OInv, OperationRows
  <2>3. QED
    BY <2>2, LedgerAssumption DEF BInv, OInv, CInv, SInv, RInv, EntriesTyped
<1>2. PostingsOfOrder(z) \subseteq journal /\ PostingsOfEntry(z) \subseteq journal
  BY DEF PostingsOfOrder, PostingsOfEntry
<1>3. QED
  BY <1>1, <1>2, FS_Subset DEF BInv, JournalKept

BalancedOrder(o) ==
    Booked(PostingsOfOrder(o)) =
       IF orders[o].payment = "CONFIRMED" THEN orders[o].received ELSE 0

BalancedEntry(e) ==
    Booked(PostingsOfEntry(e)) =
       IF entries[e].state = "ALLOCATED" THEN entries[e].report.amount ELSE 0

LEMMA BalanceIs ==
    JournalKept =>
       (BooksBalance <=> /\ \A o \in DOMAIN orders : BalancedOrder(o)
                         /\ \A e \in DOMAIN entries : BalancedEntry(e))
BY DEF JournalKept, PostingAccepted, BooksBalance, BalancedOrder, BalancedEntry,
       PostingsOfOrder, PostingsOfEntry

LEMMA BalanceIsNext ==
    ASSUME JournalKept', \A o \in DOMAIN orders' : BalancedOrder(o)',
           \A e \in DOMAIN entries' : BalancedEntry(e)'
    PROVE  BooksBalance'
BY DEF JournalKept, PostingAccepted, BooksBalance, BalancedOrder, BalancedEntry,
       PostingsOfOrder, PostingsOfEntry

LEMMA NothingBookedKeepsBalance ==
    ASSUME BInv, NothingBooked, JournalKept' PROVE BooksBalance'
<1>1. /\ \A o \in DOMAIN orders : BalancedOrder(o)
      /\ \A e \in DOMAIN entries : BalancedEntry(e)
  BY BalanceIs DEF BInv
<1>2. \A z : /\ PostingsOfOrder(z)' = PostingsOfOrder(z)
             /\ PostingsOfEntry(z)' = PostingsOfEntry(z)
  BY DEF NothingBooked, PostingsOfOrder, PostingsOfEntry
<1>3. \A p \in journal : p.order \in DOMAIN orders /\ p.entry \in DOMAIN entries
  BY DEF BInv, JournalKept, PostingAccepted, OInv, OperationRows
<1>4. ASSUME NEW o \in DOMAIN orders' PROVE BalancedOrder(o)'
  <2>1. CASE o \in DOMAIN orders
    BY <1>1, <1>2, <2>1 DEF NothingBooked, BalancedOrder
  <2>2. CASE o \notin DOMAIN orders
    <3>1. PostingsOfOrder(o)' = {} /\ orders'[o].payment = "UNPAID"
      BY <1>2, <1>3, <2>2 DEF PostingsOfOrder, NothingBooked
    <3>2. QED
      BY <3>1, BookedNothing DEF BalancedOrder
  <2>3. QED
    BY <2>1, <2>2
<1>5. ASSUME NEW e \in DOMAIN entries' PROVE BalancedEntry(e)'
  <2>1. CASE e \in DOMAIN entries
    BY <1>1, <1>2, <2>1 DEF NothingBooked, FixedColumns, BalancedEntry
  <2>2. CASE e \notin DOMAIN entries
    <3>1. PostingsOfEntry(e)' = {} /\ entries'[e].state # "ALLOCATED"
      BY <1>2, <1>3, <2>2 DEF PostingsOfEntry, NothingBooked
    <3>2. QED
      BY <3>1, BookedNothing DEF BalancedEntry
  <2>3. QED
    BY <2>1, <2>2
<1>6. QED
  BY <1>4, <1>5, BalanceIsNext

LEMMA PostingMovesBalance ==
    ASSUME BInv, JournalKept', NEW new, new \notin journal, journal' = journal \cup {new},
           NEW e \in DOMAIN entries, NEW o \in DOMAIN orders, new.entry = e, new.order = o,
           new.amount \in Nat, new.type \in {"SETTLEMENT", "REVERSAL"},
           DOMAIN orders' = DOMAIN orders, DOMAIN entries' = DOMAIN entries,
           \A p \in DOMAIN orders : p # o => orders'[p] = orders[p],
           \A f \in DOMAIN entries : f # e => entries'[f] = entries[f],
           new.amount = entries'[e].report.amount, new.amount = entries[e].report.amount,
           new.type = "SETTLEMENT" =>
              /\ orders[o].payment # "CONFIRMED" /\ orders'[o].payment = "CONFIRMED"
              /\ orders'[o].received = new.amount
              /\ entries[e].state # "ALLOCATED" /\ entries'[e].state = "ALLOCATED",
           new.type = "REVERSAL" =>
              /\ orders[o].payment = "CONFIRMED" /\ orders'[o].payment # "CONFIRMED"
              /\ orders[o].received = new.amount
              /\ entries[e].state = "ALLOCATED" /\ entries'[e].state # "ALLOCATED"
    PROVE  BooksBalance'
<1>1. /\ \A p \in DOMAIN orders : BalancedOrder(p)
      /\ \A f \in DOMAIN entries : BalancedEntry(f)
  BY BalanceIs DEF BInv
<1>2. /\ \A z : z # o => PostingsOfOrder(z)' = PostingsOfOrder(z)
      /\ \A z : z # e => PostingsOfEntry(z)' = PostingsOfEntry(z)
      /\ PostingsOfOrder(o)' = PostingsOfOrder(o) \cup {new}
      /\ PostingsOfEntry(e)' = PostingsOfEntry(e) \cup {new}
  BY DEF PostingsOfOrder, PostingsOfEntry
<1>3. /\ IsFiniteSet(PostingsOfOrder(o)) /\ \A p \in PostingsOfOrder(o) : p.amount \in Int
      /\ IsFiniteSet(PostingsOfEntry(e)) /\ \A p \in PostingsOfEntry(e) : p.amount \in Int
      /\ new \notin PostingsOfOrder(o) /\ new \notin PostingsOfEntry(e)
  BY PostingsFacts
<1>4. new.amount \in Int
  OBVIOUS
<1>5. /\ Booked(PostingsOfOrder(o)) \in Int
      /\ new.type = "SETTLEMENT" =>
            Booked(PostingsOfOrder(o)') = Booked(PostingsOfOrder(o)) + new.amount
      /\ new.type = "REVERSAL" =>
            Booked(PostingsOfOrder(o)') = Booked(PostingsOfOrder(o)) - new.amount
  <2> DEFINE P == PostingsOfOrder(o)
             Q == PostingsOfOrder(o)'
  <2>1. Q = P \cup {new}
    BY <1>2
  <2>2. IsFiniteSet(P) /\ (\A p \in P : p.amount \in Int) /\ new \notin P
    BY <1>3
  <2> HIDE DEF P, Q
  <2>3. /\ Booked(P) \in Int
        /\ new.type = "SETTLEMENT" => Booked(P \cup {new}) = Booked(P) + new.amount
        /\ new.type = "REVERSAL" => Booked(P \cup {new}) = Booked(P) - new.amount
    BY <1>4, <2>2, BookedMore
  <2>4. /\ Booked(P) \in Int
        /\ new.type = "SETTLEMENT" => Booked(Q) = Booked(P) + new.amount
        /\ new.type = "REVERSAL" => Booked(Q) = Booked(P) - new.amount
    BY <2>1, <2>3, Zenon
  <2>5. QED
    BY <2>4 DEF P, Q
<1>6. /\ Booked(PostingsOfEntry(e)) \in Int
      /\ new.type = "SETTLEMENT" =>
            Booked(PostingsOfEntry(e)') = Booked(PostingsOfEntry(e)) + new.amount
      /\ new.type = "REVERSAL" =>
            Booked(PostingsOfEntry(e)') = Booked(PostingsOfEntry(e)) - new.amount
  <2> DEFINE P == PostingsOfEntry(e)
             Q == PostingsOfEntry(e)'
  <2>1. Q = P \cup {new}
    BY <1>2
  <2>2. IsFiniteSet(P) /\ (\A p \in P : p.amount \in Int) /\ new \notin P
    BY <1>3
  <2> HIDE DEF P, Q
  <2>3. /\ Booked(P) \in Int
        /\ new.type = "SETTLEMENT" => Booked(P \cup {new}) = Booked(P) + new.amount
        /\ new.type = "REVERSAL" => Booked(P \cup {new}) = Booked(P) - new.amount
    BY <1>4, <2>2, BookedMore
  <2>4. /\ Booked(P) \in Int
        /\ new.type = "SETTLEMENT" => Booked(Q) = Booked(P) + new.amount
        /\ new.type = "REVERSAL" => Booked(Q) = Booked(P) - new.amount
    BY <2>1, <2>3, Zenon
  <2>5. QED
    BY <2>4 DEF P, Q
<1>7. ASSUME NEW p \in DOMAIN orders' PROVE BalancedOrder(p)'
  <2>1. CASE p # o
    BY <1>1, <1>2, <2>1 DEF BalancedOrder
  <2>2. CASE p = o
    <3>1. BalancedOrder(o)
      BY <1>1
    <3>2. Booked(PostingsOfOrder(o)') = IF new.type = "SETTLEMENT" THEN new.amount ELSE 0
      BY <1>4, <1>5, <3>1 DEF BalancedOrder
    <3>3. QED
      BY <2>2, <3>2 DEF BalancedOrder
  <2>3. QED
    BY <2>1, <2>2
<1>8. ASSUME NEW f \in DOMAIN entries' PROVE BalancedEntry(f)'
  <2>1. CASE f # e
    BY <1>1, <1>2, <2>1 DEF BalancedEntry
  <2>2. CASE f = e
    <3>1. BalancedEntry(e)
      BY <1>1
    <3>2. Booked(PostingsOfEntry(e)') = IF new.type = "SETTLEMENT" THEN new.amount ELSE 0
      BY <1>4, <1>6, <3>1 DEF BalancedEntry
    <3>3. QED
      BY <2>2, <3>2 DEF BalancedEntry
  <2>3. QED
    BY <2>1, <2>2
<1>9. QED
  BY <1>7, <1>8, BalanceIsNext

-----------------------------------------------------------------------------
(* A settlement and a reversal keep the books.                              *)

LEMMA OnlyMatchOfOrder ==
    ASSUME SInv, NEW m \in matches, NEW n \in matches, m.order = n.order PROVE m = n
BY DEF SInv, MatchRows, SettlementsAgree

LEMMA UnpaidHasNoMatch ==
    ASSUME SInv, NEW o \in DOMAIN orders, orders[o].payment = "UNPAID", NEW m \in matches
    PROVE  m.order # o
BY DEF SInv, SettlementsAgree

(* The match a step makes under key, or the one it reverses, in place of   *)
(* those it replaces, which are lost.                                      *)
MatchMoves(key, type, e, o, match, lost, new) ==
    /\ lost \subseteq matches /\ matches' = (matches \ lost) \cup {new}
    /\ \A m \in matches : m.order = o => m \in lost
    /\ \A p \in DOMAIN orders : p # o => orders'[p] = orders[p]
    /\ new.entry = e /\ new.order = o /\ new.resolution = key
    /\ \/ /\ type \in {"AUTO_SETTLEMENT", "MANUAL_SETTLEMENT"}
          /\ lost = {} /\ new.operation = key /\ new.status = "SETTLED"
          /\ match = key /\ type = SettlementType(new.evidence)
          /\ orders'[o].basis \in {"INFERRED", "MANUAL"}
          /\ orders'[o].received = entries[e].report.amount
       \/ /\ type = "REVERSE_SETTLEMENT"
          /\ new.status = "REVERSED" /\ match = new.operation
          /\ \E m \in lost : /\ lost = {m} /\ m.status = "SETTLED"
                             /\ m.operation = new.operation /\ m.evidence = new.evidence
                             /\ m.entry = e /\ m.order = o

LEMMA BooksKeepsMatches ==
    ASSUME BInv, NEW key, NEW type, NEW e \in DOMAIN entries, NEW o \in DOMAIN orders, NEW match,
           Books(key, type, e, o, match), NEW lost, NEW new,
           MatchMoves(key, type, e, o, match, lost, new)
    PROVE  MatchesMade' /\ OperationsMatched'
<1>a. /\ lost \subseteq matches /\ matches' = (matches \ lost) \cup {new}
      /\ \A m \in matches : m.order = o => m \in lost
      /\ \A p \in DOMAIN orders : p # o => orders'[p] = orders[p]
      /\ new.entry = e /\ new.order = o
  BY DEF MatchMoves
<1>b. type \in {"AUTO_SETTLEMENT", "MANUAL_SETTLEMENT"} =>
              /\ lost = {} /\ new.operation = key /\ new.resolution = key
              /\ new.status = "SETTLED"
              /\ match = key /\ type = SettlementType(new.evidence)
              /\ orders'[o].basis \in {"INFERRED", "MANUAL"}
              /\ orders'[o].received = entries[e].report.amount
  BY DEF MatchMoves
<1>c. type \notin {"AUTO_SETTLEMENT", "MANUAL_SETTLEMENT"} =>
              /\ type = "REVERSE_SETTLEMENT"
              /\ new.resolution = key /\ new.status = "REVERSED" /\ match = new.operation
              /\ \E m \in lost : /\ lost = {m} /\ m.status = "SETTLED"
                                 /\ m.operation = new.operation
                                 /\ m.evidence = new.evidence
                                 /\ m.entry = e /\ m.order = o
  BY DEF MatchMoves
<1>1. OperationsKept /\ FixedColumns /\ MatchRows
  BY DEF Books, BInv, OInv, CInv, SInv
<1>2. /\ key \in DOMAIN operations' /\ operations'[key] = OperationRow(type, e, o, match)
      /\ \A k \in DOMAIN operations' \ DOMAIN operations :
            k # key => operations'[k].type = "SUPERSEDE_CANDIDATE"
  BY DEF Books
<1>3. \A k \in DOMAIN operations : k \in DOMAIN operations' /\ operations'[k] = operations[k]
  BY <1>1 DEF OperationsKept
<1>4. ASSUME NEW m \in matches \ lost
      PROVE  /\ m.operation \in DOMAIN operations'
             /\ operations'[m.operation] =
                   OperationRow(SettlementType(m.evidence), m.entry, m.order, m.operation)
             /\ m.status = "SETTLED" =>
                   /\ m.resolution = m.operation
                   /\ orders'[m.order].basis \in {"INFERRED", "MANUAL"}
                   /\ orders'[m.order].received = entries'[m.entry].report.amount
             /\ m.status = "REVERSED" =>
                   /\ m.resolution \in DOMAIN operations'
                   /\ operations'[m.resolution] =
                         OperationRow("REVERSE_SETTLEMENT", m.entry, m.order, m.operation)
  <2>1. m.entry \in DOMAIN entries /\ m.order \in DOMAIN orders /\ m.order # o
    BY <1>1, <1>4, <1>a DEF MatchRows
  <2>2. /\ orders'[m.order] = orders[m.order]
        /\ entries'[m.entry].report = entries[m.entry].report
    BY <1>1, <1>a, <2>1 DEF FixedColumns
  <2>3. QED
    BY <1>3, <1>a, <2>1, <2>2 DEF BInv, MatchesMade
<1>5. entries'[e].report = entries[e].report
  BY <1>1 DEF FixedColumns
<1>6. /\ new.operation \in DOMAIN operations'
      /\ operations'[new.operation] =
            OperationRow(SettlementType(new.evidence), new.entry, new.order, new.operation)
  <2>1. CASE type \in {"AUTO_SETTLEMENT", "MANUAL_SETTLEMENT"}
    <3>1. new.operation = key /\ match = key /\ type = SettlementType(new.evidence)
      BY <1>b, <2>1
    <3>2. QED
      BY <1>2, <1>a, <3>1
  <2>2. CASE type \notin {"AUTO_SETTLEMENT", "MANUAL_SETTLEMENT"}
    <3>1. PICK m \in lost : /\ m.operation = new.operation /\ m.evidence = new.evidence
                            /\ m.entry = e /\ m.order = o
      BY <1>c, <2>2
    <3>2. /\ m.operation \in DOMAIN operations
          /\ operations[m.operation] =
                OperationRow(SettlementType(m.evidence), m.entry, m.order, m.operation)
      BY <1>a DEF BInv, MatchesMade
    <3>3. QED
      BY <1>3, <1>a, <3>1, <3>2
  <2>3. QED
    BY <2>1, <2>2
<1>7. new.status = "SETTLED" =>
         /\ new.resolution = new.operation
         /\ orders'[new.order].basis \in {"INFERRED", "MANUAL"}
         /\ orders'[new.order].received = entries'[new.entry].report.amount
  BY <1>5, <1>a, <1>b, <1>c
<1>8. new.status = "REVERSED" =>
         /\ new.resolution \in DOMAIN operations'
         /\ operations'[new.resolution] =
               OperationRow("REVERSE_SETTLEMENT", new.entry, new.order, new.operation)
  <2>1. ASSUME new.status = "REVERSED"
        PROVE  type = "REVERSE_SETTLEMENT" /\ new.resolution = key /\ match = new.operation
    BY <1>b, <1>c, <2>1
  <2>2. QED
    BY <1>2, <1>a, <2>1
<1>9. MatchesMade'
  BY <1>4, <1>6, <1>7, <1>8, <1>a DEF MatchesMade
<1>10. ASSUME NEW k \in DOMAIN operations'
       PROVE  /\ operations'[k].type \in {"AUTO_SETTLEMENT", "MANUAL_SETTLEMENT"} =>
                    \E m \in matches' : m.operation = k
              /\ operations'[k].type = "REVERSE_SETTLEMENT" =>
                    \E m \in matches' : m.resolution = k /\ m.status = "REVERSED"
  <2>1. CASE k = key
    <3>1. operations'[k].type = type
      BY <1>2, <2>1 DEF OperationRow
    <3>2. new \in matches'
      BY <1>a
    <3>3. QED
      BY <1>b, <1>c, <2>1, <3>1, <3>2
  <2>2. CASE k # key /\ k \notin DOMAIN operations
    BY <1>2, <2>2
  <2>3. CASE k \in DOMAIN operations
    <3>1. /\ operations[k].type \in {"AUTO_SETTLEMENT", "MANUAL_SETTLEMENT"} =>
                \E m \in matches : m.operation = k
          /\ operations[k].type = "REVERSE_SETTLEMENT" =>
                \E m \in matches : m.resolution = k /\ m.status = "REVERSED"
      BY <2>3 DEF BInv, OperationsMatched
    <3>2. \A m \in lost : m.status # "REVERSED" /\ m.operation = new.operation
      BY <1>b, <1>c
    <3>3. QED
      BY <1>3, <1>a, <2>3, <3>1, <3>2
  <2>4. QED
    BY <2>1, <2>2, <2>3
<1>11. OperationsMatched'
  BY <1>10 DEF OperationsMatched
<1>12. QED
  BY <1>9, <1>11

LEMMA SettlingKeepsBooks ==
    ASSUME BInv, NEW e \in DOMAIN entries, NEW o \in DOMAIN orders, NEW key, NEW evidence,
           NEW basis, NEW type, NEW stale, NEW selected,
           Settling(key, e, o, evidence, basis, type, stale, selected),
           basis \in {"INFERRED", "MANUAL"}, type = SettlementType(evidence)
    PROVE  (MatchesMade /\ OperationsMatched /\ JournalKept /\ BooksBalance)'
<1>1. Books(key, type, e, o, key) /\ Settles(key, e, o, evidence, basis)
  BY SettlingBooks DEF BInv, Settling
<1>2. SInv
  BY DEF BInv, OInv, CInv
<1>3. type \in {"AUTO_SETTLEMENT", "MANUAL_SETTLEMENT"}
  BY DEF SettlementType
<1> DEFINE match == NewMatch(key, e, o, evidence)
           amount == entries[e].report.amount
           posting == NewPosting(key, "SETTLEMENT", e, o, amount)
<1>4. matches' = matches \cup {match} /\ journal' = journal \cup {posting}
  BY <1>1, SettlesWrites
<1>5. /\ match.entry = e /\ match.order = o /\ match.operation = key
      /\ match.resolution = key /\ match.status = "SETTLED" /\ match.evidence = evidence
  BY DEF NewMatch
<1>6. /\ posting.entry = e /\ posting.order = o /\ posting.operation = key
      /\ posting.type = "SETTLEMENT" /\ posting.amount = amount
  BY DEF NewPosting
<1>7. /\ FixedColumns /\ DOMAIN entries' = DOMAIN entries /\ DOMAIN orders' = DOMAIN orders
      /\ entries'[e].state = "ALLOCATED"
      /\ \A f \in DOMAIN entries : f # e => entries'[f] = entries[f]
      /\ orders'[o].payment = "CONFIRMED" /\ orders'[o].basis = basis
      /\ orders'[o].received = amount
      /\ \A p \in DOMAIN orders : p # o => orders'[p] = orders[p]
      /\ orders[o].payment = "UNPAID" /\ entries[e].state # "ALLOCATED"
      /\ entries[e].report.direction = "CREDIT" /\ amount \in Nat
  BY <1>1, <1>2, SettlesFacts
<1>8. JournalKept' /\ posting \notin journal
  BY <1>1, <1>3, <1>4, <1>6, <1>7, BooksKeepsJournal
<1>9. entries'[e].report.amount = amount
  BY <1>7 DEF FixedColumns
<1>10. \A m \in matches : m.order # o
  BY <1>2, <1>7, UnpaidHasNoMatch
<1> HIDE DEF match, posting, amount
<1>11. BooksBalance'
  BY <1>4, <1>6, <1>7, <1>8, <1>9, PostingMovesBalance DEF amount
<1>12. matches' = (matches \ {}) \cup {match} /\ {} \in SUBSET matches
  BY <1>4
<1>13. MatchesMade' /\ OperationsMatched'
  <2>1. MatchMoves(key, type, e, o, key, {}, match)
    BY <1>3, <1>5, <1>7, <1>10, <1>12 DEF MatchMoves, amount
  <2>2. QED
    BY <1>1, <2>1, BooksKeepsMatches
<1>14. QED
  BY <1>8, <1>11, <1>13

LEMMA ReversalKeepsBooks ==
    ASSUME BInv, NEW d \in Decisions, NEW m \in matches, Reverses(d, m)
    PROVE  (MatchesMade /\ OperationsMatched /\ JournalKept /\ BooksBalance)'
<1> DEFINE e == m.entry
           o == m.order
           key == AdminKey(d)
           match == ReversedMatch(m, key)
           posting == NewPosting(key, "REVERSAL", e, o, orders[o].received)
<1>1. SInv
  BY DEF BInv, OInv, CInv
<1>2. Books(key, "REVERSE_SETTLEMENT", e, o, m.operation)
  BY ReversesBooks DEF BInv
<1>3. matches' = (matches \ {m}) \cup {match} /\ journal' = journal \cup {posting}
  BY ReversesWrites
<1>4. m \in Match
  BY <1>1 DEF SInv, MatchRows
<1>5. /\ match.entry = e /\ match.order = o /\ match.operation = m.operation
      /\ match.resolution = key /\ match.status = "REVERSED" /\ match.evidence = m.evidence
  BY <1>4 DEF ReversedMatch, Match
<1>6. /\ posting.entry = e /\ posting.order = o /\ posting.operation = key
      /\ posting.type = "REVERSAL" /\ posting.amount = orders[o].received
  BY DEF NewPosting
<1>7. /\ e \in DOMAIN entries /\ o \in DOMAIN orders
      /\ FixedColumns /\ DOMAIN entries' = DOMAIN entries /\ DOMAIN orders' = DOMAIN orders
      /\ entries'[e].state = "CONFLICT"
      /\ \A f \in DOMAIN entries : f # e => entries'[f] = entries[f]
      /\ orders'[o].payment = "DISPUTED"
      /\ \A p \in DOMAIN orders : p # o => orders'[p] = orders[p]
      /\ m.status = "SETTLED" /\ entries[e].state = "ALLOCATED"
      /\ orders[o].payment = "CONFIRMED"
  BY <1>1, ReversesFacts
<1>8. orders[o].received = entries[e].report.amount
  BY <1>7 DEF BInv, MatchesMade
<1>9. PICK x \in journal : x.operation = m.operation
  <2>1. /\ m.operation \in DOMAIN operations
        /\ operations[m.operation] =
              OperationRow(SettlementType(m.evidence), m.entry, m.order, m.operation)
    BY DEF BInv, MatchesMade
  <2>2. operations[m.operation].type # "SUPERSEDE_CANDIDATE"
    BY <2>1 DEF OperationRow, SettlementType
  <2>3. QED
    BY <2>1, <2>2 DEF BInv, JournalKept
<1>10. entries[e].report.direction = "CREDIT"
  <2>1. /\ operations[m.operation] =
              OperationRow(SettlementType(m.evidence), m.entry, m.order, m.operation)
    BY DEF BInv, MatchesMade
  <2>2. operations[m.operation].entry = e
    BY <2>1 DEF OperationRow
  <2>3. PostingAccepted(x)
    BY DEF BInv, JournalKept
  <2>4. QED
    BY <1>9, <2>2, <2>3 DEF PostingAccepted
<1>11. entries[e].report.amount \in Nat
  BY <1>7, <1>1, LedgerAssumption DEF SInv, RInv, EntriesTyped
<1>12. entries'[e].report.amount = entries[e].report.amount
  BY <1>7 DEF FixedColumns
<1>13. \A n \in matches : n.order = o => n \in {m}
  BY <1>1, OnlyMatchOfOrder
<1> HIDE DEF match, posting, key
<1>14. JournalKept' /\ posting \notin journal
  <2>1. journal' = journal \cup {NewPosting(key, "REVERSAL", e, o, orders[o].received)}
    BY <1>3 DEF posting
  <2>2. JournalKept' /\ \A y \in journal : y.operation # key
    BY <1>2, <1>7, <1>8, <1>10, <2>1, BooksKeepsJournal
  <2>3. QED
    BY <2>2, <1>6
<1>15. BooksBalance'
  BY <1>3, <1>6, <1>7, <1>8, <1>11, <1>12, <1>14, PostingMovesBalance
<1>16. MatchesMade' /\ OperationsMatched'
  <2>1. MatchMoves(key, "REVERSE_SETTLEMENT", e, o, m.operation, {m}, match)
    BY <1>3, <1>5, <1>7, <1>13 DEF MatchMoves
  <2> HIDE DEF e, o
  <2>2. e \in DOMAIN entries /\ o \in DOMAIN orders
    BY <1>7
  <2>3. QED
    BY <1>2, <2>1, <2>2, BooksKeepsMatches
<1>17. QED
  BY <1>14, <1>15, <1>16

LEMMA InitBInv == RInit => BInv
<1> SUFFICES ASSUME RInit PROVE BInv
  OBVIOUS
<1>1. /\ OInv /\ DOMAIN operations = {} /\ matches = {} /\ journal = {}
      /\ DOMAIN orders = {} /\ DOMAIN entries = {}
  BY InitOInv DEF RInit, Init
<1>2. QED
  BY <1>1, FS_EmptySet DEF BInv, MatchesMade, OperationsMatched, JournalKept, BooksBalance

LEMMA StepBInv == BInv /\ [RNext]_rvars => BInv'
<1> SUFFICES ASSUME BInv, [RNext]_rvars
             PROVE  (MatchesMade /\ OperationsMatched /\ JournalKept /\ BooksBalance)'
  BY StepOInv DEF BInv
<1>1. ASSUME NothingBooked
      PROVE  (MatchesMade /\ OperationsMatched /\ JournalKept /\ BooksBalance)'
  BY <1>1, NothingBookedKeepsBooks, NothingBookedKeepsBalance
<1>2. CASE Quiet
  BY <1>1, <1>2, QuietBooksNothing
<1>3. ASSUME NEW e \in DOMAIN entries, Leaving(e) PROVE NothingBooked
  BY <1>3, LeavingBooksNothing DEF BInv
<1>4. ASSUME NEW e \in DOMAIN entries, NEW o \in DOMAIN orders, AutoSettling(e, o)
      PROVE  (MatchesMade /\ OperationsMatched /\ JournalKept /\ BooksBalance)'
  BY <1>4, SettlingKeepsBooks DEF AutoSettling, SettlementType
<1>5. ASSUME NEW d \in Decisions, NEW e \in DOMAIN entries, NEW o \in DOMAIN orders,
             HandSettling(d, e, o)
      PROVE  (MatchesMade /\ OperationsMatched /\ JournalKept /\ BooksBalance)'
  BY <1>5, SettlingKeepsBooks DEF HandSettling, SettlementType
<1>6. QED
  BY <1>1, <1>2, <1>3, <1>4, <1>5, ReversalKeepsBooks, BookKinds DEF BInv, OInv

LEMMA BInvariance == RSpec => []BInv
BY InitBInv, StepBInv, PTL DEF RSpec

(* The journal agrees with the orders and with the bank in every state:    *)
(* what it holds for a confirmed order is what the order received, what it *)
(* holds against an allocated entry is the amount of the movement, nothing *)
(* is held for any other, and no operation is booked twice.  The code      *)
(* writes the journal, the match, the entry and the order in statements of *)
(* their own (settle, reverseSettlement) and nothing in it adds them up.   *)
THEOREM BooksAlwaysBalance == RSpec => []BooksBalance
<1>1. BInv => BooksBalance
  BY DEF BInv
<1>2. QED
  BY <1>1, BInvariance, PTL

=============================================================================
