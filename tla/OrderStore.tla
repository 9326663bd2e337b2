----------------------------- MODULE OrderStore -----------------------------
(***************************************************************************)
(* The order store of src/src/database/order-store.ts: payment orders,     *)
(* their amount slots, their event log, the checkout token keys and the    *)
(* persisted logical clock.                                                *)
(*                                                                         *)
(* PerPay recognises a payment only by the amount that arrives: every open *)
(* order of one Alipay account asks for a different amount, the requested  *)
(* amount plus an offset.  An amount is reused only when the order that    *)
(* had it has ended and a cooldown has passed.                             *)
(*                                                                         *)
(* Every public method of the class runs in one BEGIN IMMEDIATE            *)
(* transaction of a synchronous SQLite connection, so each of them is one  *)
(* action here.  A method that throws rolls its transaction back: it is a  *)
(* step that changes nothing.                                              *)
(*                                                                         *)
(* Time is a tick count.  `physical' is the wall clock, which may be set   *)
(* back; `clock' is the row order_clock.last_now_ms.                       *)
(***************************************************************************)
EXTENDS Integers, FiniteSets, Sequences

CONSTANTS
    Orders,          \* order identifiers (random UUIDs in the code)
    Sites,           \* API clients
    Accounts,        \* Alipay accounts that can collect
    Requests,        \* the creation requests a merchant may send
    Ttls,            \* order lifetimes a site policy may set
    Cooldowns,       \* amount reuse cooldowns a site policy may set
    Observation,     \* how long an ended checkout can still be observed
    KeyRotation,     \* age at which the checkout token key is replaced
    MaxOffset,       \* amountOffsetMaximumCents
    MaxPayable,      \* MAX_PAYABLE_AMOUNT_CENTS
    PendingLimit,    \* pending_order_limit of the site policy
    SweepLimit,      \* EXPIRY_SWEEP_LIMIT
    MaxClockAhead,   \* MAX_ORDER_CLOCK_AHEAD_MILLISECONDS
    MaxTime          \* bound: the wall clock of a model stops here

ASSUME TimeAssumption ==
    /\ Ttls \subseteq Nat \ {0}
    /\ Cooldowns \subseteq Nat \ {0}
    /\ Observation \in Nat \ {0}
    /\ KeyRotation \in Nat \ {0}
    /\ MaxClockAhead \in Nat
    /\ MaxTime \in Nat

ASSUME AmountAssumption ==
    /\ MaxOffset \in Nat \ {0}
    /\ MaxPayable \in Nat
    /\ PendingLimit \in Nat
    /\ SweepLimit \in Nat \ {0}

(* A request carries its idempotency key, the merchant's order number, the *)
(* requested amount, and `detail' for everything else the fingerprints     *)
(* cover: product name, note, return URL, webhook target, epay fields.     *)
ASSUME RequestAssumption ==
    \A q \in Requests :
        /\ q.site \in Sites
        /\ q.amount \in Nat \ {0}
        /\ q.amount + 1 <= MaxPayable

VARIABLES
    physical,    \* the wall clock
    clock,       \* order_clock.last_now_ms
    orders,      \* payment_orders joined with amount_slots and checkout_sessions
    events,      \* order_events, one sequence per order
    tokenKeys,   \* checkout_token_keys: activation times, the last one is active
    gone         \* history: orders whose public link was answered "not found"

vars == <<physical, clock, orders, events, tokenKeys, gone>>

Max2(a, b) == IF a >= b THEN a ELSE b
Min2(a, b) == IF a <= b THEN a ELSE b

NoTime == -1     \* the NULL of a time column
NoAmount == -1   \* the NULL of received_amount_cents

CheckoutStatuses == {"OPEN", "EXPIRED", "CLOSED"}
PaymentStatuses == {"UNPAID", "CONFIRMED", "DISPUTED"}
PaymentBases == {"NONE", "INFERRED", "MANUAL"}

EventTypes == {"CREATED", "CHECKOUT_CLOSED", "CHECKOUT_EXPIRED",
               "PAYMENT_CONFIRMED", "PAYMENT_DISPUTED"}

Row == [request    : Requests,
        account    : Accounts,
        payable    : Nat,
        generation : Nat \ {0},
        cooldown   : Cooldowns,
        created    : Nat,
        expires    : Nat,
        closed     : Nat \cup {NoTime},
        released   : Nat \cup {NoTime},
        updated    : Nat,
        tokenKey   : Nat \ {0},
        checkout   : CheckoutStatuses,
        payment    : PaymentStatuses,
        basis      : PaymentBases,
        received   : Nat \cup {NoAmount},
        version    : Nat \ {0}]

Event == [type : EventTypes, at : Nat]

-----------------------------------------------------------------------------
(* The clock.  #logicalNow refuses to work when the persisted clock is too *)
(* far ahead of the wall clock, and otherwise never goes back.             *)

ClockIsUsable == clock - physical <= MaxClockAhead

(* Mutant: the wall clock is used as it is.                                *)
LogicalNowUnprotected == physical

LogicalNow == Max2(clock, physical)

AdvanceClock == ClockIsUsable /\ clock' = LogicalNow

-----------------------------------------------------------------------------
(* Expiry.                                                                 *)

Due(now) == {o \in DOMAIN orders : /\ orders[o].checkout = "OPEN"
                                   /\ orders[o].expires <= now}

(* The row after expireOrder, including what the trigger                   *)
(* payment_orders_release_amount_slot writes to its amount slot.           *)
ExpiredRow(r, now) == [r EXCEPT !.checkout = "EXPIRED",
                                !.closed   = now,
                                !.released = now,
                                !.updated  = now,
                                !.version  = @ + 1]

WithExpired(S, now) ==
    [o \in DOMAIN orders |-> IF o \in S THEN ExpiredRow(orders[o], now)
                                        ELSE orders[o]]

WithExpiryEvents(S, now) ==
    [o \in DOMAIN events |->
        IF o \in S THEN Append(events[o], [type |-> "CHECKOUT_EXPIRED", at |-> now])
                   ELSE events[o]]

Expire(S, now) == /\ orders' = WithExpired(S, now)
                  /\ events' = WithExpiryEvents(S, now)

(* expireDueOrders: at most SweepLimit due orders, the earliest expiry     *)
(* first; order identifiers are random, so ties are broken arbitrarily.    *)
Sweeps(now) ==
    {S \in SUBSET Due(now) :
        /\ Cardinality(S) = Min2(SweepLimit, Cardinality(Due(now)))
        /\ \A x \in S, y \in Due(now) \ S : orders[x].expires <= orders[y].expires}

-----------------------------------------------------------------------------
(* Amount allocation.                                                      *)

SlotsAt(a, amount) == {o \in DOMAIN orders : /\ orders[o].account = a
                                             /\ orders[o].payable = amount}

IsLatestSlot(o, a, amount) ==
    /\ o \in SlotsAt(a, amount)
    /\ \A p \in SlotsAt(a, amount) : orders[p].generation <= orders[o].generation

(* Mutant: the cooldown restarts when a late sweep notices the expiry.     *)
EndedAtSweepTime(r) == IF r.checkout = "OPEN" THEN r.expires ELSE r.closed

(* When the checkout stopped taking payments.  A delayed expiry sweep      *)
(* (closed > expires) must not move it.                                    *)
EndedAt(r) == IF r.checkout = "CLOSED" THEN r.closed ELSE r.expires

AmountReuseAvailableAt(r) == EndedAt(r) + r.cooldown

(* Mutant: the hint for an amount in use forgets the cooldown.             *)
SlotAvailableAtNoCooldown(r, now) ==
    IF r.checkout = "OPEN"
    THEN IF r.expires <= now THEN Max2(now, AmountReuseAvailableAt(r)) ELSE r.expires
    ELSE Max2(r.released, AmountReuseAvailableAt(r))

(* The time from which the slot of row r lets its amount be reused, as     *)
(* allocateAmountSlot sees it at time now: an order that is due is expired *)
(* first, which releases its slot at now.                                  *)
SlotAvailableAt(r, now) ==
    IF r.checkout = "OPEN"
    THEN IF r.expires <= now THEN Max2(now, AmountReuseAvailableAt(r))
                             ELSE AmountReuseAvailableAt(r)
    ELSE Max2(r.released, AmountReuseAvailableAt(r))

(* Mutant: the latest slot is not looked at once no order is open.         *)
AmountIsFreeWhenNotOpen(a, amount, now) ==
    \A o \in SlotsAt(a, amount) :
        orders[o].checkout = "OPEN" => orders[o].expires <= now

AmountIsFree(a, amount, now) ==
    \A o \in SlotsAt(a, amount) :
        /\ orders[o].checkout = "OPEN" => orders[o].expires <= now
        /\ IsLatestSlot(o, a, amount) => SlotAvailableAt(orders[o], now) <= now

Offsets(q) == {d \in 1..MaxOffset : q.amount + d <= MaxPayable}

Exhausted(a, q, now) ==
    \A d \in Offsets(q) : ~AmountIsFree(a, q.amount + d, now)

(* allocateAmountSlot succeeds with the smallest free offset.              *)
Allocates(a, q, d, now) ==
    /\ d \in Offsets(q)
    /\ AmountIsFree(a, q.amount + d, now)
    /\ \A e \in Offsets(q) : e < d => ~AmountIsFree(a, q.amount + e, now)

(* The retry hint of "amount_slots_exhausted": the earliest time at which  *)
(* one of the amounts becomes free.                                        *)
EarliestAvailableAt(a, q, now) ==
    LET T == {SlotAvailableAt(orders[o], now) :
                 o \in {p \in DOMAIN orders :
                          \E d \in Offsets(q) : IsLatestSlot(p, a, q.amount + d)}}
    IN  CHOOSE t \in T : \A u \in T : t <= u

(* Mutant: generations are counted from zero.                              *)
NextGenerationFromZero(a, amount) == Cardinality(SlotsAt(a, amount))

NextGeneration(a, amount) ==
    IF SlotsAt(a, amount) = {} THEN 1
    ELSE orders[CHOOSE o \in SlotsAt(a, amount) : IsLatestSlot(o, a, amount)].generation + 1

(* The due orders allocateAmountSlot expires on its way: those at the      *)
(* amounts it looks at.                                                    *)
DueAmong(A, q, last, now) ==
    {o \in Due(now) : /\ orders[o].account \in A
                      /\ orders[o].payable - q.amount \in 1..last
                      /\ orders[o].payable <= MaxPayable}

-----------------------------------------------------------------------------
(* createOrder.                                                            *)

(* Mutant: only open orders are looked up by idempotency key.              *)
SameKeyOpenOnly(q) == {o \in DOMAIN orders : /\ orders[o].request.site = q.site
                                             /\ orders[o].request.key = q.key
                                             /\ orders[o].checkout = "OPEN"}

SameKey(q) == {o \in DOMAIN orders : /\ orders[o].request.site = q.site
                                     /\ orders[o].request.key = q.key}

SameMerchantOrder(q) ==
    {o \in DOMAIN orders : /\ orders[o].request.site = q.site
                           /\ orders[o].request.merchant = q.merchant}

Pending(s, now) == {o \in DOMAIN orders : /\ orders[o].request.site = s
                                          /\ orders[o].checkout = "OPEN"
                                          /\ orders[o].payment = "UNPAID"
                                          /\ orders[o].expires > now}

(* assertSiteCanCreate.  A paused site, or one whose configuration changed *)
(* since the handler read it, throws as well: such a request does nothing. *)
SiteCanCreate(s, now) ==
    Cardinality(Pending(s, now)) < PendingLimit

(* readOrRotateActiveCheckoutTokenKey: a key that is too old is retired    *)
(* and a new version is activated.                                         *)
KeysInForce(now) ==
    IF now - tokenKeys[Len(tokenKeys)] < KeyRotation THEN tokenKeys
                                                     ELSE Append(tokenKeys, now)

NewRow(q, a, d, ttl, cooldown, now) ==
    [request    |-> q,
     account    |-> a,
     payable    |-> q.amount + d,
     generation |-> NextGeneration(a, q.amount + d),
     cooldown   |-> cooldown,
     created    |-> now,
     expires    |-> now + ttl,
     closed     |-> NoTime,
     released   |-> NoTime,
     updated    |-> now,
     tokenKey   |-> Len(KeysInForce(now)),
     checkout   |-> "OPEN",
     payment    |-> "UNPAID",
     basis      |-> "NONE",
     received   |-> NoAmount,
     version    |-> 1]

(* The idempotency key is known: the order it made is expired if it is due *)
(* and the answer is "existing" or, when the fingerprints differ,          *)
(* "idempotency_conflict".  Neither changes anything else.                 *)
ReplayOrder(q, sweep, now) ==
    /\ SameKey(q) # {}
    /\ Expire(sweep \cup (SameKey(q) \cap Due(now)), now)
    /\ UNCHANGED tokenKeys

(* A new key that the transaction answers without an order: the webhook    *)
(* target or the return URL is rejected by the site's current policy, or   *)
(* the merchant order number is taken.                                     *)
RefuseOrder(q, sweep, now) ==
    /\ SameKey(q) = {}
    /\ SiteCanCreate(q.site, now)
    /\ Expire(sweep, now)
    /\ UNCHANGED tokenKeys

(* Every candidate account is out of amounts: "amount_slots_exhausted".    *)
ExhaustOrder(q, sweep, now) ==
    /\ SameKey(q) = {}
    /\ SiteCanCreate(q.site, now)
    /\ SameMerchantOrder(q) = {}
    /\ \E A \in SUBSET Accounts \ {{}} :
          /\ \A a \in A : Exhausted(a, q, now)
          /\ Expire(sweep \cup DueAmong(A, q, MaxOffset, now), now)
    /\ UNCHANGED tokenKeys

(* The order is inserted at the smallest free amount of account a, after   *)
(* the candidate accounts `tried' (collectionCandidates draws a random     *)
(* order of them) turned out to be exhausted.                              *)
InsertAt(o, q, a, d, ttl, cooldown, tried, sweep, now) ==
    /\ \A b \in tried : Exhausted(b, q, now)
    /\ Allocates(a, q, d, now)
    /\ LET S == sweep \cup DueAmong(tried, q, MaxOffset, now)
                      \cup DueAmong({a}, q, d, now)
       IN  /\ orders' = [x \in DOMAIN orders \cup {o} |->
                           IF x = o THEN NewRow(q, a, d, ttl, cooldown, now)
                                    ELSE WithExpired(S, now)[x]]
           /\ events' = [x \in DOMAIN orders \cup {o} |->
                           IF x = o THEN <<[type |-> "CREATED", at |-> now]>>
                                    ELSE WithExpiryEvents(S, now)[x]]

InsertOrder(o, q, sweep, now) ==
    /\ SameKey(q) = {}
    /\ SiteCanCreate(q.site, now)
    /\ SameMerchantOrder(q) = {}
    /\ \E a \in Accounts, ttl \in Ttls, cooldown \in Cooldowns, d \in 1..MaxOffset,
          tried \in SUBSET Accounts :
          a \notin tried /\ InsertAt(o, q, a, d, ttl, cooldown, tried, sweep, now)
    /\ tokenKeys' = KeysInForce(now)

CreateOrder(q) ==
    /\ AdvanceClock
    /\ \E sweep \in Sweeps(LogicalNow) :
          \/ ReplayOrder(q, sweep, LogicalNow)
          \/ RefuseOrder(q, sweep, LogicalNow)
          \/ ExhaustOrder(q, sweep, LogicalNow)
          \/ \E o \in Orders \ DOMAIN orders : InsertOrder(o, q, sweep, LogicalNow)
    /\ UNCHANGED <<physical, gone>>

-----------------------------------------------------------------------------
(* Reads that expire what they find due.                                   *)

(* orderById, orderByMerchantOrderNumber, adminOrderById,                  *)
(* adminOrderByMerchantOrderNumber.                                        *)
ReadOrder(o) ==
    /\ AdvanceClock
    /\ Expire({o} \cap Due(LogicalNow), LogicalNow)
    /\ UNCHANGED <<physical, tokenKeys, gone>>

(* adminOrderPage: a sweep, then the due orders among those on the page.   *)
AdminOrderPage ==
    /\ AdvanceClock
    /\ \E sweep \in Sweeps(LogicalNow), page \in SUBSET Due(LogicalNow) :
          Expire(sweep \cup page, LogicalNow)
    /\ UNCHANGED <<physical, tokenKeys, gone>>

ClosedRow(r, now) == [r EXCEPT !.checkout = "CLOSED",
                               !.closed   = now,
                               !.released = now,
                               !.updated  = now,
                               !.version  = @ + 1]

(* Mutant: closing does not look at the expiry first.                      *)
CloseOrderIgnoringExpiry(o) ==
    /\ AdvanceClock
    /\ orders[o].checkout = "OPEN"
    /\ orders' = [orders EXCEPT ![o] = ClosedRow(@, LogicalNow)]
    /\ events' = [events EXCEPT ![o] =
                    Append(@, [type |-> "CHECKOUT_CLOSED", at |-> LogicalNow])]
    /\ UNCHANGED <<physical, tokenKeys, gone>>

CloseOrder(o) ==
    /\ AdvanceClock
    /\ IF orders[o].checkout = "OPEN" /\ orders[o].expires > LogicalNow
       THEN /\ orders' = [orders EXCEPT ![o] = ClosedRow(@, LogicalNow)]
            /\ events' = [events EXCEPT ![o] =
                            Append(@, [type |-> "CHECKOUT_CLOSED", at |-> LogicalNow])]
       ELSE Expire({o} \cap Due(LogicalNow), LogicalNow)
    /\ UNCHANGED <<physical, tokenKeys, gone>>

-----------------------------------------------------------------------------
(* The public checkout link.                                               *)

IsTerminalCheckoutObservable(r, now) == now - EndedAt(r) < Observation

(* publicCheckoutByTokenDigest first looks without writing.  It answers    *)
(* "not found" at once when the persisted clock alone is past the window.  *)
LinkIsMissing(r) == /\ r.checkout # "OPEN"
                    /\ ~IsTerminalCheckoutObservable(r, clock)

(* What the read transaction can answer without a write transaction.       *)
LinkIsCurrent(r) ==
    /\ ~LinkIsMissing(r)
    /\ ClockIsUsable
    /\ IF r.checkout = "OPEN" THEN r.expires > LogicalNow
                              ELSE IsTerminalCheckoutObservable(r, LogicalNow)

(* Mutant: the terminal answer is given from the read transaction, without *)
(* advancing the persisted clock.                                          *)
PublicCheckoutReadOnly(o) ==
    /\ gone' = IF LinkIsCurrent(orders[o]) \/ (~LinkIsMissing(orders[o]) /\ ~ClockIsUsable)
               THEN gone ELSE gone \cup {o}
    /\ UNCHANGED <<physical, clock, orders, events, tokenKeys>>

PublicCheckout(o) ==
    \/ /\ LinkIsMissing(orders[o])
       /\ gone' = gone \cup {o}
       /\ UNCHANGED <<physical, clock, orders, events, tokenKeys>>
    \/ /\ ~LinkIsMissing(orders[o])
       /\ ~LinkIsCurrent(orders[o])
       /\ AdvanceClock
       /\ Expire({o} \cap Due(LogicalNow), LogicalNow)
       /\ gone' = IF \/ orders'[o].checkout = "OPEN"
                     \/ IsTerminalCheckoutObservable(orders'[o], LogicalNow)
                  THEN gone ELSE gone \cup {o}
       /\ UNCHANGED <<physical, tokenKeys>>

-----------------------------------------------------------------------------
(* The environment: wall time passes, and may be set back.                 *)

Tick == /\ physical < MaxTime
        /\ physical' = physical + 1
        /\ UNCHANGED <<clock, orders, events, tokenKeys, gone>>

SetBack == /\ physical' \in {t \in 0..MaxTime : t < physical}
           /\ UNCHANGED <<clock, orders, events, tokenKeys, gone>>

-----------------------------------------------------------------------------
Init ==
    /\ physical = 0
    /\ clock = 0
    /\ orders = [o \in {} |-> {}]
    /\ events = [o \in {} |-> <<>>]
    /\ tokenKeys = <<0>>
    /\ gone = {}

Next ==
    \/ \E q \in Requests : CreateOrder(q)
    \/ \E o \in DOMAIN orders : ReadOrder(o) \/ CloseOrder(o) \/ PublicCheckout(o)
    \/ AdminOrderPage
    \/ Tick
    \/ SetBack

Spec == Init /\ [][Next]_vars

-----------------------------------------------------------------------------
(* Properties.                                                             *)

TypeOK ==
    /\ physical \in Nat
    /\ clock \in Nat
    /\ DOMAIN orders \subseteq Orders
    /\ \A o \in DOMAIN orders : orders[o] \in Row
    /\ DOMAIN events = DOMAIN orders
    /\ \A o \in DOMAIN events : events[o] \in Seq(Event)
    /\ tokenKeys \in Seq(Nat) /\ Len(tokenKeys) >= 1
    /\ gone \subseteq DOMAIN orders

(* Two orders that ask one account for the same amount are told apart by   *)
(* time: the later one begins only when the earlier one has ended and its  *)
(* cooldown has passed, whatever the order of sweeps, reads, closes and    *)
(* clock changes (allocateAmountSlot and the slot triggers).               *)
PaymentWindowsSeparated ==
    \A o, p \in DOMAIN orders :
        /\ o # p
        /\ orders[o].account = orders[p].account
        /\ orders[o].payable = orders[p].payable
        => /\ orders[o].generation # orders[p].generation
           /\ orders[o].generation < orders[p].generation
                => /\ orders[o].checkout # "OPEN"
                   /\ AmountReuseAvailableAt(orders[o]) <= orders[p].created

(* The end of a checkout is recorded consistently with its expiry: a       *)
(* checkout is closed only before it expires and expires only after, and   *)
(* its slot is released at that very time (the CHECKs of payment_orders    *)
(* and amount_slots, which would abort the transaction otherwise).         *)
EndTimesConsistent ==
    \A o \in DOMAIN orders :
        LET r == orders[o]
        IN  /\ r.created < r.expires
            /\ r.released = r.closed
            /\ r.checkout = "OPEN"    => r.closed = NoTime
            /\ r.checkout = "CLOSED"  => r.created <= r.closed /\ r.closed < r.expires
            /\ r.checkout = "EXPIRED" => r.expires <= r.closed

(* A merchant that repeats a request, or reuses its order number, never    *)
(* gets a second order, also when the first one has ended.                 *)
OneOrderPerRequest ==
    \A o, p \in DOMAIN orders :
        /\ orders[o].request.site = orders[p].request.site
        /\ \/ orders[o].request.key = orders[p].request.key
           \/ orders[o].request.merchant = orders[p].request.merchant
        => o = p

(* The comment at order-store.ts:875: once a link has been answered "not   *)
(* found", no later change of the system clock revives it.                 *)
LinkNotRevived == \A o \in gone : LinkIsMissing(orders[o])

(* The retry hint of an exhausted allocation is exact: at that time, and   *)
(* not before, the allocation succeeds if nobody else acts.                *)
RetryHintExact ==
    \A a \in Accounts, q \in Requests :
        Exhausted(a, q, clock) =>
            LET h == EarliestAvailableAt(a, q, clock)
            IN  /\ h > clock
                /\ ~Exhausted(a, q, h)
                /\ \A t \in clock..(h - 1) : Exhausted(a, q, t)

(* A step never moves the reuse of an amount to a later time: closing can  *)
(* only bring it forward, and a delayed sweep does not restart the         *)
(* cooldown (the comment at order-store.ts:998).                           *)
CooldownNeverRestarts ==
    [][\A o \in DOMAIN orders :
          AmountReuseAvailableAt(orders'[o]) <= AmountReuseAvailableAt(orders[o])]_vars

(* What the triggers of payment_orders and order_clock demand of every     *)
(* update: rows stay, their request and collection snapshot is immutable,  *)
(* an ended checkout stays as it is, versions step by one, times do not go *)
(* back.  So no transaction of the store is aborted by them.               *)
Snapshot(r) == <<r.request, r.account, r.payable, r.generation, r.cooldown,
                 r.created, r.expires, r.tokenKey>>

TriggersAccept(r, s) ==
    /\ Snapshot(r) = Snapshot(s)
    /\ r # s => s.version = r.version + 1 /\ s.updated >= r.updated
    /\ s.checkout # r.checkout =>
          r.checkout = "OPEN" /\ r.closed = NoTime /\ s.closed = s.updated
    /\ s.checkout = r.checkout => s.closed = r.closed

UpdatesAccepted ==
    [][/\ clock' >= clock
       /\ \A o \in DOMAIN orders : /\ o \in DOMAIN orders'
                                   /\ TriggersAccept(orders[o], orders'[o])]_vars

=============================================================================
