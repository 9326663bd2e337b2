--------------------------- MODULE Reconciliation ---------------------------
(***************************************************************************)
(* Matching the provider's ledger with the orders:                         *)
(* src/src/reconciliation/store.ts on top of the order store.              *)
(*                                                                         *)
(* A ledger entry is one movement on an Alipay account.  A credit whose    *)
(* amount equals the payable amount of exactly one unpaid order, and that  *)
(* occurred while that order asked for it, settles the order by itself;    *)
(* everything else becomes a financial exception for an administrator, who *)
(* may settle an order with an entry by hand and may reverse a settlement. *)
(* A settlement writes the order, the entry, the match, a double-entry     *)
(* journal and an outbox event in one transaction, so each public method   *)
(* is one action.                                                          *)
(***************************************************************************)
EXTENDS OrderStore, FiniteSetsExt

CONSTANTS
    Entries,          \* ledger entry identifiers
    Statements,       \* what the provider may report
    Decisions,        \* financial operation identifiers chosen by administrators
    Precision,        \* occurred_at_precision_ms of the reported times
    SafetyLag,        \* safety lag: scans stay this far behind the wall clock
    LateAttribution,  \* MAX_LATE_PAYMENT_ATTRIBUTION_MILLISECONDS
    MaxConflicts,     \* bound: how many entries the provider contradicts, once each
    NoOrder,          \* the NULL of an order_id column
    NoEntry           \* no ledger entry

ASSUME LedgerAssumption ==
    /\ Precision \in Nat \ {0}
    /\ SafetyLag \in Nat \ {0}
    /\ LateAttribution \in Nat
    /\ MaxConflicts \in Nat
    /\ NoOrder \notin Orders
    /\ NoEntry \notin Entries
    /\ \A s \in Statements : /\ s.account \in Accounts
                             /\ s.amount \in Nat \ {0}
                             /\ s.occurred \in Nat
                             /\ s.direction \in {"CREDIT", "DEBIT"}
                             /\ s.sandbox \in BOOLEAN

VARIABLES
    entries,      \* ledger_entries, with the state of their ledger_conflicts
    candidates,   \* match_candidates: <<entry, order>> to status
    operations,   \* financial_operations by operation key
    matches,      \* payment_matches
    matchEvents,  \* payment_match_events, in event_sequence order
    journal,      \* ledger_transactions with their two postings
    exceptions,   \* financial_exceptions
    outbox        \* outbox_events

money == <<entries, candidates, operations, matches, matchEvents, journal, exceptions,
           outbox>>
rvars == <<vars, money>>

EntryStates == {"UNALLOCATED", "CANDIDATE", "ALLOCATED", "CONFLICT"}
PendingStates == {"UNALLOCATED", "CANDIDATE"}

Entry == [report   : Statements,
          state    : EntryStates,
          conflict : {"NONE", "OPEN", "RESOLVED"}]

(* operation_key: "admin:<id>", "auto-settlement:<candidate fingerprint>"  *)
(* and "supersede:<candidate>".                                            *)
AdminKey(d) == <<"admin", d>>
AutoKey(e, o) == <<"auto", e, o>>

(* Mutant: entry and order are swapped.                                    *)
SupersedeKeySwapped(e, o) == <<"supersede", o, e>>

SupersedeKey(e, o) == <<"supersede", e, o>>

Keys == {AdminKey(d) : d \in Decisions}
        \cup {AutoKey(e, o) : e \in Entries, o \in Orders}
        \cup {SupersedeKey(e, o) : e \in Entries, o \in Orders}

Operation == [type  : {"AUTO_SETTLEMENT", "MANUAL_SETTLEMENT",
                       "REVERSE_SETTLEMENT", "SUPERSEDE_CANDIDATE"},
              entry : Entries,
              order : Orders,
              match : Keys]      \* the match it is about, by its creating operation

Match == [entry     : Entries,
          order     : Orders,
          evidence  : {"AMOUNT_INFERRED", "MANUAL"},
          status    : {"SETTLED", "REVERSED"},
          operation : Keys,      \* created_by_operation_id
          resolution : Keys]     \* resolved_by_operation_id

MatchEvent == [operation : Keys, status : {"SETTLED", "REVERSED"}]

Posting == [operation : Keys,
            type      : {"SETTLEMENT", "REVERSAL"},
            entry     : Entries,
            order     : Orders,
            amount    : Nat]

ExceptionTypes == {"UNMATCHED_CREDIT", "DUPLICATE_PAYMENT", "CHECKOUT_ENDED_PAYMENT",
                   "AMOUNT_MISMATCH", "AMBIGUOUS_MATCH", "RECONCILIATION_CONFLICT"}

Exception == [type    : ExceptionTypes,
              entry   : Entries,
              order   : Orders \cup {NoOrder},
              context : Keys \cup {<<>>},
              round   : Nat,
              status  : {"OPEN", "RESOLVED"},
              by      : Keys \cup {<<>>}]   \* resolution_operation_id

OutboxEvent == [operation : Keys,
                order     : Orders,
                version   : Nat,
                type      : {"PAYMENT_CONFIRMED", "PAYMENT_DISPUTED"}]

-----------------------------------------------------------------------------
(* Facts read inside the transaction.                                      *)

(* Mutant: the end of the checkout is not part of the window.              *)
InWindowWithoutRelease(s, r) == /\ s.account = r.account
                                /\ s.occurred + Precision > r.created
                                /\ s.occurred < r.expires

(* The movement happened while row r asked for payments.  The provider     *)
(* truncates times to its precision, so the movement may be up to that     *)
(* much later than it says.                                                *)
InWindow(s, r) == /\ s.account = r.account
                  /\ s.occurred + Precision > r.created
                  /\ s.occurred < r.expires
                  /\ r.released = NoTime \/ s.occurred < r.released

SameAmountInWindow(s) ==
    {o \in DOMAIN orders : /\ orders[o].payable = s.amount
                           /\ InWindow(s, orders[o])}

(* readCandidateFacts                                                      *)
CandidateFacts(s) ==
    {o \in SameAmountInWindow(s) : orders[o].payment = "UNPAID"}

(* Mutant: a disputed order no longer counts.                              *)
SettledOverlapConfirmedOnly(s) ==
    {o \in SameAmountInWindow(s) : orders[o].payment = "CONFIRMED"}

(* readSettledOrderOverlap                                                 *)
SettledOverlap(s) ==
    {o \in SameAmountInWindow(s) : orders[o].payment \in {"CONFIRMED", "DISPUTED"}}

ActiveMatches(e) == {m \in matches : m.entry = e /\ m.status = "SETTLED"}
ActiveMatchesOfOrder(o) == {m \in matches : m.order = o /\ m.status = "SETTLED"}

EffectiveEnd(r) == IF r.released = NoTime THEN r.expires ELSE Min2(r.expires, r.released)

(* The orders of that amount that ended shortly before the movement.       *)
EndedShortlyBefore(s) ==
    {o \in DOMAIN orders : /\ orders[o].account = s.account
                           /\ orders[o].payable = s.amount
                           /\ s.occurred >= EffectiveEnd(orders[o])
                           /\ s.occurred - EffectiveEnd(orders[o]) <= LateAttribution}

PossiblyMistyped(s) ==
    {o \in DOMAIN orders : /\ orders[o].payable # s.amount
                           /\ orders[o].payment = "UNPAID"
                           /\ InWindow(s, orders[o])}

OnlyOf(S) == IF Cardinality(S) = 1 THEN CHOOSE o \in S : TRUE ELSE NoOrder

(* duplicatePaymentClassification and classifyUnmatchedCredit.  An         *)
(* unmatched credit has never been matched (SettlementsAgree and           *)
(* IssuesTrackEntries), so its context is always "initial".                *)
Classification(s) ==
    CASE SettledOverlap(s) # {} ->
           [type |-> "DUPLICATE_PAYMENT", order |-> OnlyOf(SettledOverlap(s))]
      [] SettledOverlap(s) = {} /\ Cardinality(EndedShortlyBefore(s)) = 1 ->
           [type |-> "CHECKOUT_ENDED_PAYMENT", order |-> OnlyOf(EndedShortlyBefore(s))]
      [] /\ SettledOverlap(s) = {}
         /\ Cardinality(EndedShortlyBefore(s)) # 1
         /\ Cardinality(PossiblyMistyped(s)) = 1 ->
           [type |-> "AMOUNT_MISMATCH", order |-> OnlyOf(PossiblyMistyped(s))]
      [] OTHER -> [type |-> "UNMATCHED_CREDIT", order |-> NoOrder]

-----------------------------------------------------------------------------
(* Writes shared by the operations.                                        *)

(* ensureException: an open occurrence is reused; a resolved one stays and *)
(* a new round is opened.                                                  *)
EnsureException(e, type, order, context) ==
    LET same == {x \in exceptions : x.entry = e /\ x.type = type /\ x.order = order}
        first == {x \in same : x.context = context /\ x.round = 0}
        New(n) == [type |-> type, entry |-> e, order |-> order, context |-> context,
                   round |-> n, status |-> "OPEN", by |-> <<>>]
    IN  exceptions' =
          IF first = {} THEN exceptions \cup {New(0)}
          ELSE IF \E x \in first : x.status = "OPEN" THEN exceptions
          ELSE exceptions \cup {New(Cardinality(same) + 1)}

(* Mutant: the issues about another order stay open.                       *)
WithExceptionsResolvedOfOrder(key, e, o) ==
    {IF x.entry = e /\ x.status = "OPEN" /\ x.order \in {o, NoOrder}
     THEN [x EXCEPT !.status = "RESOLVED", !.by = key] ELSE x : x \in exceptions}

(* resolveEntryExceptions: the ones of this order as settled, the others   *)
(* as superseded by the settlement.                                        *)
WithExceptionsResolved(key, e, o) ==
    {IF x.entry = e /\ x.status = "OPEN"
     THEN [x EXCEPT !.status = "RESOLVED", !.by = key] ELSE x : x \in exceptions}

(* A table after rows were written to it.                                  *)
Over(written, table) ==
    [x \in DOMAIN written \cup DOMAIN table |->
        IF x \in DOMAIN written THEN written[x] ELSE table[x]]

EligibleOf(e) == {p \in DOMAIN candidates : p[1] = e /\ candidates[p] = "ELIGIBLE"}

(* supersedeStaleEligibleCandidates                                        *)
SupersedeOperations(stale) ==
    [k \in {SupersedeKey(p[1], p[2]) : p \in stale} |->
        [type |-> "SUPERSEDE_CANDIDATE", entry |-> k[2], order |-> k[3], match |-> k]]

OneOperation(key, type, e, o, match) ==
    [k \in {key} |-> [type |-> type, entry |-> e, order |-> o, match |-> match]]

(* updateOrderPayment                                                      *)
PaidRow(r, status, basis, amount, now) == [r EXCEPT !.payment  = status,
                                                    !.basis    = basis,
                                                    !.received = amount,
                                                    !.updated  = now,
                                                    !.version  = @ + 1]

(* Mutant: the event carries the version before the update.                *)
RecordPaymentStaleVersion(key, o, status, basis, amount, type, now) ==
    /\ orders' = [orders EXCEPT ![o] = PaidRow(@, status, basis, amount, now)]
    /\ events' = [events EXCEPT ![o] = Append(@, [type |-> type, at |-> now])]
    /\ outbox' = outbox \cup {[operation |-> key, order |-> o,
                               version |-> orders[o].version, type |-> type]}

(* updateOrderPayment, insertOrderEvent and insertOutboxEvent.             *)
RecordPayment(key, o, status, basis, amount, type, now) ==
    /\ orders' = [orders EXCEPT ![o] = PaidRow(@, status, basis, amount, now)]
    /\ events' = [events EXCEPT ![o] = Append(@, [type |-> type, at |-> now])]
    /\ outbox' = outbox \cup {[operation |-> key, order |-> o,
                               version |-> orders[o].version + 1, type |-> type]}

(* What both kinds of settlement write.                                    *)
WriteSettlement(key, e, o, evidence, basis, now) ==
    LET amount == entries[e].report.amount
    IN  /\ journal' = journal \cup {[operation |-> key, type |-> "SETTLEMENT",
                                     entry |-> e, order |-> o, amount |-> amount]}
        /\ matches' = matches \cup {[entry |-> e, order |-> o, evidence |-> evidence,
                                     status |-> "SETTLED", operation |-> key,
                                     resolution |-> key]}
        /\ matchEvents' = Append(matchEvents, [operation |-> key, status |-> "SETTLED"])
        /\ entries' = [entries EXCEPT ![e].state = "ALLOCATED"]
        /\ RecordPayment(key, o, "CONFIRMED", basis, amount, "PAYMENT_CONFIRMED", now)
        /\ exceptions' = WithExceptionsResolved(key, e, o)

KeepOrders == UNCHANGED <<orders, events>>

-----------------------------------------------------------------------------
(* reconcileEntry.                                                         *)

(* The cases that are answered at once: the clock is advanced, nothing     *)
(* else.  Sandbox entries are answered even before the clock.              *)
Ignored(e) == \/ entries[e].state \in {"CONFLICT", "ALLOCATED"}
              \/ entries[e].conflict = "OPEN"
              \/ entries[e].report.direction = "DEBIT"

(* ensureCandidate keeps the status of a candidate that exists.            *)
EligibleOrders(e) ==
    {o \in CandidateFacts(entries[e].report) :
        <<e, o>> \in DOMAIN candidates => candidates[<<e, o>>] = "ELIGIBLE"}

StaleCandidates(e) == {p \in EligibleOf(e) : p[2] \notin EligibleOrders(e)}

CandidatesNow(e) ==
    Over([p \in {e} \X EligibleOrders(e) |-> "ELIGIBLE"],
         Over([p \in StaleCandidates(e) |-> "SUPERSEDED"], candidates))

OperationsNow(e) == Over(SupersedeOperations(StaleCandidates(e)), operations)

LeaveUnmatched(e) ==
    LET s == entries[e].report
        c == Classification(s)
    IN  /\ \/ EligibleOrders(e) = {}
           \/ Cardinality(EligibleOrders(e)) = 1 /\ SettledOverlap(s) # {}
        /\ candidates' = CandidatesNow(e)
        /\ operations' = OperationsNow(e)
        /\ entries' = [entries EXCEPT ![e].state = "UNALLOCATED"]
        /\ EnsureException(e, c.type, c.order, <<>>)
        /\ KeepOrders
        /\ UNCHANGED <<matches, matchEvents, journal, outbox>>

LeaveAmbiguous(e) ==
    /\ Cardinality(EligibleOrders(e)) > 1
    /\ candidates' = CandidatesNow(e)
    /\ operations' = OperationsNow(e)
    /\ entries' = [entries EXCEPT ![e].state = "CANDIDATE"]
    /\ EnsureException(e, "AMBIGUOUS_MATCH", NoOrder, <<>>)
    /\ KeepOrders
    /\ UNCHANGED <<matches, matchEvents, journal, outbox>>

(* autoSettleCandidate, which reads its facts again and refuses if they    *)
(* changed or the operation key is in use.                                 *)
AutoSettle(e, o, now) ==
    /\ EligibleOrders(e) = {o}
    /\ SettledOverlap(entries[e].report) = {}
    /\ ActiveMatches(e) = {} /\ ActiveMatchesOfOrder(o) = {}
    /\ AutoKey(e, o) \notin DOMAIN operations
    /\ candidates' = [CandidatesNow(e) EXCEPT ![<<e, o>>] = "SELECTED"]
    /\ operations' = Over(OneOperation(AutoKey(e, o), "AUTO_SETTLEMENT", e, o, AutoKey(e, o)),
                          OperationsNow(e))
    /\ WriteSettlement(AutoKey(e, o), e, o, "AMOUNT_INFERRED", "INFERRED", now)

ReconcileEntry(e) ==
    /\ ~entries[e].report.sandbox
    /\ AdvanceClock
    /\ \/ Ignored(e) /\ KeepOrders /\ UNCHANGED money
       \/ ~Ignored(e) /\ LeaveUnmatched(e)
       \/ ~Ignored(e) /\ LeaveAmbiguous(e)
       \/ ~Ignored(e) /\ \E o \in DOMAIN orders : AutoSettle(e, o, LogicalNow)
    /\ UNCHANGED <<physical, tokenKeys, gone>>

-----------------------------------------------------------------------------
(* Decisions of an administrator.                                          *)

(* readDecisionReplay: the identifier was used for the same request.  With *)
(* any other request it throws.                                            *)
IsReplay(d, type, e, o, match) ==
    /\ AdminKey(d) \in DOMAIN operations
    /\ operations[AdminKey(d)] = [type |-> type, entry |-> e, order |-> o, match |-> match]

(* Mutant: whether the entry pays for another order is not looked at.      *)
CanSettleManuallyAnyState(e, o) ==
    /\ entries[e].report.direction = "CREDIT"
    /\ orders[o].payment = "UNPAID"
    /\ orders[o].account = entries[e].report.account

(* The amount and the time are up to the administrator.                    *)
CanSettleManually(e, o) ==
    /\ entries[e].report.direction = "CREDIT"
    /\ entries[e].state \in {"UNALLOCATED", "CANDIDATE", "CONFLICT"}
    /\ orders[o].payment = "UNPAID" /\ orders[o].basis = "NONE"
    /\ ActiveMatches(e) = {}
    /\ orders[o].account = entries[e].report.account

SettleManually(d, e, o) ==
    /\ AdvanceClock
    /\ \/ /\ IsReplay(d, "MANUAL_SETTLEMENT", e, o, AdminKey(d))
          /\ KeepOrders /\ UNCHANGED money
       \/ /\ AdminKey(d) \notin DOMAIN operations
          /\ CanSettleManually(e, o)
          /\ candidates' = Over([p \in EligibleOf(e) |-> "SUPERSEDED"], candidates)
          /\ operations' =
                Over(OneOperation(AdminKey(d), "MANUAL_SETTLEMENT", e, o, AdminKey(d)),
                     Over(SupersedeOperations(EligibleOf(e)), operations))
          /\ WriteSettlement(AdminKey(d), e, o, "MANUAL", "MANUAL", LogicalNow)
    /\ UNCHANGED <<physical, tokenKeys, gone>>

(* Mutant: the payable amount is booked back.                              *)
ReversedAmountPayable(r) == r.payable

ReversedAmount(r) == r.received

ReverseSettlement(d, m) ==
    LET o == m.order
        e == m.entry
        amount == orders[o].received
    IN  /\ AdvanceClock
        /\ \/ /\ IsReplay(d, "REVERSE_SETTLEMENT", e, o, m.operation)
              /\ KeepOrders /\ UNCHANGED money
           \/ /\ AdminKey(d) \notin DOMAIN operations
              /\ m.status = "SETTLED"
              /\ entries[e].state = "ALLOCATED"
              /\ orders[o].payment = "CONFIRMED"
              /\ operations' =
                    Over(OneOperation(AdminKey(d), "REVERSE_SETTLEMENT", e, o, m.operation),
                         operations)
              /\ journal' = journal \cup {[operation |-> AdminKey(d), type |-> "REVERSAL",
                                           entry |-> e, order |-> o,
                                           amount |-> ReversedAmount(orders[o])]}
              /\ matches' = (matches \ {m}) \cup
                              {[m EXCEPT !.status = "REVERSED", !.resolution = AdminKey(d)]}
              /\ matchEvents' = Append(matchEvents, [operation |-> m.operation,
                                                     status |-> "REVERSED"])
              /\ entries' = [entries EXCEPT ![e].state = "CONFLICT"]
              /\ RecordPayment(AdminKey(d), o, "DISPUTED", orders[o].basis, amount,
                               "PAYMENT_DISPUTED", LogicalNow)
              /\ EnsureException(e, "RECONCILIATION_CONFLICT", o, AdminKey(d))
              /\ UNCHANGED candidates
        /\ UNCHANGED <<physical, tokenKeys, gone>>

-----------------------------------------------------------------------------
(* The ledger (src/src/ledger/store.ts) as far as matching depends on it.  *)

(* A new movement is normalised into an entry.  The windows that are asked *)
(* for end SafetyLag before the wall clock, and a page with a movement     *)
(* outside its window is refused.                                          *)
RecordEntry(e, s) ==
    /\ s.occurred + SafetyLag <= physical
    /\ entries' = [x \in DOMAIN entries \cup {e} |->
                     IF x = e THEN [report |-> s, state |-> "UNALLOCATED", conflict |-> "NONE"]
                              ELSE entries[x]]
    /\ UNCHANGED <<vars, candidates, operations, matches, matchEvents, journal, exceptions,
                   outbox>>

(* The provider reports an existing movement with other contents.          *)
FindConflict(e) ==
    /\ entries[e].conflict = "NONE"
    /\ Cardinality({x \in DOMAIN entries : entries[x].conflict # "NONE"}) < MaxConflicts
    /\ entries' = [entries EXCEPT ![e].conflict = "OPEN"]
    /\ UNCHANGED <<vars, candidates, operations, matches, matchEvents, journal, exceptions,
                   outbox>>

ResolveConflict(e) ==
    /\ entries[e].conflict = "OPEN"
    /\ entries' = [entries EXCEPT ![e].conflict = "RESOLVED"]
    /\ UNCHANGED <<vars, candidates, operations, matches, matchEvents, journal, exceptions,
                   outbox>>

-----------------------------------------------------------------------------
OrderStep == Next /\ UNCHANGED money

RInit == /\ Init
         /\ entries = [e \in {} |-> {}]
         /\ candidates = [p \in {} |-> {}]
         /\ operations = [k \in {} |-> {}]
         /\ matches = {}
         /\ matchEvents = <<>>
         /\ journal = {}
         /\ exceptions = {}
         /\ outbox = {}

RNext ==
    \/ OrderStep
    \/ \E e \in Entries \ DOMAIN entries, s \in Statements : RecordEntry(e, s)
    \/ \E e \in DOMAIN entries : ReconcileEntry(e) \/ FindConflict(e) \/ ResolveConflict(e)
    \/ \E d \in Decisions, e \in DOMAIN entries, o \in DOMAIN orders : SettleManually(d, e, o)
    \/ \E d \in Decisions, m \in matches : ReverseSettlement(d, m)

RSpec == RInit /\ [][RNext]_rvars

-----------------------------------------------------------------------------
(* Properties.                                                             *)

(* Orders, entries and matches tell the same story: an order is confirmed  *)
(* by exactly one settled match, an entry is allocated to exactly one, a   *)
(* disputed order had its only match reversed, and an unpaid order never   *)
(* had one.  So one payment never settles two orders, and an order is      *)
(* settled at most once in its life.                                       *)
SettlementsAgree ==
    /\ \A o \in DOMAIN orders :
          LET had == {m \in matches : m.order = o}
          IN  /\ orders[o].payment = "UNPAID" <=> had = {}
              /\ \A m, n \in had : m = n
              /\ orders[o].payment = "CONFIRMED" <=> ActiveMatchesOfOrder(o) # {}
              /\ orders[o].payment = "UNPAID" <=>
                    orders[o].basis = "NONE" /\ orders[o].received = NoAmount
    /\ \A e \in DOMAIN entries :
          /\ \A m, n \in ActiveMatches(e) : m = n
          /\ entries[e].state = "ALLOCATED" <=> ActiveMatches(e) # {}
          /\ entries[e].state = "CONFLICT" <=>
                ActiveMatches(e) = {} /\ \E m \in matches : m.entry = e

Total(P) == MapThenSumSet(LAMBDA p : p.amount, P)

Booked(P) == Total({p \in P : p.type = "SETTLEMENT"}) - Total({p \in P : p.type = "REVERSAL"})

(* The books agree with the orders and with the bank: what the journal     *)
(* holds for an order is what it received as long as it is confirmed and   *)
(* nothing otherwise, and what it holds against an entry is the amount of  *)
(* that movement as long as it is allocated; no operation is booked twice. *)
BooksBalance ==
    /\ \A o \in DOMAIN orders :
          Booked({p \in journal : p.order = o}) =
             IF orders[o].payment = "CONFIRMED" THEN orders[o].received ELSE 0
    /\ \A e \in DOMAIN entries :
          Booked({p \in journal : p.entry = e}) =
             IF entries[e].state = "ALLOCATED" THEN entries[e].report.amount ELSE 0
    /\ \A p, q \in journal : p.operation = q.operation => p = q
    /\ \A p \in journal : /\ p.operation \in DOMAIN operations
                          /\ operations[p.operation].entry = p.entry
                          /\ operations[p.operation].order = p.order

(* The issues shown to the administrator are the entries that need one:    *)
(* an allocated entry has no open issue, a pending one that was looked at  *)
(* has no closed one (so ensureException never starts a new round), an     *)
(* ambiguous one has its issue open, and a reversed one names the          *)
(* reversal.                                                               *)
IssuesTrackEntries ==
    \A e \in DOMAIN entries :
        LET issues == {x \in exceptions : x.entry = e}
            open == {x \in issues : x.status = "OPEN"}
        IN  /\ entries[e].state = "ALLOCATED" => open = {}
            /\ entries[e].state \in PendingStates => open = issues
            /\ entries[e].state = "CANDIDATE" => \E x \in open : x.type = "AMBIGUOUS_MATCH"
            /\ entries[e].state = "CONFLICT" =>
                 \E x \in open, m \in matches :
                     /\ x.type = "RECONCILIATION_CONFLICT" /\ x.order = m.order
                     /\ m.entry = e /\ m.resolution = x.context
            /\ \A x \in issues : x.round = 0

(* The outbox has exactly one event for every payment event of an order,   *)
(* with the version the order had then, so that a receiver can order the   *)
(* notifications it gets.                                                  *)
OutboxFollowsOrders ==
    \A o \in DOMAIN orders :
        LET sent == {x \in outbox : x.order = o}
        IN  /\ {<<x.version, x.type>> : x \in sent} =
                 {<<i, events[o][i].type>> :
                     i \in {j \in DOMAIN events[o] :
                              events[o][j].type \in {"PAYMENT_CONFIRMED", "PAYMENT_DISPUTED"}}}
            /\ \A x, y \in sent : x.version = y.version => x = y

(* With a cooldown at least as long as the provider's precision, no        *)
(* movement ever falls into the payment windows of two orders of its       *)
(* amount, however late it is reported and whatever ended in between.      *)
WindowsTellOrdersApart ==
    \A s \in Statements : \A o, p \in SameAmountInWindow(s) : o = p

(* An automatic settlement is never a guess: when it is made, its order is *)
(* the only one, paid or not, whose window the movement falls into, it     *)
(* asks for exactly that amount, and no evidence against the entry is      *)
(* pending (payment_matches_valid_insert).                                 *)
AutoSettlementUnambiguous ==
    [][\A m \in matches' \ matches :
          m.evidence = "AMOUNT_INFERRED" /\ m.status = "SETTLED" =>
             /\ SameAmountInWindow(entries[m.entry].report) = {m.order}
             /\ entries[m.entry].conflict # "OPEN"
             /\ \A n \in matches : n.order # m.order /\ n.entry # m.entry]_rvars

(* The abstract view: who was paid by what.                                *)
PaymentStatusOf(o) == IF o \in DOMAIN orders THEN orders[o].payment ELSE "ABSENT"

PaidBy(o) ==
    LET had == {m \in matches : m.order = o}
    IN  IF had = {} THEN NoEntry ELSE (CHOOSE m \in had : TRUE).entry

Lifecycle == INSTANCE PaymentLifecycle
             WITH status <- [o \in Orders |-> PaymentStatusOf(o)],
                  paidBy <- [o \in Orders |-> PaidBy(o)]

(* The store implements the payment lifecycle: whatever it does to         *)
(* candidates, exceptions, operations and expiries, seen from outside an   *)
(* order is opened, paid once by a payment no other order holds, and       *)
(* perhaps disputed.                                                       *)
ImplementsLifecycle == Lifecycle!LSpec

=============================================================================
