---------------------------- MODULE StartupCheck ----------------------------
(***************************************************************************)
(* What src/src/database/database.ts asks of the order and money tables    *)
(* before the application may open them: countOrderDomainViolations and    *)
(* countReconciliationDomainViolations.  One violation is enough to refuse *)
(* the database (assertDatabaseIntegrity), at every start, before every    *)
(* migration and for every backup that is made or restored.  Each          *)
(* definition is one of their queries, turned around: the rows it selects  *)
(* do not exist.                                                           *)
(*                                                                         *)
(* Columns that the model keeps in one place (a slot and its order, an     *)
(* event and the transaction that wrote it) agree by construction and are  *)
(* left out; refunds have no operation in this version of the program.     *)
(***************************************************************************)
EXTENDS Reconciliation

-----------------------------------------------------------------------------
(* countOrderDomainViolations                                              *)

SlotReleasedAt(r) == r.released

SlotsAccepted ==
    /\ \A o \in DOMAIN orders :
          orders[o].released = IF orders[o].checkout = "OPEN" THEN NoTime ELSE orders[o].closed
    /\ \A o \in DOMAIN orders :
          LET peers == SlotsAt(orders[o].account, orders[o].payable)
              before == {p \in peers : orders[p].generation < orders[o].generation}
          IN  /\ orders[o].generation = Cardinality(before) + 1
              /\ \A p \in before : /\ SlotReleasedAt(orders[p]) # NoTime
                                   /\ SlotReleasedAt(orders[p]) <= orders[o].created

OrderEventsAccepted == \A o \in DOMAIN orders : Len(events[o]) = orders[o].version

-----------------------------------------------------------------------------
(* countReconciliationDomainViolations                                     *)

DecisionKey(p) == IF candidates[p] = "SELECTED" THEN AutoKey(p[1], p[2])
                                                ELSE SupersedeKey(p[1], p[2])

(* The candidates that are decided name the decision, the others do not.   *)
CandidateDecided(p) ==
    /\ candidates[p] = "ELIGIBLE" =>
          {AutoKey(p[1], p[2]), SupersedeKey(p[1], p[2])} \cap DOMAIN operations = {}
    /\ candidates[p] # "ELIGIBLE" =>
          /\ DecisionKey(p) \in DOMAIN operations
          /\ operations[DecisionKey(p)].entry = p[1]
          /\ operations[DecisionKey(p)].order = p[2]
          /\ operations[DecisionKey(p)].type = IF candidates[p] = "SELECTED"
                                               THEN "AUTO_SETTLEMENT"
                                               ELSE "SUPERSEDE_CANDIDATE"

CandidateInWindow(s, r) ==
    /\ s.account = r.account /\ s.direction = "CREDIT" /\ s.amount = r.payable
    /\ s.occurred + Precision > r.created
    /\ s.occurred < r.expires

CandidateBeforeRelease(s, r) == r.released = NoTime \/ s.occurred < r.released

MatchAccepted(m) ==
    /\ m.entry \in DOMAIN entries /\ m.order \in DOMAIN orders
    /\ m.operation \in DOMAIN operations
    /\ operations[m.operation].entry = m.entry
    /\ operations[m.operation].order = m.order
    /\ operations[m.operation].type = IF m.evidence = "MANUAL" THEN "MANUAL_SETTLEMENT"
                                                               ELSE "AUTO_SETTLEMENT"
    /\ m.evidence = "AMOUNT_INFERRED" => <<m.entry, m.order>> \in DOMAIN candidates
    /\ m.status = "SETTLED" =>
          /\ entries[m.entry].state = "ALLOCATED"
          /\ orders[m.order].payment = "CONFIRMED"
          /\ orders[m.order].basis \in {"INFERRED", "MANUAL"}
          /\ orders[m.order].received = entries[m.entry].report.amount
          /\ operations[m.resolution].type \in {"AUTO_SETTLEMENT", "MANUAL_SETTLEMENT"}
          /\ m.evidence = "AMOUNT_INFERRED" => candidates[<<m.entry, m.order>>] = "SELECTED"
    /\ m.status = "REVERSED" =>
          /\ operations[m.resolution].type = "REVERSE_SETTLEMENT"
          /\ entries[m.entry].state = "CONFLICT" \/ ActiveMatches(m.entry) # {}
          /\ orders[m.order].payment = "DISPUTED"

MatchEventsOf(m) == {i \in DOMAIN matchEvents : matchEvents[i].operation = m.operation}

MatchEventsAccepted ==
    \A m \in matches :
        /\ Cardinality(MatchEventsOf(m)) = IF m.status = "SETTLED" THEN 1 ELSE 2
        /\ \E first \in MatchEventsOf(m) :
              /\ \A i \in MatchEventsOf(m) : first <= i
              /\ matchEvents[first].status = "SETTLED"

SettledEarlier(n, m) ==
    \E i, j \in DOMAIN matchEvents :
        /\ i < j
        /\ matchEvents[i] = [operation |-> n.operation, status |-> "SETTLED"]
        /\ matchEvents[j] = [operation |-> m.operation, status |-> "SETTLED"]

(* An automatic settlement never followed the settlement of another order  *)
(* the movement could have paid just as well.                              *)
NoHistoricalOverlap ==
    \A m, n \in matches :
        ~ /\ m # n
          /\ m.evidence = "AMOUNT_INFERRED"
          /\ SettledEarlier(n, m)
          /\ n.order \in SettledOverlap(entries[m.entry].report)

EffectiveStatesAgree ==
    /\ \A e \in DOMAIN entries :
          /\ entries[e].state = "ALLOCATED" => Cardinality(ActiveMatches(e)) = 1
          /\ entries[e].state \in {"UNALLOCATED", "CONFLICT"} => ActiveMatches(e) = {}
          /\ entries[e].state = "CANDIDATE" =>
                ActiveMatches(e) # {} \/ Cardinality(EligibleOf(e)) >= 2
    /\ \A o \in DOMAIN orders :
          IF orders[o].payment = "CONFIRMED" THEN Cardinality(ActiveMatchesOfOrder(o)) = 1
                                             ELSE ActiveMatchesOfOrder(o) = {}

PostingAccepted(x) ==
    /\ x.operation \in DOMAIN operations
    /\ operations[x.operation].order = x.order
    /\ operations[x.operation].entry = x.entry
    /\ operations[x.operation].type \in IF x.type = "SETTLEMENT"
                                        THEN {"AUTO_SETTLEMENT", "MANUAL_SETTLEMENT"}
                                        ELSE {"REVERSE_SETTLEMENT"}
    /\ entries[x.entry].report.direction = "CREDIT"
    /\ x.amount = entries[x.entry].report.amount

One(S) == Cardinality(S) = 1

OperationAccepted(k) ==
    LET type == operations[k].type
        decided == {p \in DOMAIN candidates : candidates[p] # "ELIGIBLE" /\ DecisionKey(p) = k}
    IN  /\ type \in {"AUTO_SETTLEMENT", "SUPERSEDE_CANDIDATE"} => One(decided)
        /\ type \in {"AUTO_SETTLEMENT", "MANUAL_SETTLEMENT"} =>
              One({m \in matches : m.operation = k})
        /\ type = "REVERSE_SETTLEMENT" => One({m \in matches : m.resolution = k})
        /\ type # "SUPERSEDE_CANDIDATE" => /\ One({x \in journal : x.operation = k})
                                           /\ One({x \in outbox : x.operation = k})

(* The payment events of an order and the operations correspond one to     *)
(* one, through the outbox event that carries the event's version.         *)
PaymentEventType(type) == IF type = "REVERSE_SETTLEMENT" THEN "PAYMENT_DISPUTED"
                                                         ELSE "PAYMENT_CONFIRMED"

PaymentEventsAccepted ==
    /\ \A o \in DOMAIN orders : \A i \in DOMAIN events[o] :
          events[o][i].type \in {"PAYMENT_CONFIRMED", "PAYMENT_DISPUTED"} =>
             One({x \in outbox : /\ x.order = o /\ x.version = i
                                 /\ x.type = events[o][i].type
                                 /\ x.type = PaymentEventType(operations[x.operation].type)})
    /\ \A k \in DOMAIN operations :
          LET o == operations[k].order
          IN  operations[k].type # "SUPERSEDE_CANDIDATE" =>
                 One({i \in DOMAIN events[o] :
                         /\ events[o][i].type = PaymentEventType(operations[k].type)
                         /\ \E x \in outbox : x.operation = k /\ x.version = i})

(* A resolved issue names the settlement that resolved it: one of its own  *)
(* entry, and of its own order unless that settlement superseded it.       *)
ExceptionAccepted(x) ==
    x.status = "RESOLVED" =>
        /\ x.by \in DOMAIN operations
        /\ operations[x.by].type \in {"AUTO_SETTLEMENT", "MANUAL_SETTLEMENT"}
        /\ operations[x.by].entry = x.entry
        /\ x.order \in {NoOrder, operations[x.by].order}
           \/ \E m \in matches : /\ m.operation = x.by /\ m.entry = x.entry
                                 /\ m.order = operations[x.by].order

OutboxAccepted(x) == /\ x.order \in DOMAIN orders
                     /\ x.operation \in DOMAIN operations
                     /\ operations[x.operation].order = x.order

-----------------------------------------------------------------------------
(* Properties.                                                             *)

(* Whatever the merchant, the provider, the administrator and the clock    *)
(* do, no startup query but one selects a row of the database the program  *)
(* leaves behind.  The one is the query on the candidate rows              *)
(* (database.ts:1957), taken here without its last condition on the        *)
(* release of the slot: CandidatesStayAcceptable is about that condition,  *)
(* which a clock that is set back breaks.                                  *)
StartupAccepts ==
    /\ SlotsAccepted
    /\ OrderEventsAccepted
    /\ \A p \in DOMAIN candidates :
          /\ CandidateInWindow(entries[p[1]].report, orders[p[2]])
          /\ CandidateDecided(p)
    /\ \A m \in matches : MatchAccepted(m)
    /\ MatchEventsAccepted
    /\ NoHistoricalOverlap
    /\ EffectiveStatesAgree
    /\ \A x \in journal : PostingAccepted(x)
    /\ \A k \in DOMAIN operations : OperationAccepted(k)
    /\ PaymentEventsAccepted
    /\ \A x \in exceptions : ExceptionAccepted(x)
    /\ \A x \in outbox : OutboxAccepted(x)

(* The rest of the query on the candidate rows: the slot was not released  *)
(* before the movement a candidate pairs it with.                          *)
CandidatesStayAcceptable ==
    \A p \in DOMAIN candidates :
        CandidateBeforeRelease(entries[p[1]].report, orders[p[2]])

=============================================================================
