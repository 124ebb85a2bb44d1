----------------------------- MODULE WebhookPayments -----------------------------
(***************************************************************************)
(* The payment boundary: Razorpay captures payments and delivers signed    *)
(* events at least once; each delivery runs handleRazorpayWebhook, whose   *)
(* writes are one PostgreSQL transaction (packages/core-payments, the      *)
(* route under apps/web/app/api/webhooks/razorpay).                        *)
(*                                                                         *)
(* One action is one statement of the transaction.  Until it commits, its  *)
(* rows are seen by nobody, but their index entries and the lock on the    *)
(* order make others wait: such a statement is not enabled.  A delivery    *)
(* that fails the signature or the schema writes none of these tables and  *)
(* is not modelled here.                                                   *)
(***************************************************************************)
EXTENDS Naturals, FiniteSets

CONSTANTS
    Events,            \* X-Razorpay-Event-Id values
    Payments,          \* payment entity ids
    Orders,            \* Razorpay order ids
    Known,             \* those this system created
    Handlers,          \* request handlers, each with a pinned connection
    NoEvent,           \* a handler between requests
    NoPayment,         \* an event without a captured payment: recorded, ignored
    NoOrder,           \* no row
    PaymentOf(_),      \* the payment an event is about
    OrderOf(_),        \* the order the payment entity names
    EntitlementOf(_),  \* lower(customer_email) and product_slug of an order
    MaxFaults          \* bound: failed statements and lost answers

Entitlements == {EntitlementOf(o) : o \in Orders}

ASSUME KnownAssumption == Known \subseteq Orders
ASSUME PaymentOfAssumption == \A v \in Events : PaymentOf(v) \in Payments \cup {NoPayment}
ASSUME OrderOfAssumption == \A p \in Payments : OrderOf(p) \in Orders
ASSUME AbsenceAssumption ==
    NoEvent \notin Events /\ NoPayment \notin Payments /\ NoOrder \notin Orders
ASSUME MaxFaultsAssumption == MaxFaults \in Nat

VARIABLES
    captured,        \* payments Razorpay has captured
    acked,           \* events Razorpay has seen answered 200
    webhook_events,  \* committed rows, by razorpay_event_id
    payments,        \* committed CAPTURED rows, by razorpay_payment_id
    paid,            \* orders whose committed status is PAID
    entitlements,    \* committed rows: the order that paid for each
    meta_events,     \* committed Purchase rows, by the payment their id is made of
    pc,              \* the next statement of each handler
    event,           \* the event it handles
    wrote,           \* the rows its open transaction has inserted
    faults           \* faults so far

tables == <<webhook_events, payments, paid, entitlements, meta_events>>
vars == <<captured, acked, tables, pc, event, wrote, faults>>

PC == {"idle", "insert", "lock", "pay", "mark", "grant", "enqueue", "commit", "answer"}
Written == {"event", "payment", "paid", "entitlement", "purchase"}

\* Tables, and the transactions in flight, keep to their domains.
TypeOK ==
    /\ captured \subseteq Payments
    /\ acked \subseteq Events
    /\ webhook_events \subseteq Events
    /\ payments \subseteq Payments
    /\ paid \subseteq Orders
    /\ entitlements \in [Entitlements -> Orders \cup {NoOrder}]
    /\ meta_events \subseteq Payments
    /\ pc \in [Handlers -> PC]
    /\ event \in [Handlers -> Events \cup {NoEvent}]
    /\ wrote \in [Handlers -> SUBSET Written]
    /\ faults \in 0..MaxFaults

Init ==
    /\ captured = {}
    /\ acked = {}
    /\ webhook_events = {}
    /\ payments = {}
    /\ paid = {}
    /\ entitlements = [k \in Entitlements |-> NoOrder]
    /\ meta_events = {}
    /\ pc = [h \in Handlers |-> "idle"]
    /\ event = [h \in Handlers |-> NoEvent]
    /\ wrote = [h \in Handlers |-> {}]
    /\ faults = 0

--------------------------------------------------------------------------
(* Razorpay.                                                               *)

\* External: Razorpay may capture several payments of one order.
Capture(p) ==
    /\ p \notin captured
    /\ captured' = captured \cup {p}
    /\ UNCHANGED <<acked, tables, pc, event, wrote, faults>>

\* External: an event is delivered, again and again, after its payment was
\* captured; an answered one may still arrive twice.
Deliver(h, v) ==
    /\ pc[h] = "idle"
    /\ PaymentOf(v) \in captured \cup {NoPayment}
    /\ event' = [event EXCEPT ![h] = v]
    /\ pc' = [pc EXCEPT ![h] = "insert"]
    /\ UNCHANGED <<captured, acked, tables, wrote, faults>>

--------------------------------------------------------------------------
(* The transaction.                                                        *)

PaymentIn(h) == PaymentOf(event[h])
OrderIn(h) == OrderOf(PaymentIn(h))
EntitlementIn(h) == EntitlementOf(OrderIn(h))

\* Another open transaction has inserted the same index entry.
Contended(h, row, Key(_)) == \E g \in Handlers \ {h} : row \in wrote[g] /\ Key(g) = Key(h)

\* FOR UPDATE keeps the order's row locked until the transaction ends.
OrderLocked(o) == \E g \in Handlers : /\ pc[g] \in {"pay", "mark", "grant", "enqueue", "commit"}
                                      /\ "event" \in wrote[g]
                                      /\ PaymentIn(g) # NoPayment
                                      /\ OrderIn(g) = o

Advance(h, to, rows) ==
    /\ pc' = [pc EXCEPT ![h] = to]
    /\ wrote' = [wrote EXCEPT ![h] = @ \cup rows]
    /\ UNCHANGED <<captured, acked, tables, event, faults>>

\* Mutant: the event row is inserted outside the transaction and survives it.
RollbackKeepsEvent(h) ==
    /\ pc' = [pc EXCEPT ![h] = "idle"]
    /\ event' = [event EXCEPT ![h] = NoEvent]
    /\ wrote' = [wrote EXCEPT ![h] = {}]
    /\ webhook_events' = webhook_events \cup (IF "event" \in wrote[h] THEN {event[h]} ELSE {})
    /\ UNCHANGED <<captured, acked, payments, paid, entitlements, meta_events>>

\* The exception leaves the handler: ROLLBACK, and a 500 to Razorpay.
Rollback(h) ==
    /\ pc' = [pc EXCEPT ![h] = "idle"]
    /\ event' = [event EXCEPT ![h] = NoEvent]
    /\ wrote' = [wrote EXCEPT ![h] = {}]
    /\ UNCHANGED <<captured, acked, tables>>

\* Mutant: a delivery still in progress elsewhere counts as a duplicate.
InsertWebhookEventEager(h) ==
    /\ pc[h] = "insert"
    /\ IF event[h] \in webhook_events \/ Contended(h, "event", LAMBDA g : event[g])
       THEN Advance(h, "commit", {})
       ELSE Advance(h, IF PaymentIn(h) = NoPayment THEN "commit" ELSE "lock", {"event"})

\* insertWebhookEvent: the unique index decides, and no row means duplicate.
InsertWebhookEvent(h) ==
    /\ pc[h] = "insert"
    /\ ~Contended(h, "event", LAMBDA g : event[g])
    /\ IF event[h] \in webhook_events
       THEN Advance(h, "commit", {})
       ELSE Advance(h, IF PaymentIn(h) = NoPayment THEN "commit" ELSE "lock", {"event"})

\* findOrderByRazorpayOrderId ... FOR UPDATE; an unknown order is an error.
FindOrder(h) ==
    /\ pc[h] = "lock"
    /\ IF OrderIn(h) \in Known
       THEN ~OrderLocked(OrderIn(h)) /\ Advance(h, "pay", {})
       ELSE Rollback(h) /\ UNCHANGED faults

PaymentsFor(o) == {p \in payments : OrderOf(p) = o}
PurchasesFor(o) == {p \in meta_events : OrderOf(p) = o}

\* What an earlier event has already recorded: DO NOTHING.
Recorded(h) ==
    (IF PaymentIn(h) \in payments THEN {"payment"} ELSE {})
    \cup (IF entitlements[EntitlementIn(h)] # NoOrder THEN {"entitlement"} ELSE {})
    \cup (IF PaymentIn(h) \in meta_events THEN {"purchase"} ELSE {})

\* upsertCapturedPayment: DO NOTHING covers razorpay_payment_id; the index
\* payments_one_captured_per_order is not covered and raises.
UpsertCapturedPayment(h) ==
    /\ pc[h] = "pay"
    /\ IF PaymentIn(h) \in payments \/ PaymentsFor(OrderIn(h)) = {}
       THEN Advance(h, "mark", {"payment"} \ Recorded(h))
       ELSE Rollback(h) /\ UNCHANGED faults

\* Mutant: the statement runs on the pool, outside the transaction.
MarkOrderPaidUnpinned(h) ==
    /\ pc[h] = "mark"
    /\ paid' = paid \cup {OrderIn(h)}
    /\ pc' = [pc EXCEPT ![h] = "grant"]
    /\ UNCHANGED <<captured, acked, webhook_events, payments, entitlements, meta_events,
                   event, wrote, faults>>

\* Mutant: the statement updates, and locks, every order of the customer.
MarkOrderPaidOfCustomer(h) ==
    /\ pc[h] = "mark"
    /\ \A g \in Handlers \ {h} :
          pc[g] \in {"pay", "mark", "grant", "enqueue", "commit"} =>
              EntitlementIn(g) # EntitlementIn(h)
    /\ Advance(h, "grant", {"paid"})

\* UPDATE orders SET status = 'PAID'.
MarkOrderPaid(h) == pc[h] = "mark" /\ Advance(h, "grant", {"paid"})

\* The order has a CAPTURED payment this transaction can see, as triggers
\* entitlements_require_capture and meta_events_require_capture demand.
CaptureVisible(h) == "payment" \in wrote[h] \/ PaymentsFor(OrderIn(h)) # {}

\* grantEntitlement: one row per customer and product, whoever came first.
GrantEntitlement(h) ==
    /\ pc[h] = "grant"
    /\ ~Contended(h, "entitlement", EntitlementIn)
    /\ IF CaptureVisible(h)
       THEN Advance(h, "enqueue", {"entitlement"} \ Recorded(h))
       ELSE Rollback(h) /\ UNCHANGED faults

\* enqueueMetaPurchase: DO NOTHING covers meta_event_id; a Purchase of the same
\* order under another id violates meta_events_order_id_key.
EnqueueMetaPurchase(h) ==
    /\ pc[h] = "enqueue"
    /\ IF CaptureVisible(h) /\ PurchasesFor(OrderIn(h)) \subseteq {PaymentIn(h)}
       THEN Advance(h, "commit", {"purchase"} \ Recorded(h))
       ELSE Rollback(h) /\ UNCHANGED faults

\* markWebhookProcessed and COMMIT: the rows appear together.
Commit(h) ==
    LET new(row, value) == IF row \in wrote[h] THEN {value} ELSE {} IN
    /\ pc[h] = "commit"
    /\ webhook_events' = webhook_events \cup new("event", event[h])
    /\ payments' = payments \cup new("payment", PaymentIn(h))
    /\ paid' = paid \cup new("paid", OrderIn(h))
    /\ entitlements' = IF "entitlement" \in wrote[h]
                       THEN [entitlements EXCEPT ![EntitlementIn(h)] = OrderIn(h)]
                       ELSE entitlements
    /\ meta_events' = meta_events \cup new("purchase", PaymentIn(h))
    /\ wrote' = [wrote EXCEPT ![h] = {}]
    /\ pc' = [pc EXCEPT ![h] = "answer"]
    /\ UNCHANGED <<captured, acked, event, faults>>

\* 200 for processed, duplicate and ignored alike.
Answer(h) ==
    /\ pc[h] = "answer"
    /\ acked' = acked \cup {event[h]}
    /\ pc' = [pc EXCEPT ![h] = "idle"]
    /\ event' = [event EXCEPT ![h] = NoEvent]
    /\ UNCHANGED <<captured, tables, wrote, faults>>

\* A statement fails, or the process dies in the middle or before its answer
\* is read: what was not committed is rolled back.
Fail(h) ==
    /\ pc[h] # "idle"
    /\ faults < MaxFaults
    /\ faults' = faults + 1
    /\ Rollback(h)

--------------------------------------------------------------------------
Handle(h) ==
    \/ InsertWebhookEvent(h)
    \/ FindOrder(h)
    \/ UpsertCapturedPayment(h)
    \/ MarkOrderPaid(h)
    \/ GrantEntitlement(h)
    \/ EnqueueMetaPurchase(h)
    \/ Commit(h)
    \/ Answer(h)

Next ==
    \/ \E p \in Payments : Capture(p)
    \/ \E h \in Handlers, v \in Events : Deliver(h, v)
    \/ \E h \in Handlers : Handle(h) \/ Fail(h)

Spec == Init /\ [][Next]_vars

\* A statement that waits for a lock gets its turn, since PostgreSQL wakes the
\* waiters in order, and Razorpay keeps redelivering what was not answered 200.
Fairness ==
    /\ \A h \in Handlers : SF_vars(Handle(h))
    /\ \A v \in Events : SF_vars(v \notin acked /\ \E h \in Handlers : Deliver(h, v))

FairSpec == Spec /\ Fairness

--------------------------------------------------------------------------
(* Properties.                                                             *)

\* Razorpay stops redelivering an event once it is answered 200: by then the
\* payment is recorded, the order is PAID, the customer has the product and
\* the Purchase is in the outbox - also when the 200 answered a duplicate that
\* raced the first delivery (route.ts, insertWebhookEvent).
AcknowledgedIsSettled ==
    \A v \in acked :
        /\ v \in webhook_events
        /\ PaymentOf(v) # NoPayment =>
             LET p == PaymentOf(v) IN
             /\ p \in payments
             /\ p \in meta_events
             /\ OrderOf(p) \in paid
             /\ entitlements[EntitlementOf(OrderOf(p))] # NoOrder

\* Nobody has access to a product without a captured payment of an order that
\* is for that customer and product, even when two orders of the same customer
\* race for the one entitlement row (grantEntitlement, migration 0004).
EntitlementsAreBacked ==
    \A k \in Entitlements :
        entitlements[k] # NoOrder =>
            /\ EntitlementOf(entitlements[k]) = k
            /\ PaymentsFor(entitlements[k]) \cap captured # {}

\* What the boundary promises at every moment: nothing is acknowledged that is not
\* settled, and no access lacks its payment.
WebhookHolds == TypeOK /\ AcknowledgedIsSettled /\ EntitlementsAreBacked

Promise == INSTANCE PaidOrders WITH
    settled   <- payments,
    purchases <- meta_events,
    access    <- {k \in Entitlements : entitlements[k] # NoOrder}

\* The whole transaction is one step of the promise, whatever deliveries
\* overlap, fail or are repeated.
ImplementsPaidOrders == Promise!Spec

\* Every request is answered: no two transactions wait for each other's order
\* lock or index entries for ever (makeTx, the order of its statements).
RequestsEnd == \A h \in Handlers : pc[h] # "idle" ~> pc[h] = "idle"

\* A customer whose card was charged for a known order gets the product,
\* provided Razorpay captured only one payment for the order: of two, the
\* second is refused for ever.
CapturedIsSettled ==
    \A p \in Payments :
        (p \in captured /\ OrderOf(p) \in Known)
            ~> \/ p \in payments
               \/ \E q \in captured : q # p /\ OrderOf(q) = OrderOf(p)
=============================================================================
